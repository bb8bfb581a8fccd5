------------------------------ MODULE Registry ------------------------------
(***************************************************************************)
(* The registry (loader.c 12138-12735, 12746-12837, 13787-14039,           *)
(* 26772-26799, 38390-38420, 1987-2010): a flat table of slots, each with  *)
(* a whole path and a list of values.  A key handle is a slot number.      *)
(*                                                                         *)
(* The table starts empty.  The first call reads the snapshot file         *)
(* (MINWIN_REG_SNAPSHOT) and provides the keys every guest expects;        *)
(* ExitProcess writes the file and then runs the guest's atexit handlers,  *)
(* which may call the registry again.                                      *)
(*                                                                         *)
(* One predefined root (slot 0) stands for the seven, one provided key for *)
(* the dozen.  A path is a sequence of spellings below that root; values   *)
(* have a name and a datum, types left out.  The code takes no lock at     *)
(* all, so this module promises nothing to a guest whose threads do not    *)
(* take turns, and one guest thread makes all the calls here.              *)
(***************************************************************************)
EXTENDS Integers, Sequences, FiniteSets

CONSTANTS
  NSlots,        \* slots of g_reg after the roots' (249 in the code)
  Spellings,     \* of path components
  Lower,         \* mw_reg_wlower, a function on Spellings
  Begins,        \* the proper beginnings of a spelling, NoName among them
  NoName,        \* the component after a last backslash
  Stray,         \* what is left of a path that ends inside its root's name
  Paths,         \* BOUND: the paths guests use
  GuestNames,    \* BOUND: the value names and data they use
  GuestDatas,
  Names, Datas,  \* of values; both have a member that is empty,
  Cut,           \* as what the program finds after the end of the file
  Shortened,     \* what of a name is stored: its first 63 units
  SeedPath, SeedName, SeedData,
  MaxRuns,       \* BOUND: processes run one after the other
  MaxCalls       \* BOUND: calls that change the table, in all of them

ASSUME NSlotsAssumption == NSlots \in Nat \ {0}
ASSUME PathsAssumption  == /\ Paths \subseteq Seq(Spellings \ {NoName, Stray}) /\ SeedPath \in Paths
                           /\ Stray \in Spellings /\ Begins \in [Spellings -> SUBSET Spellings]
ASSUME LowerAssumption  == /\ Lower \in [Spellings -> Spellings]
                           /\ \A c \in Spellings : Lower[Lower[c]] = Lower[c]
ASSUME ValuesAssumption == /\ GuestNames \cup {SeedName, Cut} \subseteq Names
                           /\ GuestDatas \cup {SeedData, Cut} \subseteq Datas
                           /\ Shortened \in [Names -> Names] /\ Shortened[SeedName] = SeedName

VARIABLES
  reg,     \* g_reg: slot 0 is the root's
  ready,   \* g_reg_snap_tried, g_reg_seeded
  file,    \* the snapshot's records, the last one perhaps cut short
  life,    \* "run", or "atexit": inside ExitProcess, the file written
  tree,    \* the RegDeleteTreeW calls the guest is in, the outermost first
  given,   \* the slots the guest was given handles of
  names,   \* history: handles of keys not deleted since, and their paths
  started, \* history: the file this process found
  twins,   \* history: a file cut short gave two slots one path or two values
           \* of a key one name, or a name too long to be kept was set twice
  runs, calls

vars == <<reg, ready, file, life, tree, given, names, started, twins, runs, calls>>
process == <<ready, life, started, runs>>

Slots == 1 .. NSlots
Root  == <<>>
Fold(p)    == [i \in DOMAIN p |-> Lower[p[i]]]
Same(p, q) == Fold(p) = Fold(q)
Below(q, p) == Len(p) < Len(q) /\ SubSeq(q, 1, Len(p)) = p /\ q[1] # Stray
ChildOf(q, p) == Below(Fold(q), Fold(p)) /\ Len(q) = Len(p) + 1

FreeSlot == [live |-> FALSE, path |-> Root, vals |-> <<>>]
Empty    == [s \in 0 .. NSlots |-> [FreeSlot EXCEPT !.live = (s = 0)]]

Init ==
  /\ reg = Empty /\ ready = FALSE /\ file = <<>> /\ started = <<>> /\ twins = FALSE
  /\ life = "run" /\ tree = <<>> /\ given = {} /\ names = {}
  /\ runs = 1 /\ calls = 0
-----------------------------------------------------------------------------
(* Finding and claiming slots: the roots' are never found.                   *)
Finds(r, s, p) == /\ r[s].live /\ Same(r[s].path, p)
                  /\ \A t \in Slots : t < s /\ r[t].live => ~ Same(r[t].path, p)

(* Mutant: the key is known only in the spelling it was stored in.           *)
KnownSpelling(r, p) == \E s \in Slots : r[s].live /\ r[s].path = p

Known(r, p) == \E s \in Slots : r[s].live /\ Same(r[s].path, p)
Key(p) == [live |-> TRUE, path |-> p, vals |-> <<>>]

(* Mutant: the slot after some live ones is taken, free or not.              *)
FreeMaybeLive(r, s) == \A t \in Slots : t < s => r[t].live

Free(r, s)  == ~ r[s].live /\ \A t \in Slots : t < s => r[t].live

(* Mutant: the values the slot held are kept.                                *)
NewKeyOldValues(r, s, p) == [r EXCEPT ![s].live = TRUE, ![s].path = p]

NewKey(r, s, p) == [r EXCEPT ![s] = Key(p)]

(* Some key lies below p, in the same spelling.                              *)
HasDescendant(r, p) == \E s \in Slots : r[s].live /\ Below(r[s].path, p)

(* Where p is found, or the missing ancestor of a key is put.                *)
Opened(r, p) ==
  {<<s, r>> : s \in {t \in Slots : Finds(r, t, p)}} \cup
  {<<s, NewKey(r, s, p)>> :
     s \in {t \in Slots : ~ Known(r, p) /\ HasDescendant(r, p) /\ Free(r, t)}}

Created(r, p) ==
  {<<s, r>> : s \in {t \in Slots : Finds(r, t, p)}} \cup
  {<<s, NewKey(r, s, p)>> : s \in {t \in Slots : ~ Known(r, p) /\ Free(r, t)}}
-----------------------------------------------------------------------------
(* Values, in the order they were first set                                  *)

IsFirst(vs, i, n) == vs[i].name = n /\ \A j \in 1 .. i - 1 : vs[j].name # n
Has(vs, n) == \E i \in DOMAIN vs : vs[i].name = n
Value(n, d) == [name |-> n, data |-> d]

(* The whole name is looked for, what fits is stored.                        *)
Put(vs, n, d) ==
  IF Has(vs, n) THEN [i \in DOMAIN vs |-> IF IsFirst(vs, i, n) THEN Value(n, d) ELSE vs[i]]
  ELSE Append(vs, Value(Shortened[n], d))

Drop(vs, n) == LET i == CHOOSE j \in DOMAIN vs : IsFirst(vs, j, n)
               IN  SubSeq(vs, 1, i - 1) \o SubSeq(vs, i + 1, Len(vs))

(* No name comes twice.                                                      *)
Distinct(vs) == \A i, j \in DOMAIN vs : vs[i].name = vs[j].name => i = j

(* What the guest sees: of two values with one name, the first.              *)
Valued(vs) == [n \in {vs[i].name : i \in DOMAIN vs} |->
                 vs[CHOOSE i \in DOMAIN vs : IsFirst(vs, i, n)].data]
Keys(r) == LET live == {s \in DOMAIN r \ {0} : r[s].live} IN
           [p \in {Fold(r[s].path) : s \in live} |->
              Valued(r[CHOOSE s \in live : /\ Fold(r[s].path) = p
                                           /\ \A t \in live : Fold(r[t].path) = p => s <= t].vals)]
FileKeys(f) == Keys([s \in 0 .. Len(f) |-> IF s = 0 THEN FreeSlot ELSE f[s]])
-----------------------------------------------------------------------------
(* The snapshot and the start of a process                                   *)

Records == [i \in 1 .. NSlots |-> reg[i]]

(* A record is read into the slot it was written from; the roots' are not.   *)
Loaded == [s \in 0 .. NSlots |->
             IF s \in DOMAIN file /\ file[s].live THEN file[s] ELSE reg[s]]

(* mw_reg_seed_windows: a key that does not open is created and filled.      *)
Filled(r, s) == [r EXCEPT ![s].vals = Put(r[s].vals, SeedName, SeedData)]
Seeded(r) ==
  IF Opened(r, SeedPath) # {} THEN {o[2] : o \in Opened(r, SeedPath)}
  ELSE {Filled(o[2], o[1]) : o \in Created(r, SeedPath)}

Repeated(s) == \E t \in DOMAIN file \ {s} : file[t].live /\ Same(file[s].path, file[t].path)

(* Whichever call comes first does this first.                               *)
Load ==
  /\ ~ ready /\ ready' = TRUE
  /\ IF Seeded(Loaded) = {} THEN reg' = Loaded ELSE reg' \in Seeded(Loaded)
  /\ twins' = (twins \/ \E s \in DOMAIN file : /\ file[s].live
                                               /\ ~ Distinct(file[s].vals) \/ Repeated(s))
  /\ UNCHANGED <<file, life, tree, given, names, started, runs, calls>>

NewProcess(f) ==
  /\ runs < MaxRuns /\ runs' = runs + 1
  /\ reg' = Empty /\ ready' = FALSE /\ tree' = <<>> /\ UNCHANGED calls
  /\ given' = {} /\ names' = {} /\ life' = "run"
  /\ started' = f /\ file' = f /\ UNCHANGED twins

(* Written whether or not the file was ever read.                            *)
ExitProcess ==
  /\ life = "run" /\ tree = <<>>
  /\ file' = Records /\ life' = "atexit"
  /\ UNCHANGED <<reg, ready, tree, given, names, started, twins, runs, calls>>

(* The last atexit handler returned.                                         *)
Exits == life = "atexit" /\ tree = <<>> /\ NewProcess(file)

(* main returned, or exit, or TerminateProcess on itself: no handler of the  *)
(* guest's runs, and the hook saves if a registry call has set it.           *)
MainReturns == life = "run" /\ tree = <<>> /\ NewProcess(IF ready THEN Records ELSE file)

(* TerminateProcess, a fault the guest does not handle.                      *)
Killed == NewProcess(file)

(* What reading the record gives when the file ends inside it: the first     *)
(* characters of its path, or of a value's name, which may name another one. *)
EndsIn(p, j) == {Append(SubSeq(p, 1, j - 1), c) : c \in Begins[p[j]]}
CutPaths(p) ==
  {<<Stray>>} \cup {SubSeq(p, 1, j) : j \in 0 .. Len(p)} \cup
  UNION {EndsIn(p, j) : j \in DOMAIN p}
CutValues(vs, j, n) ==
  [i \in DOMAIN vs |-> IF i < j THEN vs[i] ELSE Value(IF i = j THEN n ELSE Cut, Cut)]
NamesIn(vs) == {Cut} \cup {vs[i].name : i \in DOMAIN vs}
CutShort(k) ==
  {Key(p) : p \in CutPaths(k.path)} \cup
  UNION {{[k EXCEPT !.vals = CutValues(@, j, n)] : j \in DOMAIN k.vals} : n \in NamesIn(k.vals)}

(* The process or the disk gives out while the file is being written.        *)
SaveStops ==
  /\ life = "run" /\ tree = <<>>
  /\ \E i \in Slots :
       \/ NewProcess(SubSeq(Records, 1, i - 1))
       \/ /\ reg[i].live
          /\ \E k \in CutShort(reg[i]) : NewProcess(Append(SubSeq(Records, 1, i - 1), k))
-----------------------------------------------------------------------------
(* The calls                                                                 *)

Calls  == ready /\ calls < MaxCalls /\ calls' = calls + 1 /\ UNCHANGED <<file, process>>
Called == Calls /\ UNCHANGED twins

Hands(s, p) == given' = given \cup {s} /\ names' = names \cup {<<s, Fold(p)>>}

(* Without a free slot, and without the key, both fail.                      *)
RegCreateKeyEx(p) ==
  /\ Called /\ tree = <<>>
  /\ \E o \in Created(reg, p) : reg' = o[2] /\ Hands(o[1], p)
  /\ UNCHANGED tree

RegOpenKeyEx(p) ==
  /\ Called /\ tree = <<>>
  /\ \E o \in Opened(reg, p) : reg' = o[2] /\ Hands(o[1], p)
  /\ UNCHANGED tree

(* Handles are not checked beyond their slot being live.                     *)
RegSetValueEx(s, n, d) ==
  /\ Calls /\ tree = <<>>
  /\ reg[s].live
  /\ reg' = [reg EXCEPT ![s].vals = Put(@, n, d)]
  /\ twins' = (twins \/ (~ Has(reg[s].vals, n) /\ Has(reg[s].vals, Shortened[n])))
  /\ UNCHANGED <<tree, given, names>>

RegDeleteValue(s, n) ==
  /\ Called /\ tree = <<>>
  /\ reg[s].live /\ Has(reg[s].vals, n)
  /\ reg' = [reg EXCEPT ![s].vals = Drop(@, n)]
  /\ UNCHANGED <<tree, given, names>>

(* The key goes, its descendants stay.                                       *)
Forget(p) ==
  /\ \E s \in Slots : Finds(reg, s, p) /\ reg' = [reg EXCEPT ![s].live = FALSE]
  /\ names' = {h \in names : h[2] # Fold(p)}

RegDeleteKey(p) == Called /\ tree = <<>> /\ Forget(p) /\ UNCHANGED <<tree, given>>

(* RegDeleteTreeW(root, p): p is opened, then its first child is deleted     *)
(* until there is none, then p.  The children of the root itself are opened  *)
(* in turn; any other key's are looked up below a handle where only a root's *)
(* is accepted, and nothing is done about them.                              *)
Frame(s, p, self) == [slot |-> s, path |-> p, self |-> self]

RegDeleteTree(p) ==
  /\ Called /\ tree = <<>> /\ p # Root
  /\ \E o \in Opened(reg, p) : reg' = o[2] /\ tree' = <<Frame(o[1], p, TRUE)>>
  /\ UNCHANGED <<given, names>>

(* RegDeleteTreeW(key, NULL): what is below key, not key itself.             *)
RegDeleteTreeOf(s) ==
  /\ Called /\ tree = <<>>
  /\ tree' = <<Frame(s, Root, FALSE)>>
  /\ UNCHANGED <<reg, given, names>>

Top == tree[Len(tree)]
Children(s, p) == {t \in Slots \ {s} : reg[t].live /\ ChildOf(reg[t].path, p)}
FirstChild(s, p) == CHOOSE t \in Children(s, p) : \A u \in Children(s, p) : t <= u
LastOf(p) == p[Len(p)]
Nameless(s, p) == LastOf(reg[FirstChild(s, p)].path) = NoName

TreeChild ==
  /\ tree # <<>> /\ Top.slot = 0 /\ Children(0, Root) # {} /\ ~ Nameless(0, Root)
  /\ LET p == reg[FirstChild(0, Root)].path IN
     \E o \in Opened(reg, p) : tree' = Append(tree, Frame(o[1], p, TRUE))
  /\ UNCHANGED <<reg, given, names, file, process, twins, calls>>

(* The child is not opened, and is there to be tried again; or its name is   *)
(* empty and the call is for the same key again, until the stack is used up  *)
(* (then the process is Killed).                                             *)
TreeStuck ==
  /\ tree # <<>> /\ reg[Top.slot].live /\ Children(Top.slot, reg[Top.slot].path) # {}
  /\ Top.slot # 0 \/ Nameless(0, Root)
  /\ UNCHANGED vars

(* No child is left, or the handle is of a slot that is free.                *)
TreeDone ==
  /\ tree # <<>>
  /\ reg[Top.slot].live => Children(Top.slot, reg[Top.slot].path) = {}
  /\ tree' = SubSeq(tree, 1, Len(tree) - 1)
  /\ IF Top.self THEN Forget(Top.path) ELSE UNCHANGED <<reg, names>>
  /\ UNCHANGED <<given, file, process, twins, calls>>

DeletesTree == TreeChild \/ TreeStuck \/ TreeDone

Call ==
  \/ \E p \in Paths : \/ RegCreateKeyEx(p) \/ RegOpenKeyEx(p)
                      \/ RegDeleteKey(p) \/ RegDeleteTree(p)
  \/ \E s \in given \cup {0} :
       \/ RegDeleteTreeOf(s)
       \/ \E n \in GuestNames : RegDeleteValue(s, n) \/ \E d \in GuestDatas : RegSetValueEx(s, n, d)

Next == Load \/ Call \/ DeletesTree \/ ExitProcess \/ Exits \/ MainReturns \/ Killed
        \/ SaveStops

Spec == Init /\ [][Next]_vars
FairSpec == Spec /\ WF_vars(DeletesTree) /\ WF_vars(Load)
-----------------------------------------------------------------------------
(* Type correctness: slots and records hold keys of a path and a list of     *)
(* values, the handles given out are of slots.                               *)
KeyType == [live : BOOLEAN, path : Seq(Spellings), vals : Seq([name : Names, data : Datas])]

TypeOK ==
  /\ reg \in [0 .. NSlots -> KeyType]
  /\ Len(file) <= NSlots /\ \A i \in DOMAIN file : file[i] \in KeyType
  /\ life \in {"run", "atexit"} /\ ready \in BOOLEAN /\ twins \in BOOLEAN
  /\ given \subseteq Slots /\ \A h \in names : h[1] \in given
  /\ \A i \in DOMAIN tree : tree[i].slot \in 0 .. NSlots /\ tree[i].path \in Seq(Spellings)

(* No two slots hold one key, spelt alike or not, and no two values of a key *)
(* one name: RegCreateKeyEx finds a key before it takes a slot, RegSetValueEx*)
(* a value before it appends one, and reading the file puts every key back   *)
(* where it was written from.                                                *)
OneSlotPerKey == ~ twins =>
  /\ \A s, t \in Slots : s # t /\ reg[s].live /\ reg[t].live => ~ Same(reg[s].path, reg[t].path)
  /\ \A s \in 0 .. NSlots : Distinct(reg[s].vals)

(* The hive and the file hold what their types say, each key in one place.   *)
KeyTableOK == TypeOK /\ OneSlotPerKey

(* A handle is a slot number that is never taken back, and still names the   *)
(* key it was given for, until that key is deleted: neither opening, nor     *)
(* creating, nor deleting other keys moves it or gives its slot away.        *)
HandlesNameTheirKey == ~ twins =>
  \A h \in names : reg[h[1]].live /\ Fold(reg[h[1]].path) = h[2]

(* The slots, the file and the code that keeps them implement the map of     *)
(* RegistryStore, through exits, kills and files cut short.                  *)
Promise == INSTANCE RegistryStore WITH
  keys <- IF twins \/ ~ ready THEN <<>> ELSE Keys(reg),
  file <- IF twins THEN <<>> ELSE FileKeys(file),
  lost <- twins,
  SeedPath <- Fold(SeedPath), SeedValues <- [n \in {SeedName} |-> SeedData]
IsRegistryStore == Promise!Spec

(* For TLC: "a" and "A" are two spellings of one component, "ab" begins like *)
(* it, and of the name "long" only "cut" is stored.                            *)
TwoSpellings == [c \in Spellings |-> IF c = "A" THEN "a" ELSE c]
Beginnings == [c \in Spellings |-> CASE c = "ab" -> {"a", "none"}
                                     [] c \in {"a", "A"} -> {"none"}
                                     [] OTHER -> {}]
FirstUnits == [n \in Names |-> IF n = "long" THEN "cut" ELSE n]
SmallPaths == {<<"a">>, <<"A">>, <<"a", "ab">>, <<>>}
SmallSeed == <<"a", "ab">>
=============================================================================
