--------------------------------- MODULE Heap ---------------------------------
(***************************************************************************)
(* The guest's heaps (loader.c 7469-7540, 8265-8370, 9275-9595, 9810-9929,   *)
(* 16505-16563, 34791-34828, 36496-36510, 47944-47956): malloc, HeapAlloc,   *)
(* GlobalAlloc and LocalAlloc are the host's malloc, a guarded mapping or a  *)
(* slice of the 32-bit arena; every block is noted in g_alloc_reg, a hash    *)
(* table with tombstones and no lock, and freeing a block that is not there  *)
(* ends the process.  An operation is what it does to the host's heap and    *)
(* the table, step by step.  A block is its address.                         *)
(***************************************************************************)
EXTENDS Integers, Sequences, FiniteSets, FiniteSetsExt

CONSTANTS
  Users,       \* guest threads
  NAddr,       \* addresses the host's heap gives out
  NReg,        \* W3_REG_SIZE, 2^19
  NGHandle,    \* MW_GHANDLE_MAX, 64
  CookieMod,   \* cookies are numbered modulo 4096
  MaxCookies   \* bounds the cookies minted

VARIABLES
  mode,        \* "host", "guard" (MINWIN_HEAP_GUARD) or "arena" (a 32-bit program)
  owned,       \* addresses the host's heap, or the arena, has given out
  reg,         \* g_alloc_reg: index -> [p, flag]; flag is bit 32 of the size
  todo,        \* user -> the steps left of its operation
  blocks,      \* history: the guest's blocks, [p, fam, whole]
  ghandle,     \* g_ghandle: index -> [live, cookie, base]
  minted,      \* g_gdesc_next
  cookies,     \* history: the guest's cookies and the block of each
  issued,      \* g_bstr_issued
  died,        \* history: a free of the guest's ended the process
  lost         \* history: what the table cannot be right after

table   == <<reg, todo, lost>>
globals == <<ghandle, minted, cookies>>
vars == <<mode, owned, table, blocks, globals, issued, died>>

Addrs == 1 .. NAddr
Empty == [p |-> 0, flag |-> FALSE]
Tomb  == [p |-> -1, flag |-> FALSE]
Indices == 0 .. NReg - 1
Cookies == 1 .. NGHandle
NoCookie == [live |-> FALSE, cookie |-> 0, base |-> 0]

Init ==
  /\ mode \in {"host", "guard", "arena"}
  /\ owned = {} /\ blocks = {} /\ issued = {}
  /\ reg = [i \in Indices |-> Empty] /\ todo = [u \in Users |-> <<>>] /\ lost = {}
  /\ ghandle = [i \in Cookies |-> NoCookie] /\ minted = 1 /\ cookies = {}
  /\ died = "no"
-----------------------------------------------------------------------------
(* The table                                                                 *)

(* The probe order of an address, and where a search for it ends.            *)
Probe(p, k) == (p + k) % NReg
StopsAt(p, Good(_)) == {k \in Indices : Good(reg[Probe(p, k)]) /\ \A j \in 0 .. k - 1 : ~ Good(reg[Probe(p, j)])}
Found(p) ==
  LET At(e) == e.p = p \/ e = Empty IN
  {Probe(p, k) : k \in {j \in StopsAt(p, At) : reg[Probe(p, j)].p = p}}
Room(p) ==
  LET At(e) == e.p = p \/ e = Empty \/ e = Tomb IN
  {Probe(p, k) : k \in StopsAt(p, At)}

Has(p) == Found(p) # {}
Flagged(p) == \E i \in Found(p) : reg[i].flag

(* The steps of operations.                                                  *)
Scan(p, f)  == [do |-> "scan", p |-> p, flag |-> f]
Store(p, f, i) == [do |-> "store", p |-> p, flag |-> f, i |-> i]
Del(p)      == [do |-> "del", p |-> p]
LateDel(p)  == [do |-> "late", p |-> p]
Free(p)     == [do |-> "free", p |-> p]

(* w3_reg_add_sz looks for its entry or the first reusable one and then      *)
(* writes it; when another thread has written there since, its block is out  *)
(* of the table, and when the table is full the new one is.                  *)
ScanTable(u, p, f) ==
  IF Room(p) = {}
  THEN todo' = [todo EXCEPT ![u] = Tail(@)] /\ lost' = lost \cup {"full"} /\ UNCHANGED reg
  ELSE /\ \E i \in Room(p) : todo' = [todo EXCEPT ![u] = <<Store(p, f, i)>> \o Tail(@)]
       /\ UNCHANGED <<reg, lost>>

StoreEntry(u, p, f, i) ==
  /\ reg' = [reg EXCEPT ![i] = [p |-> p, flag |-> f]]
  /\ lost' = IF reg[i].p \in {p, 0, -1} THEN lost ELSE lost \cup {"overwritten"}
  /\ todo' = [todo EXCEPT ![u] = Tail(@)]

(* w3_reg_del.  After realloc(3) or munmap(2) the address may have been      *)
(* given to another thread, whose entry is then the one that goes.           *)
DelEntry(u, p, late) ==
  /\ reg' = [i \in Indices |-> IF i \in Found(p) THEN Tomb ELSE reg[i]]
  /\ lost' = IF late /\ p \in owned THEN lost \cup {"late"} ELSE lost
  /\ todo' = [todo EXCEPT ![u] = Tail(@)]

(* The model follows the guest no further once the table cannot be right or  *)
(* the process has ended.                                                    *)
Sound == lost \subseteq {"unmapped"}
Step(u) ==
  LET s == Head(todo[u]) IN
  /\ todo[u] # <<>> /\ died = "no" /\ Sound
  /\ CASE s.do = "scan"  -> ScanTable(u, s.p, s.flag) /\ UNCHANGED owned
       [] s.do = "store" -> StoreEntry(u, s.p, s.flag, s.i) /\ UNCHANGED owned
       [] s.do = "del"   -> DelEntry(u, s.p, FALSE) /\ UNCHANGED owned
       [] s.do = "late"  -> DelEntry(u, s.p, TRUE) /\ UNCHANGED owned
       [] s.do = "free"  -> /\ owned' = owned \ {s.p}
                            /\ todo' = [todo EXCEPT ![u] = Tail(@)] /\ UNCHANGED <<reg, lost>>
  /\ UNCHANGED <<mode, blocks, globals, issued, died>>
-----------------------------------------------------------------------------
(* Allocation                                                                *)

Begins(u, steps) == todo[u] = <<>> /\ died = "no" /\ Sound /\ todo' = [todo EXCEPT ![u] = steps]

(* Blocks the guest has got from the call that made them.                    *)
Blocks == {b \in blocks : \A u \in Users : \A k \in DOMAIN todo[u] : todo[u][k].p # b.p}
Known(b) == {c \in cookies : c.p = b.p}

(* The arena only grows, by whole pages; the host's heap gives out any       *)
(* address that is free.                                                     *)
Fresh == IF mode = "arena" THEN (IF NAddr \in owned THEN {} ELSE {Cardinality(owned) + 1}) ELSE Addrs \ owned

(* Block families: "crt" malloc and friends, "heap" HeapAlloc, "global" and  *)
(* "local", "aligned", "bstr".  The last two are not in the table, nor is    *)
(* HeapAlloc's in the arena.                                                 *)
Noted(fam) == fam \notin {"aligned", "bstr"} /\ ~ (mode = "arena" /\ fam = "heap")
Guarded(fam) == mode = "arena" \/ (mode = "guard" /\ fam \in {"crt", "heap"})
Families == IF mode = "arena" THEN {"heap", "global", "local"} ELSE {"crt", "heap", "global", "aligned", "bstr"}

Alloc(u, fam, whole) ==
  /\ fam \in Families /\ (whole => fam = "local")
  /\ \E p \in Fresh :
       /\ owned' = owned \cup {p}
       /\ Begins(u, IF Noted(fam) THEN <<Scan(p, Guarded(fam))>> ELSE <<>>)
       /\ blocks' = blocks \cup {[p |-> p, fam |-> fam, whole |-> whole]}
       /\ issued' = IF fam = "bstr" THEN issued \cup {p} ELSE issued
  /\ UNCHANGED <<mode, reg, lost, globals, died>>

(* realloc(3) may move the block; the table hears of it afterwards.  A       *)
(* guarded block, and one in the arena, is copied to a new one.              *)
Moved(b, p) ==
  LET again == Scan(p, Guarded(b.fam)) IN
  IF ~ Noted(b.fam) \/ (p = b.p /\ b.fam = "global") THEN <<>>
  ELSE IF mode = "arena" \/ p = b.p THEN <<Del(b.p), again>> ELSE <<LateDel(b.p), again>>

Realloc(u, b) ==
  /\ b \in Blocks /\ b.fam \in {"crt", "heap", "global"} /\ (b.fam = "crt" => Has(b.p))
  /\ \E p \in Fresh \cup (IF Guarded(b.fam) THEN {} ELSE {b.p}) :
       /\ Begins(u, Moved(b, p))
       /\ owned' = (IF mode = "arena" THEN owned ELSE owned \ {b.p}) \cup {p}
       /\ blocks' = (blocks \ {b}) \cup {[b EXCEPT !.p = p]}
       /\ cookies' = IF p = b.p THEN cookies ELSE cookies \ Known(b)
  /\ UNCHANGED <<mode, reg, lost, ghandle, minted, issued, died>>
-----------------------------------------------------------------------------
(* Freeing                                                                   *)

Gone(b) == blocks' = blocks \ {b} /\ cookies' = cookies \ Known(b)

(* The entry goes before the address is free for others, but a guarded       *)
(* block is unmapped first.                                                  *)
FreeSteps(b) == IF Flagged(b.p) THEN <<Free(b.p), LateDel(b.p)>> ELSE <<Del(b.p), Free(b.p)>>

(* free and HeapFree; a block the table does not have ends the process.      *)
FreeBlock(u, b) ==
  /\ b \in Blocks /\ b.fam \in {"crt", "heap"} /\ mode # "arena" /\ Gone(b)
  /\ IF Has(b.p) THEN Begins(u, FreeSteps(b)) /\ UNCHANGED died
                 ELSE Begins(u, <<>>) /\ died' = "trap"
  /\ UNCHANGED <<mode, owned, reg, lost, ghandle, minted, issued>>

(* An aligned block that reaches free: w3_trap_bad_free finds its base,      *)
(* frees that and returns, and free goes on to free the block itself.        *)
FreeAligned(u, b, own) ==
  /\ b \in Blocks /\ b.fam = "aligned" /\ Gone(b) /\ Begins(u, <<>>)
  /\ owned' = owned \ {b.p}
  /\ died' = IF own THEN "no" ELSE "abort"
  /\ UNCHANGED <<mode, reg, lost, ghandle, minted, issued>>

(* GlobalFree and LocalFree by pointer.  In the arena LocalFree takes the    *)
(* flag every entry has there for a guarded block: munmap refuses the odd    *)
(* address of a block that is not whole pages, and else unmaps the block and *)
(* the page behind it.                                                       *)
LocalFree(u, b) ==
  /\ b \in Blocks /\ b.fam \in {"global", "local"} /\ Gone(b)
  /\ IF ~ Has(b.p) THEN Begins(u, <<>>) /\ UNCHANGED lost
     ELSE IF mode = "arena"
          THEN /\ Begins(u, <<Del(b.p)>>)
               /\ lost' = IF b.fam = "local" /\ b.whole THEN lost \cup {"unmapped"} ELSE lost
          ELSE Begins(u, <<Del(b.p), Free(b.p)>>) /\ UNCHANGED lost
  /\ UNCHANGED <<mode, owned, reg, ghandle, minted, issued, died>>

(* SysFreeString ignores what SysAllocString has not issued.                 *)
SysFreeString(u, b) ==
  /\ b \in Blocks /\ b.fam = "bstr" /\ Gone(b) /\ Begins(u, <<>>)
  /\ issued' = issued \ {b.p} /\ owned' = IF b.p \in issued THEN owned \ {b.p} ELSE owned
  /\ UNCHANGED <<mode, reg, lost, ghandle, minted, died>>
-----------------------------------------------------------------------------
(* Cookies of GlobalHandle                                                   *)

CookieOf(n) == n % CookieMod
SlotOf(c) == {i \in Cookies : ghandle[i].live /\ ghandle[i].cookie = c}
Resolves(c) == IF SlotOf(c) = {} THEN 0 ELSE ghandle[Min(SlotOf(c))].base

(* Each call mints another cookie; from the 65th one it is noted nowhere.    *)
GlobalHandle(u, b) ==
  LET free == {i \in Cookies : ~ ghandle[i].live} IN
  /\ b \in Blocks /\ b.fam = "global" /\ minted < MaxCookies /\ Begins(u, <<>>)
  /\ minted' = minted + 1
  /\ IF free = {} THEN UNCHANGED <<ghandle, cookies>>
     ELSE /\ ghandle' = [ghandle EXCEPT ![Min(free)] = [live |-> TRUE, cookie |-> CookieOf(minted), base |-> b.p]]
          /\ cookies' = IF Resolves(CookieOf(minted)) # 0 THEN {c \in cookies : c.c # CookieOf(minted)}
                        ELSE cookies \cup {[c |-> CookieOf(minted), p |-> b.p]}
  /\ UNCHANGED <<mode, owned, reg, lost, blocks, issued, died>>

(* GlobalFree of a cookie: its block and this cookie, but no other of the    *)
(* block's; free(3) knows nothing of an arena.                               *)
GlobalFreeCookie(u, c) ==
  LET mine == {b \in blocks : b.p = c.p /\ b.fam = "global"} IN
  /\ c \in cookies /\ Resolves(c.c) # 0
  /\ Begins(u, IF Has(Resolves(c.c)) THEN <<Del(Resolves(c.c)), Free(Resolves(c.c))>> ELSE <<Free(Resolves(c.c))>>)
  /\ blocks' = blocks \ mine /\ cookies' = {d \in cookies : d.p # c.p}
  /\ ghandle' = [ghandle EXCEPT ![Min(SlotOf(c.c))].live = FALSE]
  /\ died' = IF mode = "arena" THEN "abort" ELSE died
  /\ UNCHANGED <<mode, owned, reg, lost, minted, issued>>

Next ==
  \/ \E u \in Users : Step(u)
  \/ \E u \in Users, fam \in {"crt", "heap", "global", "local", "aligned", "bstr"}, w \in BOOLEAN : Alloc(u, fam, w)
  \/ \E u \in Users, b \in Blocks :
       \/ Realloc(u, b) \/ FreeBlock(u, b) \/ LocalFree(u, b) \/ SysFreeString(u, b) \/ GlobalHandle(u, b)
       \/ \E own \in BOOLEAN : FreeAligned(u, b, own)
  \/ \E u \in Users, c \in cookies : GlobalFreeCookie(u, c)

Spec == Init /\ [][Next]_vars
-----------------------------------------------------------------------------
Quiet == \A u \in Users : todo[u] = <<>>

(* Every block of the guest's is noted, so that freeing it does not end the  *)
(* process, however allocations and frees of threads interleave: unless the  *)
(* table was full, two threads wrote to one entry, or an address was given   *)
(* out again before realloc or a guarded free had taken its entry back.      *)
BlocksAreNoted ==
  Sound => /\ died # "trap"
           /\ Quiet => \A b \in blocks : Noted(b.fam) => Has(b.p)

(* What is noted is a block of the host's or the arena: a second free of an  *)
(* address is noticed.                                                       *)
NotedAreBlocks == Sound /\ Quiet => \A i \in Indices : reg[i].p > 0 => reg[i].p \in owned

(* A cookie of a block that is neither freed nor moved leads to the block.   *)
CookiesFindTheirBlock == \A c \in cookies : Resolves(c.c) = c.p

(* A string is freed once, and only if SysAllocString made it.               *)
StringsAreIssued == issued = {b.p : b \in {x \in blocks : x.fam = "bstr"}}

HeapsKeepTheirBlocks ==
  BlocksAreNoted /\ NotedAreBlocks /\ CookiesFindTheirBlock /\ StringsAreIssued
=============================================================================
