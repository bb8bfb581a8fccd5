---------------------------- MODULE VirtualMemory ----------------------------
(***************************************************************************)
(* VirtualAlloc and its relatives: pages the host maps, and a table of the *)
(* regions a guest was given, by which they are found again when they are  *)
(* freed.  A 32-bit guest is served from an arena it never gives back.     *)
(***************************************************************************)
EXTENDS Integers, Sequences, FiniteSets, SequencesExt, FiniteSetsExt

CONSTANTS
  NPages, NArena,     \* pages of a 64-bit guest, and of the arena below 4 GB
  ImagePages, StackPages,  \* pages of the image and of the asking thread's stack
  NVAlloc,            \* MAX_VALLOC, 256
  Protections,        \* what a guest may ask for
  MaxVmCalls

VARIABLES
  vm,        \* page -> [mapped, prot, data]: what the host lets be done, and who wrote it, 0 for nobody
  regions,   \* g_valloc, [base, size]
  arena,     \* the next page of the arena
  mode32,
  live,      \* history: what the guest holds, [base, size, id]
  again,     \* history: pages were asked for by their address
  dropped,   \* history: a region did not fit the table
  vmCalls

vars == <<vm, regions, arena, mode32, live, again, dropped, vmCalls>>

Pages == 0 .. NPages - 1
Arena == NPages .. NPages + NArena - 1
Span(base, n) == base .. base + n - 1
Unmapped == [mapped |-> FALSE, prot |-> {}, data |-> 0]

(* What the host is asked for, when memory is made, and when it is changed:  *)
(* then it is never less than readable and writable, or nothing at all.      *)
HostProt(p) ==
  CASE p = "noaccess" -> {}
    [] p = "readonly" -> {"r"}
    [] p \in {"readwrite", "writecopy"} -> {"r", "w"}
    [] p = "execute" -> {"x"}
    [] p = "execute_read" -> {"r", "x"}
    [] OTHER -> {"r", "w", "x"}
ChangedProt(p) ==
  CASE p = "noaccess" -> {}
    [] p \in {"readonly", "readwrite", "writecopy"} -> {"r", "w"}
    [] OTHER -> {"r", "w", "x"}
-----------------------------------------------------------------------------
Asking == vmCalls < MaxVmCalls /\ vmCalls' = vmCalls + 1
Register(base, n) ==
  IF Len(regions) < NVAlloc THEN regions' = Append(regions, [base |-> base, size |-> n]) /\ UNCHANGED dropped
  ELSE dropped' = TRUE /\ UNCHANGED regions
Mapped(base, n, prot) ==
  vm' = [p \in DOMAIN vm |-> IF p \in Span(base, n) THEN [mapped |-> TRUE, prot |-> prot, data |-> 0] ELSE vm[p]]
Hold(base, n) == live' = live \union {[base |-> base, size |-> n, id |-> vmCalls + 1]}
Held == UNION {Span(l.base, l.size) : l \in live}

(* VirtualAlloc where the host, or the arena, has room.                      *)
VirtualAlloc(n, p) ==
  /\ Asking /\ ~ mode32
  /\ \E base \in {b \in Pages : Span(b, n) \subseteq Pages /\ \A q \in Span(b, n) : ~ vm[q].mapped} :
       Mapped(base, n, HostProt(p)) /\ Register(base, n) /\ Hold(base, n)
  /\ UNCHANGED <<arena, mode32, again>>
VirtualAlloc32(n) ==
  /\ Asking /\ mode32 /\ Span(arena, n) \subseteq Arena
  /\ Mapped(arena, n, {"r", "w"}) /\ Register(arena, n) /\ Hold(arena, n) /\ arena' = arena + n
  /\ UNCHANGED <<mode32, again>>
(* Pages asked for by their address are made anew, whatever was there; that  *)
(* is a region of its own.  A guest commits what it holds, or asks for free  *)
(* pages; a 32-bit one is refused.                                           *)
VirtualAllocAt(base, n, p) ==
  /\ Asking /\ ~ mode32 /\ Span(base, n) \subseteq Pages \ (ImagePages \union StackPages)
  /\ \/ \E l \in live : Span(base, n) \subseteq Span(l.base, l.size) /\ UNCHANGED live
     \/ (\A q \in Span(base, n) : ~ vm[q].mapped /\ q \notin Held) /\ Hold(base, n)
  /\ Mapped(base, n, HostProt(p)) /\ Register(base, n)
  /\ again' = TRUE
  /\ UNCHANGED <<arena, mode32>>

(* valloc_find: the first region that starts there.                          *)
Find(base) == SelectInSeq(regions, LAMBDA r : r.base = base)
(* MEM_RELEASE: the last region takes the place of one that is freed.        *)
VirtualFree(l) ==
  /\ Asking
  /\ LET i == Find(l.base) IN
     IF i = 0 THEN UNCHANGED <<vm, regions, live>>
     ELSE /\ vm' = [q \in DOMAIN vm |-> IF q \in Span(l.base, regions[i].size) THEN Unmapped ELSE vm[q]]
          /\ regions' = [k \in 1 .. Len(regions) - 1 |-> IF k = i THEN Last(regions) ELSE regions[k]]
          /\ live' = live \ {l}
  /\ UNCHANGED <<arena, mode32, again, dropped>>
(* MEM_DECOMMIT: pages up to the first that is not mapped cannot be used any *)
(* more, and keep what is in them.                                           *)
Until(base, n) == {q \in Span(base, n) \intersect DOMAIN vm : \A r \in base .. q : r \in DOMAIN vm /\ vm[r].mapped}
VirtualDecommit(base, n) ==
  /\ Asking /\ base \in Held
  /\ LET i == Find(base)
         m == IF i # 0 /\ n > regions[i].size THEN regions[i].size ELSE n IN
     vm' = [q \in DOMAIN vm |-> IF q \in Until(base, m) THEN [vm[q] EXCEPT !.prot = {}] ELSE vm[q]]
  /\ UNCHANGED <<regions, arena, mode32, live, again, dropped>>
(* Page by page; those that are not mapped are left out.                     *)
VirtualProtect(base, n, p) ==
  /\ Asking /\ base \in Held \union ImagePages
  /\ vm' = [q \in DOMAIN vm |-> IF q \in Span(base, n) /\ vm[q].mapped THEN [vm[q] EXCEPT !.prot = ChangedProt(p)] ELSE vm[q]]
  /\ UNCHANGED <<regions, arena, mode32, live, again, dropped>>
Write(l, q) ==
  /\ Asking /\ q \in Span(l.base, l.size) /\ vm[q].mapped /\ "w" \in vm[q].prot /\ vm[q].data # l.id
  /\ vm' = [vm EXCEPT ![q].data = l.id]
  /\ UNCHANGED <<regions, arena, mode32, live, again, dropped>>

(* What VirtualQuery tells of a page: the stack of the thread that asks, the *)
(* image from there on, or the host's mapping, which is a run of neighbours  *)
(* of one protection, whoever they were given to.                            *)
Alike(q, r) == vm[q].mapped /\ vm[r].mapped /\ vm[q].prot = vm[r].prot
Run(q) ==
  {r \in DOMAIN vm \ (ImagePages \union StackPages) :
     \A s \in (q .. r) \union (r .. q) : s \in DOMAIN vm \ (ImagePages \union StackPages) /\ Alike(q, s)}
Access(prot) ==
  (IF "r" \in prot /\ "w" \notin prot THEN {"readonly"} ELSE {"readwrite"}) \union (IF "x" \in prot THEN {"execute"} ELSE {})
VirtualQuery(q) ==
  CASE q \in StackPages -> [pages |-> StackPages, base |-> Min(StackPages), access |-> {"readwrite"}]
    [] q \in ImagePages -> [pages |-> q .. Max(ImagePages), base |-> Min(ImagePages), access |-> {"readwrite", "execute"}]
    [] vm[q].mapped     -> [pages |-> Run(q), base |-> Min(Run(q)), access |-> Access(vm[q].prot)]
    [] OTHER            -> [pages |-> {}, base |-> 0, access |-> {}]

Init ==
  /\ vm = [q \in Pages \union Arena |->
             IF q \in ImagePages \union StackPages THEN [mapped |-> TRUE, prot |-> {"r", "w", "x"}, data |-> 0] ELSE Unmapped]
  /\ regions = <<>> /\ arena = NPages /\ mode32 \in BOOLEAN /\ live = {} /\ again = FALSE /\ dropped = FALSE /\ vmCalls = 0
Next ==
  \/ \E n \in 1 .. 2, p \in Protections : VirtualAlloc(n, p) \/ \E b \in Pages : VirtualAllocAt(b, n, p)
  \/ \E n \in 1 .. 2 : VirtualAlloc32(n) \/ \E b \in Held : VirtualDecommit(b, n)
  \/ \E n \in 1 .. 2, p \in Protections, b \in Held \union ImagePages : VirtualProtect(b, n, p)
  \/ \E l \in live : VirtualFree(l) \/ \E q \in Span(l.base, l.size) : Write(l, q)
Spec == Init /\ [][Next]_vars
-----------------------------------------------------------------------------
(* What a guest was given is its own: no page is given twice, each is there  *)
(* until it is freed, and holds what its holder wrote or nothing; what is    *)
(* freed goes back to the host.  A guest that asks for pages by address has  *)
(* only the first of it, one that asks for more regions than the table has   *)
(* not the last.                                                             *)
MemoryIsTheirs ==
  /\ \A l, k \in live : l # k => Span(l.base, l.size) \intersect Span(k.base, k.size) = {} \/ again
  /\ ~ again =>
       /\ \A l \in live : \A q \in Span(l.base, l.size) : vm[q].mapped /\ vm[q].data \in {0, l.id}
       /\ \A i \in DOMAIN regions : \E l \in live : l.base = regions[i].base /\ l.size = regions[i].size
       /\ ~ dropped => {q \in DOMAIN vm : vm[q].mapped} = Held \union ImagePages \union StackPages

(* What is told of a page is true of all the pages it is told of: they are   *)
(* mapped, can be used alike, and can be written when it says so, but for    *)
(* those that cannot be used at all.                                         *)
QueriesAreTrue ==
  \A q \in DOMAIN vm \ (ImagePages \union StackPages) : vm[q].mapped =>
    LET told == VirtualQuery(q) IN
    /\ q \in told.pages /\ told.base = Min(told.pages)
    /\ \A r \in told.pages : vm[r].mapped /\ (vm[r].prot # {} /\ vm[r].prot # {"x"} => ("readwrite" \in told.access) = ("w" \in vm[r].prot))

(* The memory a guest asks for is its own, and what it asks of it is true.   *)
GuestsKeepTheirMemory == MemoryIsTheirs /\ QueriesAreTrue
=============================================================================
