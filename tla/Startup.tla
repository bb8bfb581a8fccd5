------------------------------- MODULE Startup -------------------------------
(***************************************************************************)
(* Before a program's first instruction: its arguments are turned into     *)
(* argument vectors and command lines, its sections are copied into place, *)
(* protected, relocated and their import slots patched (load_pe for 64-bit *)
(* images, load_pe32 for 32-bit ones, load_pe_dll for DLLs).  Which        *)
(* function a slot is bound to is the business of Modules and Gate32; here *)
(* it is what the pages hold and allow.  Addresses are counted in cells,   *)
(* two to a page, and in units of 64K where images are placed.             *)
(***************************************************************************)
EXTENDS Integers, Sequences, FiniteSets, SequencesExt, FiniteSetsExt

CONSTANTS
  Layouts,     \* sequences of sections: [pages, vsz, rsz, prot]; vsz, rsz in cells
  Fixups,      \* sequences of words: [at, type, to]: a cell, a relocation type, an offset
  NSecProt,    \* g_sec_prot, 16
  NIatPages,   \* g_iat_pages, 64
  Words,       \* arguments, sequences of characters
  MaxArgs,     \* bounds their number
  NLine,       \* g_cmdline_bufw16, 2047
  NWide        \* g_wargv_block, 8192; the 32-bit block's 16384 bytes likewise

VARIABLES
  image,       \* "pe64", "pe32", "dll" or "args": what a behaviour is about
  layout, fixups, ends, base, \* the file: its sections, words, cells it has, preferred base
  planes,      \* for 32-bit images: what the loader keeps for itself, <<first, last>> each
  at,          \* the step of loading
  cells,       \* cell -> what it holds
  prot,        \* page -> protection
  secProt,     \* g_sec_prot
  iatPages,    \* g_iat_pages
  stray,       \* history: pages whose protection the tables lost
  loadedAt,    \* where the image is
  args, line, vector \* main's arguments; GetCommandLineW's text; __wgetmainargs's vector

file == <<image, layout, fixups, ends, base, planes>>
vars == <<file, at, cells, prot, secProt, iatPages, stray, loadedAt, args, line, vector>>

Step(s, k) == [step |-> s, k |-> k]
PageOf(c) == c \div 2
(* What a cell holds: nothing, cell i of section k of the file, a word with  *)
(* an address in it, ...                                                     *)
Is(what) == <<what, 0, 0>>
FileCell(k, i) == <<"file", k, i>>
(* The first cell of section k and the cells of its pages.                   *)
Va(k) == 2 + FoldLeft(LAMBDA n, s : n + 2 * s.pages, 0, SubSeq(layout, 1, k - 1))
Pages(k) == {PageOf(Va(k)) + i : i \in 0 .. layout[k].pages - 1}
SizeOfImage == Va(Len(layout) + 1)
InFile(k, i) == i < layout[k].rsz /\ <<k, i>> \notin ends
-----------------------------------------------------------------------------
(* load_pe: fresh memory at the preferred base, the headers, then each       *)
(* section's raw data and its zeroes, and its protection.                    *)

Fresh == [c \in 0 .. SizeOfImage + 3 |-> Is("zero")]

MapImage64 ==
  /\ image = "pe64" /\ at = Step("map", 0)
  /\ cells' = Fresh /\ prot' = [p \in 0 .. PageOf(SizeOfImage) + 1 |-> "rwx"]
  /\ loadedAt' = base /\ at' = Step("section", 1)
  /\ UNCHANGED <<file, secProt, iatPages, stray, args, line, vector>>

(* The raw data is taken from where the file says, without a look at where   *)
(* the file ends.                                                            *)
CopySection64(k) ==
  [c \in DOMAIN cells |->
    LET i == c - Va(k) IN
    CASE i >= 0 /\ i < layout[k].rsz -> IF InFile(k, i) THEN FileCell(k, i) ELSE Is("junk")
      [] i >= layout[k].rsz /\ i < layout[k].vsz -> Is("zero")
      [] OTHER -> cells[c]]

MapSection64 ==
  /\ image = "pe64" /\ \E k \in 1 .. Len(layout) :
       /\ at = Step("section", k)
       /\ cells' = CopySection64(k)
       /\ prot' = [p \in DOMAIN prot |-> IF p \in Pages(k) THEN layout[k].prot ELSE prot[p]]
       /\ secProt' = IF Len(secProt) < NSecProt THEN Append(secProt, [pages |-> Pages(k), prot |-> layout[k].prot]) ELSE secProt
       /\ at' = IF k = Len(layout) THEN Step("import", 1) ELSE Step("section", k + 1)
       /\ UNCHANGED <<file, iatPages, stray, loadedAt, args, line, vector>>

(* Import slots are written wherever they are: iat_page_ensure_writable      *)
(* opens the page, for good when its table is full.                          *)
PatchSlot(k) ==
  LET p == PageOf(fixups[k].at) IN
  /\ cells' = [cells EXCEPT ![fixups[k].at] = Is("bound")]
  /\ IF p \in ToSet(iatPages) THEN UNCHANGED <<prot, iatPages, stray>>
     ELSE /\ prot' = [prot EXCEPT ![p] = "rw"]
          /\ iatPages' = IF Len(iatPages) < NIatPages THEN Append(iatPages, p) ELSE iatPages
          /\ stray' = IF Len(iatPages) < NIatPages THEN stray ELSE stray \cup {p}

BindSlot ==
  /\ image = "pe64" /\ \E k \in 1 .. Len(fixups) :
       /\ at = Step("import", k) /\ PatchSlot(k) /\ at' = Step("import", k + 1)
       /\ UNCHANGED <<file, secProt, loadedAt, args, line, vector>>

(* Mutant: whatever the section says.                                        *)
RestoredReadOnly(p) == "r"
(* The protection a page gets back: that of the first noted section it is    *)
(* in, else read-only.                                                       *)
Restored(p) ==
  LET in == {k \in DOMAIN secProt : p \in secProt[k].pages} IN
  IF in = {} THEN "r" ELSE secProt[Min(in)].prot

RestorePages ==
  /\ image = "pe64" /\ at = Step("import", Len(fixups) + 1)
  /\ prot' = [p \in DOMAIN prot |-> IF p \in ToSet(iatPages) THEN Restored(p) ELSE prot[p]]
  /\ stray' = stray \cup {p \in ToSet(iatPages) : \E k \in NSecProt + 1 .. Len(layout) : p \in Pages(k)}
  /\ iatPages' = <<>> /\ at' = Step("loaded", 0)
  /\ UNCHANGED <<file, cells, secProt, loadedAt, args, line, vector>>

(* One C runtime's invalid-parameter calls are overwritten in place: the     *)
(* page and the next one are readable and executable afterwards.             *)
PatchUcrt ==
  /\ image = "pe64" /\ at = Step("loaded", 0) /\ \E p \in Pages(1) :
       /\ cells' = [cells EXCEPT ![2 * p] = Is("patched")]
       /\ prot' = [q \in DOMAIN prot |-> IF q \in {p, p + 1} THEN "rx" ELSE prot[q]]
       /\ stray' = stray \cup {p, p + 1} /\ at' = Step("patched", 0)
       /\ UNCHANGED <<file, secProt, iatPages, loadedAt, args, line, vector>>
-----------------------------------------------------------------------------
(* load_pe32 and load_pe_dll: a base, the sections, then relocations.        *)

Units == SizeOfImage \div 2
Meets(lo, hi, plane) == lo < plane[2] + 1 /\ hi > plane[1]
Collides == \E pl \in ToSet(planes) : Meets(base, base + Units, pl)
HasRelocs == Len(fixups) > 0

(* SW-1341: an image that would lie over the loader's own memory goes behind *)
(* the arena and the host, when it can be moved; planes is <<thunks, arena,  *)
(* host>>, the last one missing when its span was not found.                 *)
Place32 ==
  /\ image = "pe32" /\ at = Step("map", 0)
  /\ IF Collides /\ ~ HasRelocs THEN at' = Step("refused", 0) /\ UNCHANGED <<loadedAt, cells>>
     ELSE /\ loadedAt' = IF Collides THEN 1 + Max({planes[k][2] : k \in 2 .. Len(planes)}) ELSE base
          /\ cells' = Fresh /\ at' = Step("section", 1)
  /\ UNCHANGED <<file, prot, secProt, iatPages, stray, args, line, vector>>

(* A DLL goes where the host likes.                                          *)
PlaceDll ==
  /\ image = "dll" /\ at = Step("map", 0)
  /\ \E b \in {base, base + 1} : loadedAt' = b
  /\ cells' = Fresh /\ at' = Step("section", 1)
  /\ UNCHANGED <<file, prot, secProt, iatPages, stray, args, line, vector>>

(* Only the smaller of the two sizes is copied.  A DLL's copy also stops at  *)
(* the end of the file; load_pe32 clamps the raw size when the length of the *)
(* copy has been settled, and copies what lies behind the file in memory.    *)
CopySection(k) ==
  LET n == Min({layout[k].rsz, layout[k].vsz}) IN
  [c \in DOMAIN cells |->
    LET i == c - Va(k) IN
    CASE i \in 0 .. n - 1 /\ InFile(k, i) -> FileCell(k, i)
      [] i \in 0 .. n - 1 /\ ~ InFile(k, i) /\ image = "pe32" -> Is("junk")
      [] OTHER -> cells[c]]

MapSection ==
  /\ image \in {"pe32", "dll"} /\ \E k \in 1 .. Len(layout) :
       /\ at = Step("section", k) /\ cells' = CopySection(k)
       /\ at' = IF k = Len(layout) THEN Step("fixup", 1) ELSE Step("section", k + 1)
       /\ UNCHANGED <<file, prot, secProt, iatPages, stray, loadedAt, args, line, vector>>

(* A word's value is an address; in the file it supposes the preferred base. *)
(* HIGHLOW, 3, is applied in a 32-bit image, DIR64, 10, in a DLL.            *)
FixupType == IF image = "pe32" THEN 3 ELSE 10
Relocate ==
  /\ image \in {"pe32", "dll"} /\ \E k \in 1 .. Len(fixups) :
       /\ at = Step("fixup", k) /\ at' = Step("fixup", k + 1)
       /\ cells' = [cells EXCEPT ![fixups[k].at] =
                      <<"address", base + fixups[k].to + (IF fixups[k].type = FixupType THEN loadedAt - base ELSE 0), 0>>]
       /\ UNCHANGED <<file, prot, secProt, iatPages, stray, loadedAt, args, line, vector>>

Relocated ==
  /\ image \in {"pe32", "dll"} /\ at = Step("fixup", Len(fixups) + 1) /\ at' = Step("loaded", 0)
  /\ UNCHANGED <<file, cells, prot, secProt, iatPages, stray, loadedAt, args, line, vector>>
-----------------------------------------------------------------------------
(* Command lines: build_cmdline quotes what is empty or has a space.         *)

Has(w, c) == \E k \in DOMAIN w : w[k] = c
QuotedAlways(w) == <<"\"">> \o w \o <<"\"">>
Quoted(w) == IF w = <<>> \/ Has(w, " ") THEN QuotedAlways(w) ELSE w
Spaced(ws) == FoldLeft(LAMBDA t, w : IF t = <<>> THEN w ELSE t \o <<" ">> \o w, <<>>, ws)
BuildCmdline(as) == Spaced([k \in DOMAIN as |-> Quoted(as[k])])

(* main's g_cmdline_ansi, for the process parameters and _acmdln, does not.  *)
CmdlineAnsi(as) == Spaced(as)

(* w3_c2a_run: the program's name is up to its closing quote, or up to a     *)
(* space; after it quotes toggle, and blanks end a word outside of them.     *)
Blank(c) == c \in {" ", "\t"}
SkipBlanks(t) == LET at0 == {k \in DOMAIN t : ~ Blank(t[k])} IN IF at0 = {} THEN <<>> ELSE SubSeq(t, Min(at0), Len(t))
ArgvStep(s, c) ==
  CASE c = "\"" -> [s EXCEPT !.quoted = ~ @, !.open = TRUE]
    [] Blank(c) /\ ~ s.quoted -> IF s.open THEN [s EXCEPT !.done = Append(@, s.word), !.word = <<>>, !.open = FALSE] ELSE s
    [] OTHER -> [s EXCEPT !.word = Append(@, c), !.open = TRUE]
FirstEnds(t) ==
  LET from == IF t # <<>> /\ t[1] = "\"" THEN 2 ELSE 1
      stop == {k \in from .. Len(t) : IF from = 2 THEN t[k] = "\"" ELSE Blank(t[k])}
  IN [from |-> from, to |-> IF stop = {} THEN Len(t) ELSE Min(stop) - 1, next |-> IF stop = {} THEN Len(t) + 1
                                                                               ELSE Min(stop) + (from - 1)]
CommandLineToArgv(text) ==
  LET t == SkipBlanks(text)
      f == FirstEnds(t)
      end == FoldLeft(ArgvStep, [done |-> <<SubSeq(t, f.from, f.to)>>, word |-> <<>>, quoted |-> FALSE, open |-> FALSE],
                      SubSeq(t, f.next, Len(t)))
  IN IF end.open THEN Append(end.done, end.word) ELSE end.done

(* A text too long for its buffer is empty; so is an argument of the wide    *)
(* vector from the first that does not fit on, if it does not fit either.    *)
WideLine(t) == IF Len(t) > NLine THEN <<>> ELSE t
CutLine(t) == SubSeq(t, 1, Min({NLine, Len(t)}))
WideArgs(as) ==
  FoldLeft(LAMBDA s, w : LET got == IF Len(w) > NWide - s.o - 2 THEN <<>> ELSE w
                         IN [o |-> s.o + Len(got) + 1, v |-> Append(s.v, got)],
           [o |-> 0, v |-> <<>>], as).v

MainArgs ==
  /\ image = "args" /\ at = Step("map", 0) /\ at' = Step("loaded", 0)
  /\ line' = WideLine(BuildCmdline(args)) /\ vector' = WideArgs(args)
  /\ UNCHANGED <<file, cells, prot, secProt, iatPages, stray, loadedAt, args>>

(* The 32-bit vector's strings follow the pointers in a block of the arena;  *)
(* what is longer runs into the block of the environment, made next.         *)
Offset(as, k) == FoldLeft(LAMBDA n, w : n + Len(w) + 1, 0, SubSeq(as, 1, k - 1))
WideArgs32(as) == [k \in DOMAIN as |-> IF Offset(as, k) + Len(as[k]) + 1 > NWide THEN <<"environment">> ELSE as[k]]
MainArgs32 ==
  /\ image = "args" /\ at = Step("map", 0) /\ at' = Step("loaded", 0)
  /\ line' = CutLine(CmdlineAnsi(args)) /\ vector' = WideArgs32(args)
  /\ UNCHANGED <<file, cells, prot, secProt, iatPages, stray, loadedAt, args>>
-----------------------------------------------------------------------------
(* Imports by ordinal are bound by name through a table in each of the three *)
(* loaders, first entry first.  Here are the ordinals with more than one     *)
(* entry; the others cannot disagree.                                        *)
Ws2(k, n) == [dll |-> "WS2_32", ord |-> k, name |-> n]
Ole(k, n) == [dll |-> "OLEAUT32", ord |-> k, name |-> n]
Shell(k, n) == [dll |-> "SHELL32", ord |-> k, name |-> n]
IsOS == [dll |-> "SHLWAPI", ord |-> 437, name |-> "IsOS"]
OrdinalNames(by) ==
  CASE by = "pe64" ->
         <<Ole(8, "VariantInit"), Shell(165, "SHCreateDirectory"), Shell(680, "SHGetFolderPathW"), IsOS, Ws2(7, "getsockopt"),
           Ws2(8, "htonl"), Ws2(9, "htons"), Ws2(14, "ntohl"), Ws2(16, "recv"), Ws2(18, "select"), Ws2(21, "setsockopt"),
           Ws2(22, "shutdown"), Ws2(23, "socket"), Ws2(51, "gethostbyaddr"), Ws2(52, "gethostbyname"), Ws2(111, "WSAGetLastError"),
           Ws2(112, "WSASetLastError"), Ws2(7, "getsockopt"), Ws2(8, "htonl"), Ws2(9, "htons"), Ws2(14, "ntohl"), Ws2(18, "select"),
           Ws2(21, "setsockopt"), Ws2(115, "WSAStartup"), Ws2(116, "WSACleanup"), Ole(8, "VariantInit"), Ole(16, "SafeArrayCopy"),
           Shell(165, "SHCreateDirectory"), Ole(16, "SafeArrayDestroy")>>
    [] by = "dll" ->
         <<Ws2(7, "getsockopt"), Ws2(8, "htonl"), Ws2(9, "htons"), Ws2(14, "ntohl"), Ws2(18, "select"), Ws2(21, "setsockopt"),
           Ws2(22, "shutdown"), Ws2(23, "socket"), Ws2(51, "gethostbyaddr"), Ws2(52, "gethostbyname"), Ws2(111, "WSAGetLastError"),
           Ws2(112, "WSASetLastError"), Ws2(115, "WSAStartup"), Ws2(116, "WSACleanup")>>
    [] by = "pe32" ->
         <<Ws2(115, "WSAStartup"), Ws2(111, "WSAGetLastError"), Ws2(52, "gethostbyname"), Ws2(23, "socket"), Ws2(16, "closesocket"),
           Ws2(9, "htons"), Ws2(8, "htonl"), Ws2(14, "ntohl"), Ws2(18, "select"), Shell(680, "IsUserAnAdmin"), IsOS>>

BindOrdinal ==
  /\ image = "ordinals" /\ Len(vector) < 2
  /\ \E by \in {"pe64", "dll", "pe32"} :
       LET t == OrdinalNames(by) IN
       \E k \in DOMAIN t : /\ \A j \in 1 .. k - 1 : <<t[j].dll, t[j].ord>> # <<t[k].dll, t[k].ord>>
                           /\ vector' = Append(vector, t[k])
  /\ UNCHANGED <<file, at, cells, prot, secProt, iatPages, stray, loadedAt, args, line>>
-----------------------------------------------------------------------------
Planes == {<<<<3, 3>>, <<5, 8>>>>, <<<<3, 3>>, <<5, 8>>, <<1, 1>>>>, <<<<3, 3>>, <<5, 8>>, <<10, 11>>>>}
Fit(ws, n) == \A k \in DOMAIN ws : ws[k].at < n

Init ==
  /\ image \in {"pe64", "pe32", "dll", "args", "ordinals"} /\ at = Step("map", 0)
  /\ layout \in (IF image \in {"args", "ordinals"} THEN {<<>>} ELSE Layouts)
  /\ fixups \in (IF layout = <<>> THEN {<<>>} ELSE {ws \in Fixups : Fit(ws, SizeOfImage)})
  /\ base \in (IF image = "pe32" THEN 0 .. 9 ELSE {0})
  /\ planes \in (IF image = "pe32" THEN Planes ELSE {<<>>})
  /\ ends \in {{}} \cup (IF image \in {"pe64", "pe32", "dll"} THEN {{<<Len(layout), layout[Len(layout)].rsz - 1>>}} ELSE {})
  /\ args \in (IF image = "args" THEN UNION {[1 .. n -> Words] : n \in 1 .. MaxArgs} ELSE {<<>>})
  /\ cells = <<>> /\ prot = <<>> /\ secProt = <<>> /\ iatPages = <<>> /\ stray = {} /\ loadedAt = -1
  /\ line = <<>> /\ vector = <<>>

Next ==
  \/ MapImage64 \/ MapSection64 \/ BindSlot \/ RestorePages \/ PatchUcrt
  \/ Place32 \/ PlaceDll \/ MapSection \/ Relocate \/ Relocated
  \/ MainArgs \/ MainArgs32 \/ BindOrdinal

Spec == Init /\ [][Next]_vars
-----------------------------------------------------------------------------
Loaded == at.step \in {"loaded", "patched"}
Touched == {fixups[k].at : k \in DOMAIN fixups}

(* Each cell of a section is the file's, or zero where the file has none;    *)
(* import slots are bound and the runtime's calls patched.                   *)
SectionsAreTheFiles ==
  Loaded /\ image # "args" => \A k \in DOMAIN layout, i \in 0 .. 3 :
    (i < layout[k].vsz /\ Va(k) + i \notin Touched /\ cells[Va(k) + i] \notin {Is("patched"), Is("junk")}) =>
      cells[Va(k) + i] = IF InFile(k, i) THEN FileCell(k, i) ELSE Is("zero")

(* Memory from behind the file shows only in a program whose file is shorter *)
(* than its sections, never in a DLL.                                        *)
JunkIsTheMissing == \A c \in DOMAIN cells : cells[c] = Is("junk") => image # "dll" /\ ends # {}

(* After all the opening and closing each page allows what its section says, *)
(* unless a table was too small for it or it was patched.                    *)
ProtectionsAreTheSections ==
  Loaded /\ image = "pe64" => \A k \in DOMAIN layout : \A p \in Pages(k) \ stray : prot[p] = layout[k].prot

(* A relocated word leads to the place in the image it led to in the file's, *)
(* and a 32-bit image lies over nothing of the loader's.                     *)
WordsLeadIntoTheImage ==
  Loaded /\ image \in {"pe32", "dll"} => \A k \in DOMAIN fixups :
    fixups[k].type = FixupType => cells[fixups[k].at][2] = loadedAt + fixups[k].to
PlacedApart ==
  (image = "pe32" /\ loadedAt >= 0) => \A pl \in ToSet(planes) : ~ Meets(loadedAt, loadedAt + Units, pl)

(* Arguments arrive as given, through the vector where they fit and through  *)
(* the command line where it has no quotes and no tabs outside of quotes;    *)
(* the unquoted one of 32-bit programs only if none has a blank or is empty. *)
Plain(w) == ~ Has(w, "\"") /\ (Has(w, "\t") => Has(w, " "))
Simple(w) == w # <<>> /\ ~ Has(w, " ") /\ ~ Has(w, "\t") /\ ~ Has(w, "\"")
ArgumentsArrive ==
  Loaded /\ image = "args" =>
    /\ Len(vector) = Len(args)
    /\ Offset(args, Len(args) + 1) < NWide => vector = args
    /\ (Len(BuildCmdline(args)) <= NLine /\ \A k \in DOMAIN args : Plain(args[k]))
         => \/ CommandLineToArgv(line) = args
            \/ line = CmdlineAnsi(args) /\ \E k \in DOMAIN args : ~ Simple(args[k])

(* An ordinal of a DLL is one function, whoever imports it; the tables do    *)
(* not agree on SHELL32's 680 and on recv and closesocket.                   *)
OrdinalsAgree ==
  image = "ordinals" => \A a, b \in ToSet(vector) :
    a.dll = b.dll /\ a.ord = b.ord /\ <<a.dll, a.ord>> \notin {<<"SHELL32", 680>>, <<"WS2_32", 16>>} => a.name = b.name

(* What a program finds at its start is what its file and its command line   *)
(* say, in each of the ways there are to start one.                          *)
StartupIsComplete ==
  /\ SectionsAreTheFiles /\ JunkIsTheMissing /\ ProtectionsAreTheSections
  /\ WordsLeadIntoTheImage /\ PlacedApart /\ ArgumentsArrive /\ OrdinalsAgree
=============================================================================
