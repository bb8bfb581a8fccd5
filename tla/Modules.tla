------------------------------ MODULE Modules ------------------------------
(***************************************************************************)
(* Loading the program and its DLLs: the table of images, the binding of   *)
(* imports, static TLS and the initialisation order (loader.c 1022-1143,   *)
(* 1242-1340, 1426-1945, 5096-5133, 46374-46519, 46605-47352).             *)
(*                                                                         *)
(* A DLL file is loaded from disk unless its name is a system DLL's, which *)
(* the loader itself implements.  It is entered in the table before its    *)
(* sections are there and its imports bound, so that circular imports end, *)
(* and initialised after them; its first ordinal is read too early and     *)
(* taken for 0 until all its imports are bound.  FreeLibrary does nothing: *)
(* images stay.  There is no loader lock.                                  *)
(*                                                                         *)
(* The parts of a PE file that only carry bytes (headers, sections,        *)
(* relocations) and the checks that refuse a malformed one are left out: a *)
(* file here is its imports, its exports and whether it has static TLS.    *)
(***************************************************************************)
EXTENDS Integers, Sequences, SequencesExt, FiniteSets

CONSTANTS
  Loaders,   \* guest threads, Main among them
  Main,
  Names,     \* names the guest uses for DLLs
  System,    \* those of system DLLs
  File,      \* [Names -> file name, or NoFile]
  NoFile,
  Imports,   \* [files and "exe" -> sequence of [dll, fn, ord]], ord 0 if by name
  Exports,   \* [files -> sequence of function names, by ordinal]
  Base,      \* [files -> ordinal of the first export]
  HasTls,    \* files with a TLS directory
  Host,      \* functions the loader implements
  NDlls,     \* MW_DLL_MAX (128)
  NTls,      \* slots of g_tls_ptr_array (64)
  MaxLoads   \* BOUND: calls of LoadLibrary

VARIABLES
  dlls,      \* g_dll_images: [name, id], or Free
  images,    \* every image mapped, in order; 1 is the program
  loading,   \* the loads each thread is inside, innermost last
  alive,     \* threads that have started
  pristine,  \* g_mod_tls_pristine: whose block an index has
  tls,       \* each thread's ThreadLocalStoragePointer
  tlsNext,   \* g_dll_tls_next_slot
  calls,     \* LoadLibrary calls so far
  early,     \* history: images handed out or bound to before they were initialised
  overlapped \* history: loads of two threads overlapped

modVars == <<dlls, images, loading, alive, pristine, tls, tlsNext, calls, early, overlapped>>
tlsVars == <<alive, pristine, tls, tlsNext>>

Free == [name |-> "", id |-> 0]
Indexes == 0..(NTls - 1)
NoBlocks == [i \in Indexes |-> 0]

Image(file) == [file |-> file, filled |-> FALSE, noted |-> FALSE, base |-> 0, iat |-> <<>>, tls |-> 0 - 1,
                ready |-> FALSE]

Init ==
  /\ dlls = [s \in 1..NDlls |-> Free]
  /\ images = <<Image("exe")>>
  /\ loading = [t \in Loaders |-> IF t = Main THEN <<[pc |-> "bind", name |-> "exe", id |-> 1, slot |-> 0]>>
                                  ELSE <<>>]
  /\ alive = {Main} /\ pristine = NoBlocks /\ tls = [t \in Loaders |-> NoBlocks] /\ tlsNext = 1
  /\ calls = 0 /\ early = {} /\ overlapped = FALSE
-----------------------------------------------------------------------------
Inside(t)  == loading[t] # <<>>
Current(t) == Last(loading[t])
In(t, pc)  == Inside(t) /\ Current(t).pc = pc
Goes(t, f) == loading' = [loading EXCEPT ![t] = Append(Front(@), f)]
Returns(t) == loading' = [loading EXCEPT ![t] = Front(@)]

(* mw_dll_find_by_name: the first entry of that name.                        *)
Found(name) ==
  LET at == {s \in 1..NDlls : dlls[s].name = name}
  IN  IF at = {} THEN 0 ELSE dlls[CHOOSE s \in at : \A o \in at : s <= o].id

Loaded(id) == images[id].ready
OwnLoad(t, id) == \E i \in DOMAIN loading[t] : loading[t][i].id = id

(* Image id is used by t; harmless while t itself is loading it.             *)
Uses(t, id) == early' = IF id = 0 \/ Loaded(id) \/ OwnLoad(t, id) THEN early ELSE early \cup {id}

Unlocked(t) == overlapped' = (overlapped \/ \E u \in Loaders \ {t} : Inside(u))

(* mw_LoadLibraryA, from the program or from a DllMain.  A system DLL's name *)
(* gives a pseudo module and changes nothing.                                *)
LoadLibrary(t, name) ==
  /\ calls < MaxLoads /\ t \in alive /\ Loaded(1) /\ name \notin System
  /\ ~ Inside(t) \/ In(t, "attach")
  /\ loading' = [loading EXCEPT ![t] = Append(@, [pc |-> "find", name |-> name, id |-> 0, slot |-> 0])]
  /\ calls' = calls + 1
  /\ Unlocked(t)
  /\ UNCHANGED <<dlls, images, tlsVars, early>>

(* mw_loadlibrary_disk_dll: an entry of that name is handed out as it is.    *)
FindDll(t) ==
  /\ In(t, "find")
  /\ LET f == Current(t)  id == Found(f.name)
     IN  IF id # 0 \/ File[f.name] = NoFile
           THEN Returns(t) /\ Uses(t, id)
           ELSE Goes(t, [f EXCEPT !.pc = "pick"]) /\ UNCHANGED early
  /\ Unlocked(t)
  /\ UNCHANGED <<dlls, images, tlsVars, calls>>

(* load_pe_dll: the first free entry.                                        *)
PickSlot(t) ==
  /\ In(t, "pick")
  /\ LET free == {s \in 1..NDlls : dlls[s] = Free}
     IN  IF free = {} THEN Returns(t)
         ELSE Goes(t, [Current(t) EXCEPT !.pc = "register",
                                         !.slot = CHOOSE s \in free : \A o \in free : s <= o])
  /\ UNCHANGED <<dlls, images, tlsVars, calls, early, overlapped>>

(* The entry is made as soon as the headers are there: its export directory, *)
(* in a section, still reads as zeros, and 0 is noted as the first ordinal.  *)
RegisterDll(t) ==
  /\ In(t, "register")
  /\ LET f == Current(t)  id == Len(images) + 1
     IN  /\ images' = Append(images, Image(File[f.name]))
         /\ dlls' = [dlls EXCEPT ![f.slot] = [name |-> f.name, id |-> id]]
         /\ Goes(t, [f EXCEPT !.pc = "fill", !.id = id])
  /\ UNCHANGED <<tlsVars, calls, early, overlapped>>

(* The sections are copied and relocated.                                    *)
CopySections(t) ==
  /\ In(t, "fill")
  /\ images' = [images EXCEPT ![Current(t).id].filled = TRUE]
  /\ Goes(t, [Current(t) EXCEPT !.pc = "bind"])
  /\ UNCHANGED <<dlls, tlsVars, calls, early, overlapped>>
-----------------------------------------------------------------------------
(* Binding                                                                   *)

From(image, fn) == [image |-> image, fn |-> fn]
Nothing == From(0, "none")
Stub    == From(0, "stub")

(* mw_dll_export, by name or by ordinal.  A name that is not there is looked *)
(* up again as ordinal 0.  Until the sections are there it finds nothing.    *)
DllExport(id, fn, ord) ==
  LET d       == images[id]
      exports == IF d.filled THEN Exports[d.file] ELSE <<>>
      want    == ord - d.base
  IN  IF ord = 0 /\ fn \in ToSet(exports) THEN From(id, fn)
      ELSE IF want \in 0..(Len(exports) - 1) THEN From(id, exports[want + 1])
      ELSE Nothing

(* What an import slot gets.  Of the loader's own functions any will do that *)
(* has the name, whatever the DLL; the program falls back on them even if    *)
(* the DLL is there, a DLL does not.  (Startup has the loader's own tables   *)
(* for ordinals of system DLLs.)                                             *)
Bound(importer, imp) ==
  LET dep == Found(imp.dll)
      exported == IF dep = 0 THEN Nothing ELSE DllExport(dep, imp.fn, imp.ord)
  IN  IF exported # Nothing THEN exported
      ELSE IF (dep = 0 \/ importer = 1) /\ imp.ord = 0 /\ imp.fn \in Host THEN From(0, imp.fn)
      ELSE Stub

(* History: a slot also remembers whether its DLL's exports were noted yet.  *)
Slot(from, dep) == [image |-> from.image, fn |-> from.fn, hasty |-> dep # 0 /\ ~ images[dep].noted]

NextImport(id) == Imports[images[id].file][Len(images[id].iat) + 1]
AllBound(id)   == Len(images[id].iat) = Len(Imports[images[id].file])

(* The DLL of the next import is loaded first, unless it is there or was not *)
(* to be had.                                                                *)
LoadDependency(t) ==
  /\ In(t, "bind") /\ ~ AllBound(Current(t).id)
  /\ LET dll == NextImport(Current(t).id).dll
     IN  /\ dll \notin System /\ Found(dll) = 0
         /\ loading' = [loading EXCEPT ![t] =
              Append(Append(Front(@), [Last(@) EXCEPT !.pc = "bound"]),
                     [pc |-> "find", name |-> dll, id |-> 0, slot |-> 0])]
  /\ UNCHANGED <<dlls, images, tlsVars, calls, early, overlapped>>

BindImport(t) ==
  /\ In(t, "bind") \/ In(t, "bound")
  /\ LET id == Current(t).id
     IN  /\ ~ AllBound(id)
         /\ In(t, "bind") => NextImport(id).dll \in System \/ Found(NextImport(id).dll) # 0
         /\ images' = [images EXCEPT ![id].iat = Append(@, Slot(Bound(id, NextImport(id)),
                                                               Found(NextImport(id).dll)))]
         /\ Goes(t, [Current(t) EXCEPT !.pc = "bind"])
         /\ Uses(t, IF NextImport(id).dll \in System THEN 0 ELSE Found(NextImport(id).dll))
  /\ UNCHANGED <<dlls, tlsVars, calls, overlapped>>
-----------------------------------------------------------------------------
(* Static TLS and initialisation                                             *)

(* Mutant: the blocks go to the main thread, but no copy is kept for others. *)
InstallTlsHere(id, i) ==
  /\ tls' = [tls EXCEPT ![Main][i] = id] /\ UNCHANGED pristine

(* Once the imports are bound the first ordinal is noted for good.           *)
Noted(image) == [image EXCEPT !.noted = TRUE,
                              !.base = IF image.file = "exe" THEN 0 ELSE Base[image.file]]

(* Whoever loads, the block goes to the main thread, and a copy is kept for  *)
(* threads to come.                                                          *)
InstallTls(id, i) ==
  /\ tls' = [tls EXCEPT ![Main][i] = id]
  /\ pristine' = [pristine EXCEPT ![i] = id]

(* The program has index 0; when the indexes have run out a DLL gets it too. *)
TlsIndex(id) == IF id = 1 \/ tlsNext >= NTls THEN 0 ELSE tlsNext

BindTls(t) ==
  /\ In(t, "bind") /\ AllBound(Current(t).id)
  /\ LET id == Current(t).id
     IN  IF images[id].file \in HasTls
           THEN /\ InstallTls(id, TlsIndex(id))
                /\ tlsNext' = IF id # 1 /\ tlsNext < NTls THEN tlsNext + 1 ELSE tlsNext
                /\ images' = [images EXCEPT ![id] = [Noted(@) EXCEPT !.tls = TlsIndex(id)]]
           ELSE /\ images' = [images EXCEPT ![id] = Noted(@)]
                /\ UNCHANGED <<tls, pristine, tlsNext>>
  /\ Goes(t, [Current(t) EXCEPT !.pc = "attach"])
  /\ UNCHANGED <<dlls, alive, calls, early, overlapped>>

(* The TLS callbacks and DllMain have returned (whatever DllMain said), or   *)
(* the program's entry point is reached.                                     *)
Attach(t) ==
  /\ In(t, "attach")
  /\ images' = [images EXCEPT ![Current(t).id].ready = TRUE]
  /\ Returns(t)
  /\ UNCHANGED <<dlls, tlsVars, calls, early, overlapped>>

(* t_trampoline: a new thread has a copy of every module's block.            *)
StartThread(t) ==
  /\ Loaded(1) /\ t \notin alive
  /\ alive' = alive \cup {t}
  /\ tls' = [tls EXCEPT ![t] = pristine]
  /\ UNCHANGED <<dlls, images, loading, pristine, tlsNext, calls, early, overlapped>>

(* mw_GetProcAddress of a DLL from disk: its exports and nothing else.       *)
GetProcAddress(id, fn, ord) == DllExport(id, fn, ord)

Next ==
  \E t \in Loaders :
    \/ \E name \in Names : LoadLibrary(t, name)
    \/ FindDll(t) \/ PickSlot(t) \/ RegisterDll(t) \/ CopySections(t) \/ LoadDependency(t) \/ BindImport(t)
    \/ BindTls(t) \/ Attach(t) \/ StartThread(t)

Spec == Init /\ [][Next]_modVars
-----------------------------------------------------------------------------
Ready == {id \in DOMAIN images : Loaded(id)}

(* The functions of a file an import means: one, or none.                    *)
Meant(file, imp) ==
  {Exports[file][i] : i \in {j \in DOMAIN Exports[file] :
                               IF imp.ord = 0 THEN Exports[file][j] = imp.fn
                               ELSE j = imp.ord - Base[file] + 1}}

(* An import is bound to the function it means, by name or by ordinal, in    *)
(* the DLL that was asked for, loaded under that very name, and              *)
(* GetProcAddress gives the same function once the exports are noted.  It    *)
(* gets one of the loader's own only where the DLL is none of the disk's or  *)
(* does not export it, and the stub only where neither has it (loads that    *)
(* overlap can bind it sooner).  Excepted: bound while its DLL was being     *)
(* loaded (in a circle, or by another thread), an ordinal gives the function *)
(* as many places further on as the ordinals' base, or the stub past the     *)
(* end; and a name the DLL does not have gives its first function then, and  *)
(* always where ordinals begin with 0.  A name it has is bound rightly.      *)
ImportsReachTheirExport ==
  \A id \in DOMAIN images : \A i \in DOMAIN images[id].iat :
    LET imp == Imports[images[id].file][i]  got == images[id].iat[i]
    IN  /\ got.image # 0 =>
             LET file == images[got.image].file
             IN  /\ file = File[imp.dll]
                 /\ \/ got.fn \in Meant(file, imp)
                    \/ got.hasty /\ imp.ord # 0 /\ got.fn = Exports[file][imp.ord + 1]
                    \/ /\ got.hasty \/ Base[file] = 0
                       /\ imp.ord = 0 /\ Meant(file, imp) = {} /\ got.fn = Exports[file][1]
                 /\ ~ got.hasty => From(got.image, got.fn) = GetProcAddress(got.image, imp.fn, imp.ord)
        /\ got.image = 0 /\ got.fn # "stub" => got.fn = imp.fn /\ imp.ord = 0
        /\ got.fn = "stub" /\ ~ overlapped /\ Found(imp.dll) # 0 =>
             \/ Meant(images[Found(imp.dll)].file, imp) = {}
             \/ got.hasty /\ imp.ord # 0

(* As long as one thread loads at a time, a name has one image, and nobody   *)
(* but the thread inside its load gets an image that is not initialised:     *)
(* dependencies come first.                                                  *)
LoadedOnceAndReady ==
  ~ overlapped => /\ early = {}
                  /\ \A r, s \in 1..NDlls : dlls[r].name = dlls[s].name /\ dlls[r] # Free => r = s
                  /\ Ready \subseteq {1} \cup {dlls[s].id : s \in 1..NDlls}

(* Until the indexes run out, each image with static TLS has its own block   *)
(* in the main thread, and in each thread that started after it was loaded.  *)
TlsBlocksAreTheirOwn ==
  tlsNext < NTls =>
    \A id \in DOMAIN images : images[id].tls >= 0 =>
      /\ tls[Main][images[id].tls] = id /\ pristine[images[id].tls] = id
      /\ \A t \in alive : tls[t][images[id].tls] \in {0, id}
=============================================================================
