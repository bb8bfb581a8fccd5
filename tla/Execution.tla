------------------------------ MODULE Execution ------------------------------
(***************************************************************************)
(* The parts of the loader that run guest code, for model checking in one  *)
(* run: loading modules, the interpreter of 32-bit programs, raising and   *)
(* unwinding, starting programs and their children, faults, virtual memory.*)
(* They share no state; part is the one that takes steps in a behaviour.   *)
(***************************************************************************)
EXTENDS Integers, Sequences, TLC

VARIABLES part

(* Modules                                                                   *)
CONSTANTS Loaders, Main, Names, System, File, NoFile, Imports, Exports, Base, HasTls, Host,
          NDlls, NTls, MaxLoads
VARIABLES dlls, images, loading, alive, pristine, tls, tlsNext, calls, early, overlapped

(* Unwind and Exceptions                                                     *)
CONSTANTS Prologues, Saved, FP, SmallMax, Top
VARIABLES frame, undone
CONSTANTS Throwers, Stacks, Inners, Handlers, NVeh, MaxFrames, MaxRaises, MaxChanges, NoThrower
VARIABLES veh, changes, raise, eh, crossed

(* Alu32                                                                     *)
CONSTANTS B, NMem, FsBase, Values, Few
VARIABLES prog, start, cpu

(* Gate32                                                                    *)
CONSTANTS ImportList, Crt, RegParm, Arity, Host32, MaxDepth, MaxFrame, MaxHost
VARIABLES slots, bound, esp, mem, chain, host, frames, strange

(* Startup                                                                   *)
CONSTANTS Layouts, Fixups, NSecProt, NIatPages, Words, MaxArgs, NLine, NWide
VARIABLES image, layout, fixups, ends, base, planes, step, cells, prot, secProt, iatPages, stray, loadedAt,
          args, line, vector

(* Processes                                                                 *)
CONSTANTS Guests, Lines, NProc, NSpare, Statuses, MaxChildren, MaxProcCalls
VARIABLES child, slot, argbuf, given, handle, spare, doing, misled, asked, twoAtOnce, closedInUse, procCalls

(* Faults                                                                    *)
CONSTANTS Runners, First, Crashes, Walked, NTop, NScan, NFast, RA, NWatch, Window, Far, NWalk, NSamples, NUnique,
          NTold, MaxTold, Maps, Addresses
VARIABLES stage, crash, masked, segv, old, log, ended, told, smashed, armed, head, rips, pending, profile

(* VirtualMemory                                                             *)
CONSTANTS NPages, NArena, ImagePages, StackPages, NVAlloc, Protections, MaxVmCalls
VARIABLES vm, regions, arena, mode32, live, again, dropped, vmCalls

M == INSTANCE Modules
U == INSTANCE Unwind
E == INSTANCE Exceptions
I == INSTANCE Idioms32
G == INSTANCE Gate32
S == INSTANCE Startup WITH at <- step
P == INSTANCE Processes WITH overlapped <- twoAtOnce, crossed <- closedInUse
F == INSTANCE Faults
V == INSTANCE VirtualMemory

ASSUME ExecutionAssumption ==
  /\ Main \in Loaders /\ System \subseteq Names /\ NoThrower \notin Throwers /\ FP \notin Saved
  /\ {NDlls, MaxLoads, SmallMax, Top, NVeh, MaxFrames, MaxChanges, NMem, FsBase} \subseteq Nat
  /\ {MaxDepth, MaxFrame, MaxHost, NSecProt, NIatPages, MaxArgs, NLine, NWide} \subseteq Nat
  /\ {NSpare, MaxChildren, MaxProcCalls, NTop, NScan, NFast, RA, NWatch, Window, Far, NWalk, MaxTold, MaxVmCalls} \subseteq Nat
  /\ First \in Runners
  /\ {NTls, B, NProc, NSamples, NUnique, NTold, NPages, NArena, NVAlloc} \subseteq Nat \ {0}

Parts == {"modules", "unwind", "exceptions", "interpreter", "gate", "startup", "processes", "faults", "memory"}

(* Of the images and arguments a program can start with there are many.      *)
Init ==
  /\ part \in Parts /\ M!Init /\ U!Init /\ E!Init /\ I!Init /\ G!Init /\ P!Init
  /\ F!Init /\ (armed => part = "faults")
  /\ V!Init /\ (mode32 => part = "memory")
  /\ IF part = "startup" THEN S!Init
     ELSE /\ image = 0 /\ layout = 0 /\ fixups = 0 /\ ends = 0 /\ base = 0 /\ planes = 0 /\ step = 0 /\ cells = 0
          /\ prot = 0 /\ secProt = 0 /\ iatPages = 0 /\ stray = 0 /\ loadedAt = 0 /\ args = 0 /\ line = 0 /\ vector = 0

modVars    == <<dlls, images, loading, alive, pristine, tls, tlsNext, calls, early, overlapped>>
unwindVars == <<frame, undone>>
exnVars    == <<veh, changes, raise, eh, crossed>>
aluVars    == <<prog, start, cpu>>
gateVars   == <<slots, bound, esp, mem, chain, host, frames, strange>>
startVars  == <<image, layout, fixups, ends, base, planes, step, cells, prot, secProt, iatPages, stray, loadedAt, args, line, vector>>
procVars   == <<child, slot, argbuf, given, handle, spare, doing, misled, asked, twoAtOnce, closedInUse, procCalls>>
faultVars  == <<stage, crash, masked, segv, old, log, ended, told, smashed, armed, head, rips, pending, profile>>
memVars    == <<vm, regions, arena, mode32, live, again, dropped, vmCalls>>

Next ==
  /\ UNCHANGED part
  /\ \/ part = "modules"     /\ M!Next /\ UNCHANGED <<unwindVars, exnVars, aluVars, gateVars, startVars, procVars, faultVars, memVars>>
     \/ part = "unwind"      /\ U!Next /\ UNCHANGED <<modVars, exnVars, aluVars, gateVars, startVars, procVars, faultVars, memVars>>
     \/ part = "exceptions"  /\ E!Next /\ UNCHANGED <<modVars, unwindVars, aluVars, gateVars, startVars, procVars, faultVars, memVars>>
     \/ part = "interpreter" /\ I!Next /\ UNCHANGED <<modVars, unwindVars, exnVars, gateVars, startVars, procVars, faultVars, memVars>>
     \/ part = "gate"        /\ G!Next /\ UNCHANGED <<modVars, unwindVars, exnVars, aluVars, startVars, procVars, faultVars, memVars>>
     \/ part = "startup"     /\ S!Next /\ UNCHANGED <<modVars, unwindVars, exnVars, aluVars, gateVars, procVars, faultVars, memVars>>
     \/ part = "processes"   /\ P!Next /\ UNCHANGED <<modVars, unwindVars, exnVars, aluVars, gateVars, startVars, faultVars, memVars>>
     \/ part = "faults"      /\ F!Next /\ UNCHANGED <<modVars, unwindVars, exnVars, aluVars, gateVars, startVars, procVars, memVars>>
     \/ part = "memory"      /\ V!Next /\ UNCHANGED <<modVars, unwindVars, exnVars, aluVars, gateVars, startVars, procVars, faultVars>>

vars == <<part, modVars, unwindVars, exnVars, aluVars, gateVars, startVars, procVars, faultVars, memVars>>
Spec == Init /\ [][Next]_vars
-----------------------------------------------------------------------------
(* Loading: whatever order DLLs are loaded in, by whom, and however they     *)
(* depend on each other, imports are bound to the export of that name, and   *)
(* as long as one thread loads at a time, a name has one image and nobody    *)
(* uses it before it is initialised; each image with static TLS has blocks   *)
(* of its own.                                                               *)
LoadingBindsImports ==
  part = "modules" => M!ImportsReachTheirExport /\ M!LoadedOnceAndReady /\ M!TlsBlocksAreTheirOwn

(* A program starts with its file's sections in place, each page open for    *)
(* what its section says, its addresses relocated, clear of the loader's own *)
(* memory, and with the arguments it was given; the memory it asks for is    *)
(* its own.  One that another starts is told of as it ends, to those who     *)
(* hold a handle of it; one that faults ends with its report and its trace   *)
(* written, or as its report failed.                                         *)
ProgramsRunWhole ==
  /\ part = "startup" => S!StartupIsComplete
  /\ part = "memory" => V!GuestsKeepTheirMemory
  /\ part = "processes" => P!ChildrenAreTheirOwn
  /\ part = "faults" => F!FaultsEndAsTold

(* Unwinding gives the caller back from anywhere in a function before its    *)
(* frame pointer is set, the boundaries that are overlooked excepted; after  *)
(* that RtlVirtualUnwind still finds it; and the frame a handler is told of  *)
(* is the function's base.                                                   *)
UnwindingFindsTheCaller ==
  part = "unwind" =>
    U!CallsUnwindToTheirCaller /\ U!FramePointersAnchor /\ U!EstablisherIsTheFrameBase

(* An exception ends in the innermost frame that catches it, after the       *)
(* cleanups on the way have run once each, innermost first, and with that    *)
(* frame's register if it was saved on the way and no cleanup ran; only one  *)
(* that another exception was raised inside of can be lost.                  *)
ExceptionsFindTheirCatch ==
  part = "exceptions" =>
    E!InnermostCatches /\ E!CleanupsRunInOrder /\ E!CatchesKeepTheirRegisters /\ E!OnlyTheDisturbedAreLost
    /\ E!VectoredHandlersAsked

(* 32-bit code computes what it is written to compute.                       *)
ProgramsCompute == part = "interpreter" => I!ProgramsCompute

(* However calls out of 32-bit code, callbacks and exceptions nest, guest    *)
(* code runs on frames nobody has overwritten, the handler chain names live  *)
(* frames, loops end with the frame they were started for, and API calls pop *)
(* what their convention says.                                               *)
Calls32Nest ==
  part = "gate" =>
    G!FramesAreIntact /\ G!LoopsEndWithTheirFrame /\ G!ChainNamesLiveFrames /\ G!CallsBalance
-----------------------------------------------------------------------------
(* For TLC                                                                   *)

(* A program and three DLLs that import from each other, one of them under   *)
(* two names, by name and by ordinal; missing files, missing exports, a      *)
(* thunked system DLL.                                                       *)
MCFile == [a |-> "A", alias |-> "A", b |-> "B", c |-> "C", gone |-> "no file", kernel32 |-> "no file"]
Imp(d, f) == [dll |-> d, fn |-> f, ord |-> 0]
Ord(d, n) == [dll |-> d, fn |-> "", ord |-> n]
MCImports == [exe |-> <<Imp("c", "h"), Imp("c", "missing"), Ord("c", 1), Imp("kernel32", "Sleep"),
                        Imp("gone", "Sleep")>>,
              A |-> <<Imp("b", "g"), Imp("b", "Sleep")>>,
              B |-> <<Ord("a", 1)>>,
              C |-> <<Imp("kernel32", "nope")>>]
MCExports == [A |-> <<"e", "f">>, B |-> <<"g">>, C |-> <<"h", "i">>]
MCBase == [A |-> 1, B |-> 1, C |-> 0]

(* Prologues of up to five operations: pushes, an allocation, a frame        *)
(* pointer (only where it was pushed), saves.                                *)
push(r)    == [op |-> "push", reg |-> r]
alloc(n)   == [op |-> "alloc", n |-> n]
save(r, k) == [op |-> "save", reg |-> r, at |-> k]
setfp(k)   == [op |-> "setfp", off |-> k]

Pushes == {<<>>, <<push("rbx")>>, <<push("rbp"), push("rbx")>>}
Saves  == {<<>>, <<save("rdi", 1)>>, <<[op |-> "xmm"]>>, <<save("rdi", 0), [op |-> "xmm"]>>}
FPs    == {<<>>, <<setfp(0)>>, <<setfp(1)>>}

Prolog(a, n, f, s) == a \o <<alloc(n)>> \o f \o s
MCPrologues ==
  {<<>>} \cup {Prolog(a, n, f, s) : a \in Pushes, n \in {2, 3, 5}, f \in {<<>>}, s \in Saves}
         \cup {Prolog(<<push("rbp"), push("rbx")>>, n, f, s) : n \in {2, 3, 5}, f \in FPs, s \in Saves}

(* Stacks, the thrower's frame first; the second thread throws on one only.  *)
Fr(i, e, o) == [img |-> i, eh |-> e, owns |-> o]
AllStacks ==
  {<<Fr("main", "cleanup", TRUE), Fr("main", "cleanup", TRUE), Fr("main", "catch", FALSE)>>,
   <<Fr("main", "cleanup", TRUE), Fr("dll", "cleanup", FALSE), Fr("main", "catch", TRUE)>>,
   <<Fr("main", "cleanup", FALSE), Fr("host", "none", FALSE), Fr("main", "catch", TRUE)>>,
   <<Fr("main", "none", TRUE), Fr("main", "catch", TRUE), Fr("main", "catch", FALSE)>>,
   <<Fr("main", "none", FALSE), Fr("main", "none", FALSE), Fr("main", "none", FALSE), Fr("main", "catch", FALSE)>>}
MCStacks == [t \in Throwers |-> IF t = CHOOSE u \in Throwers : TRUE THEN AllStacks
                                ELSE {s \in AllStacks : s[2].eh = "cleanup" /\ s[3].owns}]

(* What a handler or a cleanup throws: caught there, or not.                 *)
MCInners == {[stack |-> <<Fr("main", "catch", TRUE)>>, lang |-> "msvc"],
             [stack |-> <<Fr("main", "none", FALSE)>>, lang |-> "gcc"]}

(* Operands at the boundaries of a byte of two bits to a byte's register.    *)
MCValues == {0, 1, 2, 3, 21, 64, 127, 128, 130, 255}
MCFew == {0, 1, 127, 128, 255}

(* Imports under one name from DLLs of different kinds, listed and unlisted. *)
From32(d, n) == [dll |-> d, name |-> n]
MCImportList == <<From32("kernel32", "Sleep"), From32("msvcrt", "qsort"), From32("user32", "Sleep"), From32("ntdll", "Flush"),
                  From32("kernel32", "Flush"), From32("kernel32", "unlisted"), From32("kernel32", "gone"),
                  From32("kernel32", "GetCommandLineA"), From32("kernel32", "PopSList")>>
MCArity == [Sleep |-> 4, GetCommandLineA |-> 0]

(* Sections, of pages of two cells, words to relocate or to patch, arguments.*)
Sec(p, v, r, x) == [pages |-> p, vsz |-> v, rsz |-> r, prot |-> x]
Word(a, t, o) == [at |-> a, type |-> t, to |-> o]
MCLayouts == {<<Sec(1, 2, 1, "rx"), Sec(2, 3, 2, "rw")>>, <<Sec(2, 3, 4, "rx"), Sec(1, 1, 1, "r"), Sec(1, 2, 1, "rw")>>,
              <<Sec(1, 1, 1, "rx")>>}
MCFixups == {<<>>, <<Word(3, 3, 1), Word(5, 3, 2), Word(6, 10, 0)>>, <<Word(2, 3, 3), Word(3, 3, 0)>>,
             <<Word(2, 10, 0), Word(4, 10, 3)>>}
MCWords == {<<>>, <<"a">>, <<"a", " ">>, <<"\"", "a">>, <<"\t">>, <<" ", "\t", "\\">>}

(* How children end, and what they are started with.                         *)
MCStatuses == {<<"SIGSEGV", 0>>}
MCLines == UNION {[1 .. n -> {"a", " ", "\""}] : n \in 0 .. 6}

(* Faults with the stack above them long or short, bytes that can be read or *)
(* not; stacks a walk is led about on; function maps of two files.  What     *)
(* Faults calls Image, HostCode and Junk has names of its own here.          *)
InImage == -1000
InHost == -1001
NoCode == -1002
Fault(s, r, b, f, d, w, g, l) ==
  [sig |-> s, rip |-> r, bytes |-> b, fast |-> f, deep |-> d, words |-> w, ring |-> g, lost |-> l]
Frames == <<InImage, NoCode, InHost, 4, InImage, 7, InImage>>
MCCrashes ==
  {Fault("SEGV", "image", TRUE, fast, FALSE, w, <<>>, 99) : fast \in BOOLEAN, w \in {Frames, <<InImage>>}}
  \cup {Fault("ABRT", "host", TRUE, FALSE, FALSE, <<InHost, 3, 1>>, <<>>, 99),
        Fault("TRAP", "nowhere", FALSE, FALSE, FALSE, Frames, <<>>, 99),
        Fault("ILL", "image", FALSE, FALSE, FALSE, Frames, <<>>, 99),
        Fault("SEGV", "host", TRUE, FALSE, TRUE, Frames, <<>>, 99),
        Fault("FPE", "host", TRUE, FALSE, FALSE, Frames, <<1, 2, 0, 1>>, 2),
        Fault("SEGV", "host", TRUE, FALSE, FALSE, Frames, <<1, 2, 3, 4, 5, 6>>, 99)}
MCWalked == [1 .. 4 -> {InImage, InHost, NoCode, 0, 2, 4, 9}]
Func(n, a, b) == <<<<"name", n>>, <<"start", a>>, <<"end", b>>>>
MCMaps ==
  {<<Func("f", 1, 3) \o <<<<"name", "g">>, <<"end", 9>>>> \o Func("h", 4, 6), <<>>>>}
  \cup {<<Func("f", a, b) \o Func("g", c, d), Func("h", e, e + 1)>> : a \in 0 .. 3, b \in 1 .. 4, c \in 0 .. 5, d \in 2 .. 6, e \in 0 .. 6}
=============================================================================
