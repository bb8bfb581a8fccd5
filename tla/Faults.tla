------------------------------- MODULE Faults -------------------------------
(***************************************************************************)
(* What becomes of a thread that faults: the handler's report, which reads *)
(* the memory of a broken program, the trace file it has to close, and the *)
(* watchdog and the profiler, which interrupt threads as well.             *)
(***************************************************************************)
EXTENDS Integers, Sequences, FiniteSets, TLC, SequencesExt, FiniteSetsExt, Functions

CONSTANTS
  Runners, First,   \* the threads; the first has a stack of its own for signals
  Crashes,          \* [sig, rip, bytes, fast, deep, words, ring, lost]
  Walked,           \* stacks a walk may meet
  NTop, NScan, NFast, RA, NWatch,  \* slots of the stack that are read: 12, 512, 128, 7, 256
  Window, Far, NWalk,              \* slots a walk may read, how far off one may lead, its frames: 4096, 8192, 8
  NSamples, NUnique, NTold,        \* MW_PROF_MAX, the histogram's entries, those told: 65536, 8192, 16
  MaxTold,          \* a bound: how many threads fault or leave in an unprofiled program; in a profiled one, one
  Maps, Addresses   \* function maps, lists of files, and what is looked up in them

VARIABLES
  stage,            \* runner -> where it is; "run" in its program
  crash,            \* runner -> what it faulted with, or NoCrash
  masked,           \* runner -> signals it does not take
  segv,             \* what SIGSEGV does: "report", "nested", or "plain", a report on the thread's own stack
  old,              \* runner -> what it was before the runner's probe
  log,              \* the trace: "open", "closed", "closed twice"
  ended,            \* how the process has ended, or Alive
  told,             \* history: who faulted, left or was stopped, in order
  smashed,          \* history: the handler has written over memory
  armed, head, rips, pending, profile  \* the profiler: on, g_prof_head, g_prof_rips, the samples under way, what it wrote

vars == <<stage, crash, masked, segv, old, log, ended, told, smashed, armed, head, rips, pending, profile>>
-----------------------------------------------------------------------------
(* A map of functions                                                        *)

(* Files are lists of tokens <<key, value>>; a record is the next name, the  *)
(* next start after it and the next end after that.                          *)
NextKey(file, k, key) == LET i == SelectInSubSeq(file, k, Len(file), LAMBDA t : t[1] = key) IN IF k = 0 THEN 0 ELSE i
Parse(file) ==
  LET from[k \in 1 .. Len(file) + 1] ==
        LET n == NextKey(file, k, "name")  s == NextKey(file, n, "start")  e == NextKey(file, s, "end") IN
        IF e = 0 THEN <<>>
        ELSE (IF file[e][2] > file[s][2] THEN <<[name |-> file[n][2], start |-> file[s][2], end |-> file[e][2]]>> ELSE <<>>) \o from[e + 1]
  IN from[1]
InsertByStart(table, f) ==
  LET k == SelectLastInSeq(table, LAMBDA g : g.start <= f.start) IN InsertAt(table, k + 1, f)
FuncMap(files) == FoldLeft(InsertByStart, <<>>, FlattenSeq([i \in DOMAIN files |-> Parse(files[i])]))

(* Halving finds the last function that starts no later.                     *)
Lookup(table, rip) ==
  LET find[lo \in 1 .. Len(table) + 1, hi \in 0 .. Len(table)] ==
        IF lo > hi THEN lo - 1
        ELSE LET mid == (lo + hi) \div 2 IN IF rip < table[mid].start THEN find[lo, mid - 1] ELSE find[mid + 1, hi]
      k == find[1, Len(table)]
  IN IF k # 0 /\ rip < table[k].end THEN <<table[k].name, rip - table[k].start>> ELSE <<>>
-----------------------------------------------------------------------------
(* What the report reads                                                     *)

(* Words of a stack are numbers of its slots, or one of these.               *)
Image == -1000
HostCode == -1001
Junk == -1002

Slots(n) == 0 .. n - 1
InImage(c) == c.rip = "image"
(* A fault in the image shows its bytes and the word on top of the stack,    *)
(* one elsewhere only bytes of memory that is mapped.                        *)
CodeReads(c) == [bytes |-> c.rip # "nowhere", slots |-> IF InImage(c) THEN Slots(1) ELSE {}]
StackReads(c) == Slots(NTop) \union Slots(NScan)

(* From word to word: return addresses in the image lead to the next word,   *)
(* others to where the second word says, while that is near the stack.       *)
WalkStep(words, w) ==
  LET word(k) == IF k \in 0 .. Len(words) - 1 THEN words[k + 1] ELSE Junk IN
  CASE w.stop \/ w.sp < 0 \/ w.sp > Window -> [w EXCEPT !.stop = TRUE]
    [] w.ip = Image -> [w EXCEPT !.reads = @ \union {w.sp}, !.ip = word(w.sp), !.sp = w.sp + 1]
    [] w.ip = HostCode \/ w.ip >= -Far ->
         LET v == word(w.sp + 1) IN
         [w EXCEPT !.reads = @ \union {w.sp + 1}, !.sp = v, !.stop = v < - Far \/ v > Window + Far]
    [] OTHER -> [w EXCEPT !.stop = TRUE]
WalkReads(rip, words) ==
  LET ip == CASE rip = "image" -> Image [] rip = "host" -> HostCode [] OTHER -> Junk IN
  FoldLeft(LAMBDA w, i : WalkStep(words, w), [ip |-> ip, sp |-> 0, reads |-> {}, stop |-> FALSE], [i \in 1 .. NWalk |-> i]).reads

(* Of a 32-bit program, the code at its last branches, at most six, and at   *)
(* eip; the list they are gathered in has six places.                        *)
RingReads(c) == {c.ring[k] : k \in DOMAIN c.ring} \ {0}
RingOverflows(c) == Cardinality(RingReads(c)) = 6

Has(c, slots) == \A s \in slots : s < Len(c.words)
Reads(c) == StackReads(c) \union WalkReads(c.rip, c.words) \union CodeReads(c).slots
(* All the handler looks at is there.                                        *)
Whole(c) ==
  IF c.fast THEN Has(c, Slots(NFast) \union {RA})
  ELSE /\ Has(c, Reads(c)) /\ (CodeReads(c).bytes => c.bytes) /\ c.lost \notin RingReads(c)
-----------------------------------------------------------------------------
Alive == <<"running", 0>>
NoCrash == [sig |-> "none", fast |-> FALSE]
Running == ended = Alive
Quiet == Running /\ Len(told) < (IF armed \/ profile # <<"none">> \/ head > 0 THEN 1 ELSE MaxTold)
Number(sig) == CASE sig = "ILL" -> 4 [] sig = "TRAP" -> 5 [] sig = "ABRT" -> 6 [] sig = "BUS" -> 7 [] sig = "FPE" -> 8 [] OTHER -> 11
Go(u, s) == stage' = [stage EXCEPT ![u] = s]
Calm == UNCHANGED <<armed, head, rips, pending, profile>>
Stay == UNCHANGED <<masked, segv, old, log, smashed>> /\ Calm

(* A signal while it is masked, or with nowhere to run its handler, kills;   *)
(* while a probe is under way it ends the process, for the probe that is     *)
(* armed is another than the one that is asked.                              *)
NestedFault(u, deep) ==
  ended' = CASE "SEGV" \in masked[u] \/ (deep /\ (u # First \/ segv # "report")) -> <<"killed", 11>>
             [] OTHER -> <<"exit", 139>>
Signal(u, c) ==
  IF \/ c.sig \in masked[u]
     \/ c.deep /\ (u # First \/ (c.sig = "SEGV" /\ segv # "report"))
  THEN ended' = <<"killed", Number(c.sig)>> /\ UNCHANGED <<stage, crash>> /\ Stay
  ELSE IF c.sig = "SEGV" /\ segv = "nested"
  THEN NestedFault(u, c.deep) /\ UNCHANGED <<stage, crash>> /\ Stay
  ELSE /\ Go(u, IF InImage(c) /\ c.fast THEN "fast" ELSE "flush")
       /\ crash' = [crash EXCEPT ![u] = c] /\ masked' = [masked EXCEPT ![u] = @ \union {c.sig}]
       /\ UNCHANGED <<segv, old, log, ended, smashed>> /\ Calm
Crash(u, c) == Quiet /\ stage[u] = "run" /\ Signal(u, c) /\ told' = Append(told, <<"crash", u, c>>)

(* int 0x29: the stack is read as it stands.                                 *)
FastFail(u) ==
  /\ Running /\ stage[u] = "fast"
  /\ IF Has(crash[u], Slots(NFast) \union {RA}) THEN Go(u, "flush") /\ UNCHANGED ended ELSE NestedFault(u, FALSE) /\ UNCHANGED stage
  /\ UNCHANGED <<crash, told>> /\ Stay

(* The histogram of the samples, told from the most frequent down; its       *)
(* entries do not fit the stack for signals.                                 *)
Histogram(list) ==
  LET uniq == FoldLeft(LAMBDA all, r : IF Contains(all, r) \/ Len(all) = NUnique THEN all ELSE Append(all, r), <<>>, list)
      count(r) == Cardinality({i \in DOMAIN list : list[i] = r})
      sorted == SortSeq([k \in DOMAIN uniq |-> <<uniq[k], count(uniq[k])>>], LAMBDA a, b : a[2] > b[2])
  IN SubSeq(sorted, 1, IF NTold < Len(sorted) THEN NTold ELSE Len(sorted))
ProfileDump(u) ==
  IF profile = <<"none">> /\ armed /\ head > 0
  THEN /\ profile' = <<"told", head, Histogram([i \in 1 .. head |-> rips[i]])>> /\ armed' = FALSE
       /\ smashed' = (smashed \/ (u = First /\ stage[u] = "flush"))
  ELSE UNCHANGED <<profile, armed, smashed>>
(* The profile is written, then the end of the trace, if it is still open.   *)
Flush(u) ==
  /\ Running /\ stage[u] = "flush"
  /\ ProfileDump(u)
  /\ Go(u, IF log = "open" THEN "close" ELSE "flushed")
  /\ UNCHANGED <<crash, masked, segv, old, log, ended, told, head, rips, pending>>
Close(u) ==
  /\ Running /\ stage[u] = "close"
  /\ log' = IF log = "open" THEN "closed" ELSE "closed twice"
  /\ Go(u, "flushed")
  /\ UNCHANGED <<crash, masked, segv, old, ended, told, smashed>> /\ Calm

(* The report on a 32-bit program is outside the probe: a fault in it is one *)
(* more crash, of the handler.                                               *)
Report32(u) ==
  LET c == crash[u] IN
  /\ Running /\ stage[u] = "flushed" /\ c # NoCrash /\ ~ c.fast /\ old[u] = "none"
  /\ IF c.lost \in RingReads(c)
     THEN /\ Signal(u, [c EXCEPT !.sig = "SEGV", !.rip = "host", !.bytes = TRUE, !.deep = FALSE])
          /\ UNCHANGED told
     ELSE /\ Go(u, "probe") /\ old' = [old EXCEPT ![u] = segv] /\ segv' = "nested"
          /\ smashed' = (smashed \/ RingOverflows(c))
          /\ UNCHANGED <<crash, masked, log, ended, told>> /\ Calm
(* A probe reads code, stack and frames; the handler it found is put back,   *)
(* to run on the stack of who faults.                                        *)
Probe(u, from, ok, to) ==
  /\ Running /\ stage[u] = from
  /\ IF ok THEN Go(u, to) /\ UNCHANGED ended ELSE NestedFault(u, FALSE) /\ UNCHANGED stage
  /\ UNCHANGED <<crash, masked, old, log, told, smashed>> /\ Calm
ShowCode(u) ==
  LET c == crash[u] IN
  Probe(u, "probe", (CodeReads(c).bytes => c.bytes) /\ Has(c, CodeReads(c).slots), "stack") /\ UNCHANGED segv
ShowStack(u) == Probe(u, "stack", Has(crash[u], StackReads(crash[u])), "walk") /\ UNCHANGED segv
Walk(u) ==
  LET there == Has(crash[u], WalkReads(crash[u].rip, crash[u].words)) IN
  /\ Probe(u, "walk", there, "flush")
  /\ segv' = IF ~ there THEN segv ELSE IF old[u] = "report" THEN "plain" ELSE old[u]

(* Who leaves flushes as well; the program's code is 0 here.                 *)
Leave(u) ==
  /\ Quiet /\ stage[u] = "run" /\ Go(u, "flush") /\ told' = Append(told, <<"leave", u, NoCrash>>)
  /\ UNCHANGED <<crash, ended>> /\ Stay
End(u) ==
  LET c == crash[u] IN
  /\ Running /\ stage[u] = "flushed" /\ (c # NoCrash /\ ~ c.fast => old[u] # "none")
  /\ ended' = <<"exit", CASE c = NoCrash -> 0 [] c.fast -> 9 [] OTHER -> 128 + Number(c.sig)>>
  /\ UNCHANGED <<stage, crash, told>> /\ Stay

(* The watchdog interrupts a thread wherever its stack is; the process ends  *)
(* at once.                                                                  *)
Alarm(u, c) ==
  /\ Quiet /\ stage[u] = "run" /\ told' = Append(told, <<"alarm", u, c>>)
  /\ IF Has(c, Slots(NWatch)) THEN ended' = <<"exit", 3>> /\ UNCHANGED <<stage, crash>> /\ Stay
     ELSE Signal(u, [c EXCEPT !.sig = "SEGV", !.rip = "host", !.bytes = TRUE, !.fast = FALSE, !.deep = FALSE])

(* The profiler's signal: what was head before is the place, then one more.  *)
(* A thread is at one place of its own.                                      *)
Sample(u) ==
  /\ Running /\ armed /\ pending[u] = <<>> /\ head < NSamples
  /\ pending' = [pending EXCEPT ![u] = <<head + 1, IF u = First THEN 1 ELSE 2>>]
  /\ UNCHANGED <<stage, crash, masked, segv, old, log, ended, told, smashed, armed, head, rips, profile>>
Store(u) ==
  /\ Running /\ pending[u] # <<>>
  /\ rips' = [rips EXCEPT ![pending[u][1]] = pending[u][2]] /\ head' = pending[u][1]
  /\ pending' = [pending EXCEPT ![u] = <<>>]
  /\ UNCHANGED <<stage, crash, masked, segv, old, log, ended, told, smashed, armed, profile>>

Init ==
  /\ stage = [u \in Runners |-> "run"] /\ crash = [u \in Runners |-> NoCrash] /\ masked = [u \in Runners |-> {}]
  /\ segv = "report" /\ old = [u \in Runners |-> "none"] /\ log = "open" /\ ended = Alive /\ told = <<>>
  /\ smashed = FALSE /\ armed \in BOOLEAN /\ head = 0 /\ rips = [i \in 1 .. NSamples |-> 0]
  /\ pending = [u \in Runners |-> <<>>] /\ profile = <<"none">>
Next ==
  \E u \in Runners :
    \/ \E c \in Crashes : Crash(u, c) \/ Alarm(u, c)
    \/ FastFail(u) \/ Flush(u) \/ Close(u) \/ Report32(u) \/ ShowCode(u) \/ ShowStack(u) \/ Walk(u)
    \/ Leave(u) \/ End(u) \/ Sample(u) \/ Store(u)
Spec == Init /\ [][Next]_vars
-----------------------------------------------------------------------------
(* A walk reads no further than its window, whatever it finds there.         *)
WalksStayNear ==
  told = <<>> /\ head = 0 => \A rip \in {"image", "host", "nowhere"}, words \in Walked : WalkReads(rip, words) \subseteq 0 .. Window + 1

(* A thread that faults on its own ends the program: with its trace closed,  *)
(* once, and the code of its signal, when what the report reads is there;    *)
(* by SIGSEGV or its code, and not before the trace is closed, when only the *)
(* report's later reads fail.                                                *)
CrashesEndAsTold ==
  ended # Alive /\ Len(told) = 1 /\ told[1][1] = "crash" /\ ~ smashed =>
    LET c == told[1][3]
        handled == ~ c.deep \/ told[1][2] = First IN
    /\ handled /\ Whole(c) => ended = <<"exit", IF c.fast THEN 9 ELSE 128 + Number(c.sig)>> /\ log = "closed"
    /\ handled /\ ~ Whole(c) => ended \in {<<"killed", 11>>, <<"exit", 139>>} /\ (c.fast \/ log = "closed")
    /\ ~ handled => ended = <<"killed", Number(c.sig)>> /\ log = "open"

(* Several that fault or leave at once: the end is that of one of them, and  *)
(* of no other kind.                                                         *)
EndsOf(t) ==
  LET c == t[3] IN
  CASE t[1] = "leave" -> {<<"exit", 0>>}
    [] t[1] = "alarm" -> IF Has(c, Slots(NWatch)) THEN {<<"exit", 3>>} ELSE {<<"exit", 139>>, <<"killed", 11>>}
    [] c.deep         -> {<<"exit", 128 + Number(c.sig)>>, <<"exit", 139>>, <<"killed", Number(c.sig)>>, <<"killed", 11>>}
    [] c.fast         -> {<<"exit", 9>>, <<"exit", 139>>, <<"killed", 11>>}
    [] OTHER          -> {<<"exit", 128 + Number(c.sig)>>, <<"exit", 139>>, <<"killed", 11>>}
SomebodyEndsIt ==
  ended # Alive /\ ~ smashed => \E k \in DOMAIN told : ended \in EndsOf(told[k])

(* Every sample told was taken, and none is counted twice or left out while  *)
(* the histogram has room.                                                   *)
ProfilesAddUp ==
  /\ \A i \in 1 .. head : rips[i] # 0
  /\ profile[1] = "told" =>
       LET all == profile[3] IN
       /\ \A i, j \in DOMAIN all : i < j => all[i][2] >= all[j][2] /\ all[i][1] # all[j][1]
       /\ Len(all) < NTold /\ Len(all) < NUnique => FoldLeft(LAMBDA n, e : n + e[2], 0, all) = profile[2]

(* An address is named after the function it lies in, when none overlap.     *)
Overlap(f, g) == f.start < g.end /\ g.start < f.end
NamesAreRight ==
  told = <<>> /\ head = 0 => \A files \in Maps :
    LET all == FlattenSeq([i \in DOMAIN files |-> Parse(files[i])]) IN
    (\A i, j \in DOMAIN all : i # j => ~ Overlap(all[i], all[j])) =>
      LET table == FuncMap(files) IN
      \A a \in Addresses :
        LET inside == {i \in DOMAIN all : all[i].start <= a /\ a < all[i].end} IN
        Lookup(table, a) = (IF inside = {} THEN <<>> ELSE LET f == all[Min(inside)] IN <<f.name, a - f.start>>)

(* A report reads what it may, is complete unless it fails itself, and ends  *)
(* the process; samples are counted, and addresses named as the maps say.    *)
FaultsEndAsTold == WalksStayNear /\ CrashesEndAsTold /\ SomebodyEndsIt /\ ProfilesAddUp /\ NamesAreRight
=============================================================================
