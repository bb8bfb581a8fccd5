------------------------------- MODULE Answers -------------------------------
(***************************************************************************)
(* Answers into the guest's buffers: the guest asks how much room a text   *)
(* or a record needs, gets that room and asks again.  The functions differ *)
(* in what they say when there is no room or too little of it, and some    *)
(* prepare the answer in a buffer all threads share.  A text has n         *)
(* characters without its terminator; an answer is what the function says, *)
(* whether that means success, and how much of the buffer it writes.       *)
(* kind is the family a behaviour is about; they share no state, and in    *)
(* the first, where no call shares any with another, a behaviour is one    *)
(* answer.                                                                 *)
(***************************************************************************)
EXTENDS Integers, Sequences, FiniteSets, SequencesExt, FiniteSetsExt

CONSTANTS
  Askers,      \* guest threads
  MaxText,     \* bounds a text's length
  MaxChanges,  \* bounds the changes of what is asked for
  NRing,       \* a_ver_ring, 16
  Pids,        \* numbers of the host's processes
  NInstances   \* instances of a performance object, 128

VARIABLES
  kind,        \* "text", "value", "handles", "version" or "perf"
  now,         \* what there is to ask for: [ver, n]; for values and files, one each
  ask,         \* asker -> its call in progress
  tmp,         \* RegGetValue's static buffer, g_ver_block: [of, ver, n]
  ring,        \* a_ver_ring: entry -> the version string in it
  turns,       \* VerQueryValueA's so far
  answer,      \* history: the last answer, until a value or performance data is worked at again
  tangled,     \* history: two calls were between filling and copying a shared buffer
  alive,       \* the host's processes
  scan,        \* asker -> its reading of /proc: [list, snap], and history: who lived all along
  arena        \* the static arena of performance data: [which, snap]

perf == <<alive, scan, arena>>
vars == <<kind, now, ask, tmp, ring, turns, answer, tangled, perf>>

Idle == [at |-> "idle", api |-> "", of |-> 0, room |-> 0, ver |-> 0, count |-> 0, apart |-> TRUE]
NoAnswer == [ok |-> FALSE, api |-> "", n |-> 0, room |-> 0, wrote |-> 0, says |-> 0, fresh |-> FALSE, own |-> TRUE,
             data |-> <<>>]
Kinds == {"text", "value", "handles", "version", "perf"}
Items == {1, 2}

NoScan == [list |-> <<>>, snap |-> <<>>, all |-> {}]
Init ==
  /\ kind \in Kinds
  /\ now \in [Items -> [ver : {0}, n : IF kind \in {"version", "perf"} THEN {1} ELSE 0 .. MaxText]]
  /\ kind = "value" \/ now[1] = now[2]
  /\ ask = [u \in Askers |-> Idle]
  /\ tmp = [of |-> 0, ver |-> 0, n |-> 0] /\ ring = [k \in 0 .. NRing - 1 |-> 0] /\ turns = 0
  /\ answer = NoAnswer /\ tangled = FALSE
  /\ alive \in IF kind = "perf" THEN SUBSET Pids ELSE {{}}
  /\ scan = [u \in Askers |-> NoScan] /\ arena = [which |-> "none", snap |-> <<>>]
-----------------------------------------------------------------------------
(* Functions that answer in one step: of a text of n characters into a       *)
(* buffer of room, 0 for none.                                               *)

Ans(ok, says, wrote) == [ok |-> ok, says |-> says, wrote |-> wrote]
Least(a, b) == IF a < b THEN a ELSE b

(* Mutant: a buffer that lacks the room for the last byte will do.           *)
RegQueryValueRoomy(n, room) ==
  IF room = 0 THEN Ans(FALSE, n, 0) ELSE IF room + 1 < n THEN Ans(FALSE, n, 0) ELSE Ans(TRUE, n, n)
(* Data without a terminator: too little room is refused, with the size.     *)
RegQueryValue(n, room) ==
  IF room = 0 THEN Ans(FALSE, n, 0) ELSE IF room < n THEN Ans(FALSE, n, 0) ELSE Ans(TRUE, n, n)
GetLogicalProcessorInformation(n, room) == IF room < n \/ room = 0 THEN Ans(FALSE, n, 0) ELSE Ans(TRUE, n, n)
NtQuerySystemInformation(n, room) == GetLogicalProcessorInformation(n, room)
SystemProcessInformation(n, room) == GetLogicalProcessorInformation(n, room)
GetTokenInformation(n, room) == GetLogicalProcessorInformation(n, room)
RegQueryMultipleValues(n, room) == GetLogicalProcessorInformation(n, room)
PerfQuery(n, room) == GetLogicalProcessorInformation(n, room)

(* Texts with a terminator: too little room is refused, with the room.       *)
RegEnumKey(n, room) == IF room < n + 1 THEN Ans(FALSE, n + 1, 0) ELSE Ans(TRUE, n, n + 1)
RegEnumValue(n, room) == RegEnumKey(n, room)
LookupAccountSid(n, room) == RegEnumKey(n, room)
GetUserNameEx(n, room) == RegEnumKey(n, room)
GetUserNameA(n, room) == IF room < n + 1 THEN Ans(FALSE, n + 1, 0) ELSE Ans(TRUE, n, n + 1)
GetUserNameW(n, room) == IF room < MaxText + 1 THEN Ans(FALSE, MaxText + 1, 0) ELSE Ans(TRUE, n + 1, n + 1)
GetComputerName(n, room) == IF room < n + 1 THEN Ans(FALSE, n + 1, 0) ELSE Ans(TRUE, n + 1, n + 1)
GetTempPathA(n, room) == IF room < n + 1 THEN Ans(FALSE, n + 1, 0) ELSE Ans(TRUE, n, n + 1)
MultiByteToWideChar(n, room) ==
  IF room = 0 THEN Ans(FALSE, n + 1, 0) ELSE IF room < n + 1 THEN Ans(FALSE, 0, 0) ELSE Ans(TRUE, n + 1, n + 1)

LCMapString(n, room) == MultiByteToWideChar(n, room)

(* The ANSI code page does not count the terminator, and writes it only if   *)
(* there is room.                                                            *)
WideCharToMultiByte(n, room) ==
  IF room = 0 THEN Ans(FALSE, n, 0) ELSE IF room < n THEN Ans(FALSE, 0, 0)
  ELSE Ans(TRUE, Least(n + 1, room), Least(n + 1, room))

(* The size is never told.                                                   *)
GetLocaleInfo(n, room) == IF room < n + 1 THEN Ans(FALSE, 0, 0) ELSE Ans(TRUE, n + 1, n + 1)

GetDateFormat(n, room) == GetLocaleInfo(n, room)
StringFromGUID2(n, room) == GetLocaleInfo(n, room)
(* Half the room a name needs will do (8 bytes for the 16 of "Default").     *)
GetUserObjectInformation(n, room) == IF 2 * room < n + 1 THEN Ans(FALSE, 0, 0) ELSE Ans(TRUE, n + 1, n + 1)

(* Texts that are cut to the room, which their length then does not tell.    *)
Cut(n, room) == Least(n, room - 1)
GetEnvironmentVariable(n, room) == IF room = 0 THEN Ans(FALSE, n + 1, 0) ELSE Ans(TRUE, Cut(n, room), Cut(n, room) + 1)
GetFullPathName(n, room) == GetEnvironmentVariable(n, room)
GetTempPathW(n, room) == GetEnvironmentVariable(n, room)
GetCurrentDirectory(n, room) == GetEnvironmentVariable(n, room)
ExpandEnvironmentStrings(n, room) ==
  IF room = 0 THEN Ans(FALSE, n + 1, 0) ELSE Ans(TRUE, Cut(n, room) + 1, Cut(n, room) + 1)
(* The size told lacks the terminator.                                       *)
GetSystemDirectory(n, room) == IF room = 0 THEN Ans(FALSE, n, 0) ELSE Ans(TRUE, Cut(n, room), Cut(n, room) + 1)
(* Nobody can ask; FormatMessage answers the length it wanted to write.      *)
LoadString(n, room) == IF room = 0 \/ n = 0 THEN Ans(FALSE, 0, 0) ELSE Ans(TRUE, Cut(n, room), Cut(n, room) + 1)
GetWindowText(n, room) == IF room = 0 THEN Ans(FALSE, n + 1, 0) ELSE Ans(TRUE, Cut(n, room), Cut(n, room) + 1)
GetModuleFileName(n, room) == LoadString(n, room)
FormatMessage(n, room) == IF room = 0 THEN Ans(FALSE, n + 1, 0) ELSE Ans(TRUE, Cut(n, room), Cut(n, room) + 1)
(* Two terminators, even into a buffer of one.                               *)
QueryDosDevice(n, room) ==
  IF room = 0 THEN Ans(FALSE, 0, 0)
  ELSE LET m == IF room < 2 THEN 0 ELSE Least(n, room - 2) IN Ans(TRUE, m + 1, m + 2)

Answered(api, n, room) ==
  CASE api = "RegQueryValue" -> RegQueryValue(n, room)
    [] api = "GetLogicalProcessorInformation" -> GetLogicalProcessorInformation(n, room)
    [] api = "NtQuerySystemInformation" -> NtQuerySystemInformation(n, room)
    [] api = "GetTokenInformation" -> GetTokenInformation(n, room)
    [] api = "PerfQuery" -> PerfQuery(n, room)
    [] api = "RegEnumKey" -> RegEnumKey(n, room)
    [] api = "RegEnumValue" -> RegEnumValue(n, room)
    [] api = "GetUserNameA" -> GetUserNameA(n, room)
    [] api = "GetUserNameW" -> GetUserNameW(n, room)
    [] api = "GetComputerName" -> GetComputerName(n, room)
    [] api = "GetTempPathA" -> GetTempPathA(n, room)
    [] api = "MultiByteToWideChar" -> MultiByteToWideChar(n, room)
    [] api = "WideCharToMultiByte" -> WideCharToMultiByte(n, room)
    [] api = "GetLocaleInfo" -> GetLocaleInfo(n, room)
    [] api = "GetEnvironmentVariable" -> GetEnvironmentVariable(n, room)
    [] api = "GetFullPathName" -> GetFullPathName(n, room)
    [] api = "GetTempPathW" -> GetTempPathW(n, room)
    [] api = "GetCurrentDirectory" -> GetCurrentDirectory(n, room)
    [] api = "ExpandEnvironmentStrings" -> ExpandEnvironmentStrings(n, room)
    [] api = "GetSystemDirectory" -> GetSystemDirectory(n, room)
    [] api = "LoadString" -> LoadString(n, room)
    [] api = "GetWindowText" -> GetWindowText(n, room)
    [] api = "GetModuleFileName" -> GetModuleFileName(n, room)
    [] api = "FormatMessage" -> FormatMessage(n, room)
    [] api = "SystemProcessInformation" -> SystemProcessInformation(n, room)
    [] api = "RegQueryMultipleValues" -> RegQueryMultipleValues(n, room)
    [] api = "LookupAccountSid" -> LookupAccountSid(n, room)
    [] api = "GetUserNameEx" -> GetUserNameEx(n, room)
    [] api = "LCMapString" -> LCMapString(n, room)
    [] api = "GetDateFormat" -> GetDateFormat(n, room)
    [] api = "StringFromGUID2" -> StringFromGUID2(n, room)
    [] api = "GetUserObjectInformation" -> GetUserObjectInformation(n, room)
    [] api = "QueryDosDevice" -> QueryDosDevice(n, room)

Bytes == {"RegQueryValue", "GetLogicalProcessorInformation", "NtQuerySystemInformation", "GetTokenInformation", "PerfQuery",
  "SystemProcessInformation", "RegQueryMultipleValues"}
Unasked == {"LoadString", "GetModuleFileName", "QueryDosDevice", "GetDateFormat", "StringFromGUID2", "GetUserObjectInformation"}
(* What the guest learns too little from.                                    *)
Misjudged == {"WideCharToMultiByte", "GetLocaleInfo", "GetSystemDirectory"}
Apis == Bytes \cup Unasked \cup Misjudged \cup
  {"RegEnumKey", "RegEnumValue", "GetUserNameA", "GetUserNameW", "GetComputerName", "GetTempPathA", "MultiByteToWideChar",
   "GetEnvironmentVariable", "GetFullPathName", "GetTempPathW", "GetCurrentDirectory", "ExpandEnvironmentStrings",
   "GetWindowText", "FormatMessage", "LookupAccountSid", "GetUserNameEx", "LCMapString"}
Whole(api, n) == IF api \in Bytes THEN n ELSE n + 1

Result(api, room, fresh) ==
  LET a == Answered(api, now[1].n, room) IN
  [NoAnswer EXCEPT !.ok = a.ok, !.api = api, !.n = now[1].n, !.room = room, !.wrote = a.wrote, !.says = a.says, !.fresh = fresh]

(* The guest asks without a buffer and calls again with the room it was      *)
(* told, or tries a buffer of its own.                                       *)
Ask(u, api) ==
  /\ kind = "text" /\ answer = NoAnswer /\ \A t \in Askers : ask[t].at = "idle"
  /\ api \in Apis \ Unasked
  /\ ask' = [ask EXCEPT ![u] = [Idle EXCEPT !.at = "asked", !.api = api, !.ver = now[1].ver,
                                            !.room = Answered(api, now[1].n, 0).says]]
  /\ UNCHANGED <<kind, now, tmp, ring, turns, answer, tangled, perf>>

Call(u) ==
  /\ kind = "text" /\ ask[u].at = "asked"
  /\ answer' = Result(ask[u].api, ask[u].room, ask[u].ver = now[1].ver)
  /\ ask' = [ask EXCEPT ![u] = Idle]
  /\ UNCHANGED <<kind, now, tmp, ring, turns, tangled, perf>>

Try(api, room) ==
  /\ kind = "text" /\ answer = NoAnswer /\ \A t \in Askers : ask[t].at = "idle"
  /\ api \in Apis /\ answer' = Result(api, room, FALSE)
  /\ UNCHANGED <<kind, now, ask, tmp, ring, turns, tangled, perf>>

(* Another thread sets the value, creates an object, changes the directory.  *)
Change(i, n) ==
  /\ kind = "value" \/ (kind \in {"text", "handles"} /\ i = 1)
  /\ now[i].ver < MaxChanges /\ n # now[i].n
  /\ now' = [now EXCEPT ![i] = [ver |-> @.ver + 1, n |-> n]]
  /\ UNCHANGED <<kind, ask, tmp, ring, turns, answer, tangled, perf>>
-----------------------------------------------------------------------------
(* RegGetValue: the size, the value into the static buffer, the copy.        *)

Between(u, at) == \E t \in Askers \ {u} : ask[t].at = at
RegGetValue(u, i, room) ==
  /\ kind = "value" /\ ask[u].at = "idle"
  /\ ask' = [ask EXCEPT ![u] = [Idle EXCEPT !.at = "sized", !.of = i, !.room = room, !.count = now[i].n]]
  /\ answer' = NoAnswer
  /\ UNCHANGED <<kind, now, tmp, ring, turns, tangled, perf>>

ValueIsRead(u) ==
  LET c == ask[u] IN
  /\ kind = "value" /\ c.at = "sized"
  /\ IF now[c.of].n > c.count /\ c.count > 0
     THEN ask' = [ask EXCEPT ![u] = Idle] /\ UNCHANGED <<tmp, tangled>>
     ELSE /\ tmp' = [of |-> c.of, ver |-> now[c.of].ver, n |-> now[c.of].n]
          /\ ask' = [ask EXCEPT ![u] = [@ EXCEPT !.at = "read", !.ver = now[c.of].ver, !.count = now[c.of].n]]
          /\ tangled' = (tangled \/ Between(u, "read"))
  /\ UNCHANGED <<kind, now, ring, turns, answer, perf>>

ValueIsCopied(u) ==
  LET c == ask[u]
      ok == c.count <= c.room IN
  /\ kind = "value" /\ c.at = "read"
  /\ ask' = [ask EXCEPT ![u] = Idle]
  /\ answer' = [NoAnswer EXCEPT !.ok = ok, !.n = c.count, !.room = c.room, !.wrote = IF ok THEN c.count ELSE 0,
                                !.own = tmp = [of |-> c.of, ver |-> c.ver, n |-> c.count]]
  /\ UNCHANGED <<kind, now, tmp, ring, turns, tangled, perf>>
-----------------------------------------------------------------------------
(* NtQuerySystemInformation of the handles: one pass counts what lives, the  *)
(* other writes it; now[1].n is how much lives.                              *)

CountHandles(u, room) ==
  /\ kind = "handles" /\ ask[u].at = "idle"
  /\ IF room < now[1].n THEN UNCHANGED ask
     ELSE ask' = [ask EXCEPT ![u] = [Idle EXCEPT !.at = "counted", !.room = room, !.ver = now[1].ver, !.count = now[1].n]]
  /\ UNCHANGED <<kind, now, tmp, ring, turns, answer, tangled, perf>>

WriteHandles(u) ==
  LET c == ask[u] IN
  /\ kind = "handles" /\ c.at = "counted"
  /\ ask' = [ask EXCEPT ![u] = Idle]
  /\ answer' = [NoAnswer EXCEPT !.ok = TRUE, !.n = c.count, !.room = c.room, !.wrote = now[1].n, !.fresh = c.ver = now[1].ver]
  /\ tangled' = (tangled \/ c.ver # now[1].ver)
  /\ UNCHANGED <<kind, now, tmp, ring, turns, perf>>
-----------------------------------------------------------------------------
(* Version information: GetFileVersionInfoSize reads the file's block into   *)
(* the one there is, GetFileVersionInfo copies that, whatever file it names. *)

GetFileVersionInfoSize(u, f) ==
  /\ kind = "version" /\ ask[u].at = "idle"
  /\ tmp' = [of |-> f, ver |-> 0, n |-> 1]
  /\ ask' = [t \in Askers |-> IF t = u THEN [Idle EXCEPT !.at = "sized", !.of = f]
                              ELSE IF ask[t].at = "sized" THEN [ask[t] EXCEPT !.apart = FALSE] ELSE ask[t]]
  /\ UNCHANGED <<kind, now, ring, turns, answer, tangled, perf>>

GetFileVersionInfo(u) ==
  /\ kind = "version" /\ ask[u].at = "sized"
  /\ answer' = [NoAnswer EXCEPT !.ok = TRUE, !.own = (~ ask[u].apart \/ tmp.of = ask[u].of)]
  /\ ask' = [ask EXCEPT ![u] = [Idle EXCEPT !.at = "block", !.of = tmp.of]]
  /\ UNCHANGED <<kind, now, tmp, ring, turns, tangled, perf>>

(* VerQueryValueA answers a pointer to the next entry of the ring.           *)
VerQueryValueA(u) ==
  /\ kind = "version" /\ ask[u].at = "block" /\ turns < MaxChanges + NRing
  /\ ring' = [ring EXCEPT ![turns % NRing] = ask[u].of] /\ turns' = turns + 1
  /\ ask' = [ask EXCEPT ![u] = [@ EXCEPT !.at = "text", !.count = turns]]
  /\ UNCHANGED <<kind, now, tmp, answer, tangled, perf>>

UseVersion(u) ==
  /\ kind = "version" /\ ask[u].at = "text"
  /\ answer' = [NoAnswer EXCEPT !.ok = TRUE, !.own = (turns > ask[u].count + NRing \/ ring[ask[u].count % NRing] = ask[u].of)]
  /\ ask' = [ask EXCEPT ![u] = Idle]
  /\ UNCHANGED <<kind, now, tmp, ring, turns, tangled, perf>>

-----------------------------------------------------------------------------
(* Performance data.  An object is a header, definitions of its counters and *)
(* instances, each a record with its name and a block of counters; a buffer   *)
(* is its length and what lies where.                                        *)

Width(title) == IF title \in {784, 668, 680, 952} THEN 4 ELSE 8
Titles(which) ==
  CASE which = "Process"   -> <<784, 668, 680, 952, 184, 186, 188, 684, 142, 144, 190, 192, 194, 196, 198>>
    [] which = "Processor" -> <<6>>
    [] which = "System"    -> <<674>>
(* Where a title's definition says its counter is in the block.              *)
CounterOffset(which, i) == IF which = "System" THEN 0 ELSE FoldLeft(LAMBDA o, t : o + Width(t), 4, SubSeq(Titles(which), 1, i - 1))
NameTable == {2, 6, 142, 144, 184, 186, 188, 190, 192, 194, 196, 198, 230, 238, 668, 674, 680, 684, 784, 952}

Put(b, n, what) == [len |-> b.len + n, at |-> (b.len :> what) @@ b.at]
Aligned(n) == 8 * ((n + 7) \div 8)
Padded(b) == [b EXCEPT !.len = Aligned(@)]

Definitions(b, which) ==
  FoldLeft(LAMBDA c, i : Put(c, 40, [size |-> 40, title |-> Titles(which)[i], offset |-> CounterOffset(which, i)]),
           b, [i \in DOMAIN Titles(which) |-> i])
InstanceRecord(b, name, chars) ==
  LET bytes == 2 * (chars + 1) IN
  Padded(Put(Put(b, 24, [size |-> Aligned(24 + bytes), nameAt |-> 24]), bytes, name))
Counters(b, which, x) == FoldLeft(LAMBDA c, t : Put(c, Width(t), x.val[t]), b, Titles(which))
Block(b, which, x) == Padded(Counters(Put(b, 4, [size |-> IF which = "Process" THEN 112 ELSE 16]), which, x))
Instance(b, which, x) == Block(InstanceRecord(b, x.name, x.chars), which, x)

(* The System object has no instances, its block is not filled up.           *)
Object(which, snap) ==
  LET head == Put([len |-> 0, at |-> <<>>], 64, [def |-> 64 + 40 * Len(Titles(which)), count |-> Len(snap)])
      body == Definitions(head, which) IN
  IF which = "System" THEN Counters(Put(body, 4, [size |-> 8]), which, snap[1])
  ELSE FoldLeft(LAMBDA b, x : Instance(b, which, x), body, snap)

(* The data block's header and the system's name come first; of an object    *)
(* that is not known there is only the header.                               *)
BlobSize(which, snap) == IF which = "none" THEN 104 ELSE 104 + Object(which, snap).len

(* What /proc tells of a process, 0 being Idle.  The second reading of stat  *)
(* takes the resident set for the start time and the start of the code for   *)
(* the resident set.                                                         *)
Told(p) ==
  [name |-> p, chars |-> IF p = 0 THEN 4 ELSE p,
   val |-> [t \in {784, 668, 680, 952, 184, 142, 144} |-> <<p, t>>] @@ [t \in {194, 196, 198} |-> <<>>] @@
           [t \in {684} |-> <<p, "rss">>] @@ [t \in {186, 190} |-> <<p, "code">>] @@ [t \in {188, 192} |-> <<p, "rest">>]]
Cpus == [i \in 1 .. 2 |-> [name |-> i - 1, chars |-> 1, val |-> [t \in {6} |-> <<>>]]]
UpTime == <<[name |-> 0, chars |-> 0, val |-> [t \in {674} |-> <<>>]]>>

(* A query without a buffer, or with the room it was told: the processes are *)
(* listed, then read one by one as far as there is room.  As a bound, only    *)
(* queries of processes overlap others.                                      *)
Leftover == 0 - 1
QueryPerf(u, which, room) ==
  /\ kind = "perf" /\ (\/ ask[u].at = "idle" /\ room \in {0, Leftover}
                       \/ ask[u].at = "told" /\ room = ask[u].room /\ which = ask[u].api)
  /\ \A t \in Askers \ {u} : ask[t].at = "idle" \/ (which = "Process" /\ ask[t].api = "Process")
  /\ ask' = [ask EXCEPT ![u] = [Idle EXCEPT !.at = "listed", !.api = which, !.room = room,
                                            !.ver = IF ask[u].at = "told" THEN ask[u].ver ELSE now[1].ver]]
  /\ scan' = [scan EXCEPT ![u] =
       IF which = "Process" THEN [list |-> SetToSortSeq(alive, <), snap |-> <<Told(0)>>, all |-> alive]
       ELSE [NoScan EXCEPT !.snap = IF which = "Processor" THEN Cpus ELSE UpTime]]
  /\ answer' = NoAnswer
  /\ UNCHANGED <<kind, now, tmp, ring, turns, tangled, alive, arena>>

Unread(s) == s.list # <<>> /\ Len(s.snap) < NInstances
ReadProcess(u) ==
  LET s == scan[u] p == Head(s.list) IN
  /\ ask[u].at = "listed" /\ Unread(s)
  /\ scan' = [scan EXCEPT ![u].list = Tail(@), ![u].snap = IF p \in alive THEN Append(@, Told(p)) ELSE @]
  /\ answer' = NoAnswer
  /\ UNCHANGED <<kind, now, ask, tmp, ring, turns, tangled, alive, arena>>

BuildPerf(u) ==
  /\ ask[u].at = "listed" /\ ~ Unread(scan[u])
  /\ arena' = [which |-> ask[u].api, snap |-> scan[u].snap]
  /\ ask' = [ask EXCEPT ![u] = [@ EXCEPT !.at = "built", !.count = BlobSize(ask[u].api, scan[u].snap)]]
  /\ tangled' = (tangled \/ Between(u, "built"))
  /\ answer' = NoAnswer
  /\ UNCHANGED <<kind, now, tmp, ring, turns, alive, scan>>

(* Asked without a buffer it tells the size, and calls that a success when   *)
(* the guest's size was never set.                                           *)
AnswerPerf(u) ==
  LET c == ask[u] a == PerfQuery(c.count, c.room) IN
  /\ c.at = "built"
  /\ answer' = [NoAnswer EXCEPT !.ok = (c.room = Leftover \/ a.ok), !.api = "Perf", !.n = c.count,
                                !.room = IF c.room = Leftover THEN 0 ELSE c.room,
                                !.wrote = IF c.room = Leftover THEN 0 ELSE a.wrote, !.says = c.count, !.fresh = c.ver = now[1].ver,
                                !.own = c.room <= 0 \/ arena = [which |-> c.api, snap |-> scan[u].snap],
                                !.data = IF c.room > 0 /\ a.ok THEN <<arena, scan[u].all>> ELSE <<>>]
  /\ ask' = [ask EXCEPT ![u] = IF c.room > 0 /\ a.ok THEN Idle ELSE [Idle EXCEPT !.at = "told", !.api = c.api, !.room = c.count, !.ver = c.ver]]
  /\ scan' = [scan EXCEPT ![u] = NoScan]
  /\ UNCHANGED <<kind, now, tmp, ring, turns, tangled, alive, arena>>

(* A process of the host starts or ends.                                     *)
HostChanges(p) ==
  /\ kind = "perf" /\ now[1].ver < MaxChanges /\ now' = [now EXCEPT ![1].ver = @ + 1]
  /\ alive' = IF p \in alive THEN alive \ {p} ELSE alive \cup {p}
  /\ scan' = [u \in Askers |-> [scan[u] EXCEPT !.all = @ \cap alive']]
  /\ answer' = NoAnswer
  /\ UNCHANGED <<kind, ask, tmp, ring, turns, tangled, arena>>

(* The guest, and the walk that 13401-13412 writes to the trace.             *)
NextInstance(b, at) == LET block == at + b.at[at].size IN block + b.at[block].size
InstanceAt(b, k) == FoldLeft(LAMBDA at, i : NextInstance(b, at), b.at[0].def, [i \in 1 .. k - 1 |-> i])
Counter(b, which, at, title) ==
  LET d == CHOOSE i \in DOMAIN Titles(which) : b.at[64 + 40 * (i - 1)].title = title IN
  b.at[at + b.at[at].size + b.at[64 + 40 * (d - 1)].offset]

Next ==
  \/ \E u \in Askers :
       \/ Call(u) \/ \E api \in Apis : Ask(u, api)
       \/ ValueIsRead(u) \/ ValueIsCopied(u) \/ \E i \in Items, room \in 0 .. MaxText : RegGetValue(u, i, room)
       \/ WriteHandles(u) \/ \E room \in 0 .. MaxText : CountHandles(u, room)
       \/ GetFileVersionInfo(u) \/ VerQueryValueA(u) \/ UseVersion(u) \/ \E f \in Items : GetFileVersionInfoSize(u, f)
       \/ ReadProcess(u) \/ BuildPerf(u) \/ AnswerPerf(u)
       \/ \E which \in {"Process", "Processor", "System", "none"} : \E room \in {0, Leftover, ask[u].room} : QueryPerf(u, which, room)
  \/ \E api \in Apis, room \in 0 .. MaxText + 1 : Try(api, room)
  \/ \E i \in Items, n \in 0 .. MaxText : Change(i, n)
  \/ \E p \in Pids : HostChanges(p)

Spec == Init /\ [][Next]_vars
-----------------------------------------------------------------------------
(* No answer is longer than its buffer: but for the two terminators of       *)
(* QueryDosDevice, the name of a desktop, and the handles made between the   *)
(* passes.                                                                   *)
AnswersFitTheirBuffer ==
  answer.wrote <= answer.room \/ (answer.api = "QueryDosDevice" /\ answer.room = 1)
                              \/ answer.api = "GetUserObjectInformation"
                              \/ (kind = "handles" /\ ~ answer.fresh)

(* The room a function has told suffices for the whole answer, as long as    *)
(* that is the same: but for the functions that tell too little.             *)
TheRoomToldSuffices ==
  kind \in {"text", "perf"} /\ answer.fresh /\ answer.api \notin Misjudged /\ answer.room > 0 =>
    answer.ok /\ answer.wrote = (IF kind = "perf" THEN answer.n ELSE Whole(answer.api, answer.n))

(* An answer is the one asked for, of one moment, though it went through a   *)
(* buffer all threads share: unless two of them were at it together.         *)
AnswersAreTheAskers == kind # "text" => answer.own \/ tangled

(* A guest that walks the processes of an answer from record to record meets *)
(* exactly as many as it was told, in order, ends where the object ends, and *)
(* finds each counter of which there is a title where its definition says;   *)
(* it misses no process that lived all the time, unless there are too many.  *)
ProcessesAreAllThere ==
  kind = "perf" /\ answer.data # <<>> /\ ~ tangled =>
    LET got == answer.data[1]
        which == got.which
        b == Object(which, got.snap)
        n == b.at[0].count
        Name(k) == LET at == InstanceAt(b, k) IN b.at[at + b.at[at].nameAt]
    IN which \in {"Process", "Processor"} =>
         /\ 104 + InstanceAt(b, n + 1) = answer.wrote
         /\ \A k \in 1 .. n : \A i \in DOMAIN Titles(which) :
              LET t == Titles(which)[i] IN t \in NameTable /\ Counter(b, which, InstanceAt(b, k), t) = got.snap[k].val[t]
         /\ \A j, k \in 1 .. n : j < k => Name(j) < Name(k)
         /\ which = "Process" =>
              LET met == {Name(k) : k \in 1 .. n} IN
              Name(1) = 0 /\ (n = NInstances \/ answer.data[2] \subseteq met)

AnswersAreWhole == AnswersFitTheirBuffer /\ TheRoomToldSuffices /\ AnswersAreTheAskers /\ ProcessesAreAllThere
=============================================================================
