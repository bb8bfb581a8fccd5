------------------------------ MODULE Processes ------------------------------
(***************************************************************************)
(* Child processes.  A guest's child is a child of the host's that runs    *)
(* the loader again; a slot of a table without a lock notes what waitpid   *)
(* said of it.  Guest threads ask in turn or at once: a call is a few      *)
(* steps, and what it knows between them is in doing.                      *)
(***************************************************************************)
EXTENDS Integers, Sequences, FiniteSets, TLC, SequencesExt, FiniteSetsExt

CONSTANTS
  Guests,       \* threads of the guest
  Lines,        \* command lines, sequences of characters
  NProc,        \* g_mw_processes, 16
  NSpare,       \* slots of g_mw_threads that are free, 64 at most
  Statuses,     \* how children end: <<"exit", n>> or <<signal, 0>>
  MaxChildren,  \* the host's children have numbers 1 .. MaxChildren, none used twice
  MaxProcCalls

VARIABLES
  child,        \* number -> [st, end]: "none", "running", "zombie" or "reaped", and how it ended
  slot,         \* g_mw_processes: [used, done, code, pid]; its id is the number it got, too
  argbuf,       \* whose arguments are in the static buffer of mw_proc_spawn_host
  given,        \* history: number -> whose arguments it got, and who called: <<a, u>>
  handle,       \* h -> [kind, slot, pid, open]; the latter two are history
  spare,        \* thread slots taken by the hThread of a child
  doing,        \* guest -> the call it is in, or Idle
  misled,       \* history: a call has answered what is not so
  asked,        \* history: number -> codes TerminateProcess was given for it
  overlapped,   \* history: two calls of CreateProcess were under way at once
  crossed,      \* history: a handle was closed while another thread used it
  procCalls

vars == <<child, slot, argbuf, given, handle, spare, doing, misled, asked, overlapped, crossed, procCalls>>
-----------------------------------------------------------------------------
(* The command line                                                          *)

Blank(c) == c \in {" ", "\t"}
(* The image is the first word, or what is in quotes at the start.           *)
Trimmed(line) == LET k == SelectInSeq(line, LAMBDA c : ~ Blank(c)) IN IF k = 0 THEN <<>> ELSE SubSeq(line, k, Len(line))
ImageEnd(t) ==
  IF t # <<>> /\ t[1] = "\"" THEN SelectInSeq(Tail(t), LAMBDA c : c = "\"") + 1
  ELSE LET k == SelectInSeq(t, Blank) IN IF k = 0 THEN Len(t) ELSE k - 1
Arguments(line) == LET t == Trimmed(line)  n == ImageEnd(t) IN IF n = 1 /\ t[1] = "\"" THEN <<>> ELSE SubSeq(t, n + 1, Len(t))

(* Words end at a blank; one that starts with a quote ends at the next, and  *)
(* what follows is a new word.  Empty ones are left out.                     *)
Word(s) == IF s.word = <<>> THEN s.all ELSE Append(s.all, s.word)
Step(s, c) ==
  CASE s.in = "gap" /\ Blank(c)     -> s
    [] s.in = "gap" /\ c = "\""     -> [s EXCEPT !.in = "quotes"]
    [] s.in = "gap"                 -> [s EXCEPT !.in = "word", !.word = <<c>>]
    [] \/ s.in = "word" /\ Blank(c)
       \/ s.in = "quotes" /\ c = "\"" -> [in |-> "gap", word |-> <<>>, all |-> Word(s)]
    [] OTHER                        -> [s EXCEPT !.word = Append(@, c)]
Split(text) == Word(FoldLeft(Step, [in |-> "gap", word |-> <<>>, all |-> <<>>], text))

(* The words of a command line: quotes switch, and what is in them belongs   *)
(* to the word; a tidy line has whole words in quotes, none of them empty.   *)
Quoted(line, k) == Cardinality({i \in 1 .. k : line[i] = "\""}) % 2 = 1
Parts(line) ==
  LET gaps == {0, Len(line) + 1} \union {k \in DOMAIN line : Blank(line[k]) /\ ~ Quoted(line, k)}
      next(k) == Min({g \in gaps : g > k})
      starts == SetToSortSeq({k \in gaps : k <= Len(line) /\ next(k) > k + 1}, <) IN
  [i \in DOMAIN starts |-> SelectSeq(SubSeq(line, starts[i] + 1, next(starts[i]) - 1), LAMBDA c : c # "\"")]
Tidy(line) ==
  /\ ~ Quoted(line, Len(line))
  /\ \A k \in DOMAIN line : line[k] = "\"" =>
       IF Quoted(line, k) THEN (k = 1 \/ Blank(line[k - 1])) /\ line[k + 1] # "\"" ELSE k = Len(line) \/ Blank(line[k + 1])
-----------------------------------------------------------------------------
Idle == [at |-> "idle"]
Active == <<"active", 0>>
Asking(u) == doing[u].at = "idle" /\ procCalls < MaxProcCalls /\ procCalls' = procCalls + 1
Go(u, step) == doing' = [doing EXCEPT ![u] = step @@ @]
Silent == UNCHANGED misled
Return(u) == doing' = [doing EXCEPT ![u] = Idle]
Waited(pid) == [child EXCEPT ![pid].st = "reaped"]
New == {h \in DOMAIN child : child[h].st = "none"}

(* The code a host's status becomes; the host keeps eight bits.              *)
Code(end) ==
  CASE end[1] = "exit"    -> <<"exit", end[2] % 256>>
    [] end[1] = "SIGSEGV" -> <<"access violation", 0>>
    [] end[1] = "SIGILL"  -> <<"illegal instruction", 0>>
    [] end[1] = "SIGABRT" -> <<"fatal app exit", 0>>
    [] end[1] = "SIGFPE"  -> <<"float invalid operation", 0>>
    [] end[1] \in {"SIGINT", "SIGTERM"} -> <<"control c exit", 0>>
    [] OTHER              -> <<"stack buffer overrun", 0>>

(* Mutant: the slot is noted as done, and the code left to the next call.    *)
NotedDone(u) ==
  /\ doing[u].at = "done"
  /\ slot' = [slot EXCEPT ![doing[u].slot].done = TRUE] /\ Go(u, [at |-> "after"]) /\ Silent
  /\ UNCHANGED <<child, argbuf, given, handle, spare, asked, overlapped, crossed, procCalls>>

(* CreateProcess: the arguments go through a static buffer into the child;   *)
(* the slot is looked for when the child already runs, and taken later.      *)
CreateProcess(u) ==
  /\ Asking(u) /\ New # {}
  /\ argbuf' = u
  /\ overlapped' = (overlapped \/ \E v \in Guests : doing[v].at \in {"fork", "slot", "store"})
  /\ doing' = [doing EXCEPT ![u] = [at |-> "fork"]] /\ Silent
  /\ UNCHANGED <<child, slot, given, handle, spare, asked, crossed>>
Fork(u) ==
  /\ doing[u].at = "fork" /\ New # {}
  /\ LET pid == Min(New) IN
     /\ child' = [child EXCEPT ![pid].st = "running"]
     /\ given' = [given EXCEPT ![pid] = <<argbuf, u>>]
     /\ Go(u, [at |-> "slot", pid |-> pid]) /\ Silent
  /\ UNCHANGED <<slot, argbuf, handle, spare, asked, overlapped, crossed, procCalls>>
FindSlot(u) ==
  /\ doing[u].at = "slot"
  /\ LET i == SelectInSeq(slot, LAMBDA s : ~ s.used)  pid == doing[u].pid IN
     IF i = 0
     THEN child' = [child EXCEPT ![pid] = [st |-> "reaped", end |-> IF @.st = "running" THEN <<"SIGKILL", 0>> ELSE @.end]] /\ Return(u)
     ELSE Go(u, [at |-> "store", slot |-> i]) /\ UNCHANGED child
  /\ Silent /\ UNCHANGED <<slot, argbuf, given, handle, spare, asked, overlapped, crossed, procCalls>>
(* The thread's handle leads to a slot of a thread that has ended.           *)
StoreSlot(u) ==
  /\ doing[u].at = "store"
  /\ LET i == doing[u].slot  pid == doing[u].pid
         t == {k \in 1 .. NSpare : k \notin spare}
         process == [kind |-> "process", slot |-> i, pid |-> pid, open |-> TRUE] IN
     /\ slot' = [slot EXCEPT ![i] = [used |-> TRUE, done |-> FALSE, code |-> Active, pid |-> pid]]
     /\ IF t = {} THEN handle' = Append(handle, process) /\ UNCHANGED spare
        ELSE /\ handle' = handle \o <<process, [kind |-> "thread", slot |-> Min(t), pid |-> pid, open |-> TRUE]>>
             /\ spare' = spare \union {Min(t)}
  /\ Return(u) /\ Silent
  /\ UNCHANGED <<child, argbuf, given, asked, overlapped, crossed, procCalls>>
-----------------------------------------------------------------------------
(* What is asked of a child: to "wait" for it, its "code", to "close" its    *)
(* handle, or to "end" it with a code.  Calls that look into the same slot   *)
(* at the same time are not alone.                                           *)
InSlot(v, i) == doing[v].at \in {"poll", "done", "code", "gone", "after", "kill", "reap", "note"} /\ doing[v].slot = i
Ask(u, h, op) ==
  /\ Asking(u) /\ handle[h].kind = "process" /\ handle[h].open
  /\ LET i == handle[h].slot  others == {v \in Guests : InSlot(v, i)} IN
     /\ slot[i].used
     /\ doing' = [v \in Guests |-> IF v = u
          THEN [at |-> IF op = "end" THEN "kill" ELSE "poll", op |-> op, slot |-> i, pid |-> handle[h].pid,
                alone |-> others = {}, ended |-> child[handle[h].pid].st # "running", code |-> Active]
          ELSE IF v \in others THEN [doing[v] EXCEPT !.alone = FALSE] ELSE doing[v]]
     /\ crossed' = (crossed \/ (op = "close" /\ others # {}))
  /\ handle' = [handle EXCEPT ![h].open = op # "close"]
  /\ Silent /\ UNCHANGED <<child, slot, argbuf, given, spare, asked, overlapped>>
(* waitpid, which hands the status to one; that one stores it, in two steps. *)
Poll(u) ==
  /\ doing[u].at = "poll"
  /\ LET s == slot[doing[u].slot] IN
     CASE s.done \/ child[s.pid].st = "running" -> Go(u, [at |-> "after"]) /\ UNCHANGED child
       [] ~ s.done /\ child[s.pid].st = "zombie" -> Go(u, [at |-> "done", code |-> Code(child[s.pid].end)]) /\ child' = Waited(s.pid)
       [] OTHER -> Go(u, [at |-> "gone"]) /\ UNCHANGED child
  /\ Silent /\ UNCHANGED <<slot, argbuf, given, handle, spare, asked, overlapped, crossed, procCalls>>
StoreDone(u) ==
  /\ doing[u].at = "done"
  /\ slot' = [slot EXCEPT ![doing[u].slot].done = TRUE] /\ Go(u, [at |-> "code"]) /\ Silent
  /\ UNCHANGED <<child, argbuf, given, handle, spare, asked, overlapped, crossed, procCalls>>
StoreCode(u) ==
  /\ doing[u].at = "code"
  /\ slot' = [slot EXCEPT ![doing[u].slot].code = doing[u].code] /\ Go(u, [at |-> "after"]) /\ Silent
  /\ UNCHANGED <<child, argbuf, given, handle, spare, asked, overlapped, crossed, procCalls>>
(* Somebody else was told: there is no code to store.                        *)
StoreGone(u) ==
  /\ doing[u].at = "gone"
  /\ slot' = [slot EXCEPT ![doing[u].slot].done = TRUE] /\ Go(u, [at |-> "after"]) /\ Silent
  /\ UNCHANGED <<child, argbuf, given, handle, spare, asked, overlapped, crossed, procCalls>>
(* An answer that is wrong: the child has not ended, that is not its code,   *)
(* or who asked alone is not told of the end there was before.               *)
Right(pid) == asked[pid] \union (IF child[pid].st \in {"zombie", "reaped"} THEN {Code(child[pid].end)} ELSE {})
Wrong(d, res) ==
  /\ ~ overlapped /\ ~ crossed
  /\ \/ d.op = "wait" /\ res = <<"ended", 0>> /\ child[d.pid].st = "running"
     \/ d.op = "code" /\ res \notin {Active} \union Right(d.pid)
     \/ d.op \in {"wait", "code"} /\ d.alone /\ d.ended /\ res = Active
Told(u, res) == Return(u) /\ misled' = (misled \/ Wrong(doing[u], res))
Asked(u, op) == doing[u].at = "after" /\ doing[u].op = op
(* A wait may have run out of time when it finds the child running.          *)
WaitEnds(u) ==
  /\ Asked(u, "wait")
  /\ IF slot[doing[u].slot].done THEN Told(u, <<"ended", 0>>)
     ELSE Told(u, Active) \/ (Go(u, [at |-> "poll"]) /\ Silent)
  /\ UNCHANGED <<child, slot, argbuf, given, handle, spare, asked, overlapped, crossed, procCalls>>
GetExitCodeProcess(u) ==
  /\ Asked(u, "code")
  /\ Told(u, IF slot[doing[u].slot].done THEN slot[doing[u].slot].code ELSE Active)
  /\ UNCHANGED <<child, slot, argbuf, given, handle, spare, asked, overlapped, crossed, procCalls>>
(* A slot is free when its handle is closed after the child has ended.       *)
CloseHandle(u) ==
  /\ Asked(u, "close") /\ Told(u, <<"closed", 0>>)
  /\ slot' = [slot EXCEPT ![doing[u].slot].used = ~ slot[doing[u].slot].done]
  /\ UNCHANGED <<child, argbuf, given, handle, spare, asked, overlapped, crossed, procCalls>>

(* TerminateProcess                                                          *)
Kill(u) ==
  /\ doing[u].at = "kill"
  /\ LET s == slot[doing[u].slot] IN
     IF s.done THEN Go(u, [at |-> "note"]) /\ UNCHANGED child
     ELSE /\ child' = [child EXCEPT ![s.pid] = IF @.st = "running" THEN [st |-> "zombie", end |-> <<"SIGKILL", 0>>] ELSE @]
          /\ Go(u, [at |-> "reap"])
  /\ Silent /\ UNCHANGED <<slot, argbuf, given, handle, spare, asked, overlapped, crossed, procCalls>>
Reap(u) ==
  /\ doing[u].at = "reap"
  /\ child' = Waited(slot[doing[u].slot].pid)
  /\ Go(u, [at |-> "note"]) /\ Silent
  /\ UNCHANGED <<slot, argbuf, given, handle, spare, asked, overlapped, crossed, procCalls>>
Note(u, c) ==
  /\ doing[u].at = "note"
  /\ slot' = [slot EXCEPT ![doing[u].slot].done = TRUE, ![doing[u].slot].code = c]
  /\ asked' = [asked EXCEPT ![doing[u].pid] = @ \union {c}]
  /\ Return(u) /\ Silent
  /\ UNCHANGED <<child, argbuf, given, handle, spare, overlapped, crossed, procCalls>>

(* The handle of a child's thread: waiting for it answers at once.           *)
CloseThread(u, h) ==
  /\ Asking(u) /\ handle[h].kind = "thread" /\ handle[h].open
  /\ spare' = spare \ {handle[h].slot} /\ handle' = [handle EXCEPT ![h].open = FALSE]
  /\ Silent /\ UNCHANGED <<child, slot, argbuf, given, doing, asked, overlapped, crossed>>
(* The host's side of a child.                                               *)
Exit(pid, end) ==
  /\ child[pid].st = "running" /\ child' = [child EXCEPT ![pid] = [st |-> "zombie", end |-> end]]
  /\ Silent /\ UNCHANGED <<slot, argbuf, given, handle, spare, doing, asked, overlapped, crossed, procCalls>>

NoGuest == CHOOSE u \in Guests : TRUE
Init ==
  /\ child = [p \in 1 .. MaxChildren |-> [st |-> "none", end |-> Active]]
  /\ slot = [i \in 1 .. NProc |-> [used |-> FALSE, done |-> FALSE, code |-> Active, pid |-> 0]]
  /\ argbuf = NoGuest /\ given = [p \in 1 .. MaxChildren |-> <<NoGuest, NoGuest>>]
  /\ handle = <<>> /\ spare = {} /\ doing = [u \in Guests |-> Idle] /\ misled = FALSE
  /\ asked = [p \in 1 .. MaxChildren |-> {}] /\ overlapped = FALSE /\ crossed = FALSE /\ procCalls = 0
Next ==
  \/ \E u \in Guests :
       \/ CreateProcess(u) \/ Fork(u) \/ FindSlot(u) \/ StoreSlot(u)
       \/ Poll(u) \/ StoreDone(u) \/ StoreCode(u) \/ StoreGone(u)
       \/ WaitEnds(u) \/ GetExitCodeProcess(u) \/ CloseHandle(u)
       \/ Kill(u) \/ Reap(u) \/ Note(u, <<"exit", 7>>)
       \/ \E h \in DOMAIN handle : CloseThread(u, h) \/ \E op \in {"wait", "code", "close", "end"} : Ask(u, h, op)
  \/ \E pid \in DOMAIN child, end \in Statuses : Exit(pid, end)
Spec == Init /\ [][Next]_vars
-----------------------------------------------------------------------------
(* A child starts with the arguments its creator gave, and its handle leads  *)
(* to it, as long as no two are created at once; nothing says of a child     *)
(* that it has ended while it runs, nor gives another's code; who asks alone *)
(* after it has ended is told the code.  A closed handle does not take a     *)
(* child away from who has another; slots stay with one child.               *)
ChildrenAreTheirOwn ==
  /\ \A p \in DOMAIN child : child[p].st # "none" /\ ~ overlapped => given[p][1] = given[p][2]
  /\ ~ overlapped /\ ~ crossed => \A h \in DOMAIN handle : handle[h].open =>
       IF handle[h].kind = "thread" THEN handle[h].slot \in spare
       ELSE slot[handle[h].slot].used /\ slot[handle[h].slot].pid = handle[h].pid
  /\ ~ misled
  /\ \A i \in DOMAIN slot : slot[i].used /\ slot[i].done /\ ~ overlapped /\ ~ crossed => child[slot[i].pid].st # "running"
  /\ procCalls = 0 => \A line \in Lines : Tidy(line) => Split(Arguments(line)) = (LET all == Parts(line) IN IF all = <<>> THEN <<>> ELSE Tail(all))
=============================================================================
