------------------------------- MODULE Commons -------------------------------
(***************************************************************************)
(* What the threads of a guest have in common (loader.c): atoms            *)
(* (9600-9651), the blocks that CoTaskMemAlloc and two IMalloc objects own *)
(* (14272-14390, 14612-14629, 33214-33229, 41786-41850), a table of exit   *)
(* functions (5728-5797), the clipboard (14092-14129) and named pipes      *)
(* (31680-31778).  None of it is locked: where a function reads, decides   *)
(* and writes, the writing is a step of its own.  common is the one a      *)
(* behaviour is about.                                                     *)
(***************************************************************************)
EXTENDS Integers, Sequences, FiniteSets, SequencesExt, FiniteSetsExt

CONSTANTS
  Users,           \* threads
  AtomNames,       \* names of atoms
  NAtoms,          \* MW_ATOM_MAX, 1024
  MaxRefs,         \* 0xFFFFFFFF
  NBlocks,         \* addresses malloc has
  FirstExits,      \* 4, the first size of a table of exit functions
  ClipFormats,     \* clipboard formats
  PipeNames,       \* sequences: <<"pipe", "a">> is \\.\pipe\a, <<"a">> is a
  NPipes,          \* MW_PIPE_MAX, 256
  MaxCommonCalls   \* bounds the calls

VARIABLES
  common,      \* "atoms", "memory", "exits", "clipboard" or "pipes"
  atom,        \* g_atoms: [name, refs], Hole
  atomCount,   \* g_atom_count
  atomHeld,    \* history: name -> [n, at]: adds not deleted, and the atom they got
  block,       \* "free", "task" or "foreign": what malloc has at an address
  tracked,     \* g_cotask_owned, the addresses in it
  untold,      \* history: task blocks there was no node for
  broken,      \* history: addresses freed that were no task block
  exit,        \* a table: [fns, cap]
  due, ran,    \* history: the functions there were as it was run, those called
  clip,        \* [open, fmt, data, seq]
  seen,        \* history: what GetClipboardData has found, by sequence number
  pipe,        \* g_pipes: [name, state, clients, shut]; the last two are history
  quit,        \* g_quit_flag
  job,         \* what each thread is in the middle of
  clouded,     \* history: names, addresses, formats and pipes two threads were at
  commonCalls

vars == <<common, atom, atomCount, atomHeld, block, tracked, untold, broken, exit, due, ran, clip, seen, pipe, quit, job, clouded, commonCalls>>
atomVars == <<atom, atomCount, atomHeld>>
memVars == <<block, tracked, untold, broken>>
exitVars == <<exit, due, ran>>
clipVars == <<clip, seen>>
pipeVars == <<pipe, quit>>

Hole == [name |-> "NULL", refs |-> 0]
Idle == [op |-> "idle"]
Commons == {"atoms", "memory", "exits", "clipboard", "pipes"}
Address == 1 .. NBlocks

Init ==
  /\ common \in Commons
  /\ atom = [i \in 1 .. NAtoms |-> Hole] /\ atomCount = 0 /\ atomHeld = [w \in AtomNames |-> [n |-> 0, at |-> 0]]
  /\ block = [a \in Address |-> "free"] /\ tracked = {} /\ untold = {} /\ broken = {}
  /\ exit = [fns |-> <<>>, cap |-> 0] /\ due = <<>> /\ ran = <<>>
  /\ clip = [open |-> FALSE, fmt |-> 0, data |-> 0, seq |-> 0] /\ seen = <<>>
  /\ pipe = <<>> /\ quit = FALSE
  /\ job = [u \in Users |-> Idle] /\ clouded = {} /\ commonCalls = 0

(* u, which is at nothing else, makes a call.                                *)
Calls(u, c) ==
  /\ common = c /\ job[u] = Idle /\ commonCalls < MaxCommonCalls
  /\ commonCalls' = commonCalls + 1 /\ UNCHANGED common
Goes(u, j) == job' = [job EXCEPT ![u] = j]
Others(u) == {v \in Users \ {u} : job[v] # Idle}
-----------------------------------------------------------------------------
(* Atoms: mw_atom_find, mw_atom_hole                                         *)

Named(w) == {i \in 1 .. atomCount : atom[i].name = w}
SlotOf(w) == IF Named(w) # {} THEN Min(Named(w)) ELSE IF Named("NULL") # {} THEN Min(Named("NULL")) ELSE atomCount + 1

(* GlobalAddAtom, AddAtom: the name's entry counts one more, up to MaxRefs;  *)
(* or it gets a hole, or the entry after those the thread has counted, which *)
(* becomes the last; or there is no room.                                    *)
AddAtom(u, w) ==
  LET i == SlotOf(w) IN
  /\ Calls(u, "atoms")
  /\ IF Named(w) # {} THEN Goes(u, [op |-> "ref", slot |-> i, name |-> w, refs |-> Min({atom[i].refs + 1, MaxRefs}), by |-> 1])
     ELSE IF i <= NAtoms THEN Goes(u, [op |-> IF i > atomCount THEN "grow" ELSE "name", slot |-> i, name |-> w, refs |-> 1, by |-> 1])
     ELSE UNCHANGED job
  /\ UNCHANGED <<atomVars, memVars, exitVars, clipVars, pipeVars, clouded>>

(* GlobalDeleteAtom of an atom that is held.                                 *)
DeleteAtom(u, i) ==
  /\ Calls(u, "atoms") /\ i <= atomCount
  /\ atom[i].name # "NULL" /\ atomHeld[atom[i].name].n > 0
  /\ Goes(u, [op |-> "ref", slot |-> i, name |-> atom[i].name, refs |-> atom[i].refs - 1, by |-> -1])
  /\ UNCHANGED <<atomVars, memVars, exitVars, clipVars, pipeVars, clouded>>

Entry(j) == IF j.refs = 0 THEN Hole ELSE [name |-> j.name, refs |-> j.refs]
(* The names of another thread's job with the same entry or name, those past *)
(* the entry that a thread makes the last one, and counts stuck at MaxRefs.  *)
Confused(u) ==
  LET grows == job[u].op = "grow"
      near == {v \in Others(u) : job[v].slot = job[u].slot \/ job[v].name = job[u].name \/ (grows /\ job[v].slot > job[u].slot)}
      cut == IF grows THEN {atom[i].name : i \in job[u].slot .. atomCount} ELSE {}
  IN {job[v].name : v \in near} \cup cut \cup (IF near # {} \/ cut # {} \/ job[u].refs = MaxRefs THEN {job[u].name} ELSE {})

StoreAtom(u) ==
  LET j == job[u]  i == j.slot IN
  /\ common = "atoms" /\ j # Idle
  /\ atom' = [atom EXCEPT ![i] = IF j.op # "ref" \/ j.refs = 0 THEN Entry(j) ELSE [@ EXCEPT !.refs = j.refs]]
  /\ atomCount' = IF j.op = "grow" THEN i ELSE atomCount
  /\ atomHeld' = [atomHeld EXCEPT ![j.name] = [n |-> @.n + j.by, at |-> IF j.by = 1 THEN i ELSE @.at]]
  /\ clouded' = clouded \cup Confused(u) /\ Goes(u, Idle)
  /\ UNCHANGED <<common, memVars, exitVars, clipVars, pipeVars, commonCalls>>
-----------------------------------------------------------------------------
(* Task memory.  A block is free for malloc to hand out as soon as free or   *)
(* realloc has let go of it, tracked or not.                                 *)

Free == {a \in Address : block[a] = "free"}
(* Addresses that a realloc has left and not yet untracked.                  *)
Leaving == {job[v].from : v \in {v \in Users : job[v].op = "move"}}

(* mw_cotask_track: an address that is tracked stays so; without memory for  *)
(* a node the block is not tracked.                                          *)
Track(set, a, node) == IF node THEN set \cup {a} ELSE set
Untold(a, node) == IF node \/ a \in tracked THEN untold \ {a} ELSE untold \cup {a}

(* CoTaskMemAlloc, IMalloc::Alloc, and CoTaskMemRealloc, which leaves the    *)
(* block it was given as it is.                                              *)
TaskAlloc(u, a, node) ==
  /\ Calls(u, "memory") /\ a \in Free
  /\ block' = [block EXCEPT ![a] = "task"] /\ tracked' = Track(tracked, a, node) /\ untold' = Untold(a, node)
  /\ clouded' = clouded \cup ({a} \cap Leaving)
  /\ UNCHANGED <<atomVars, broken, exitVars, clipVars, pipeVars, job>>

(* Memory the guest has from elsewhere.                                      *)
ForeignMemory(u, a) ==
  /\ Calls(u, "memory") /\ block[a] \in {"free", "foreign"}
  /\ block' = [block EXCEPT ![a] = IF @ = "free" THEN "foreign" ELSE "free"]
  /\ clouded' = clouded \cup ({a} \cap Leaving)
  /\ UNCHANGED <<atomVars, tracked, untold, broken, exitVars, clipVars, pipeVars, job>>

(* CoTaskMemFree, IMalloc::Free, and IMalloc::Realloc to nothing, of any     *)
(* pointer: the ones not tracked are refused.                                *)
TaskFree(u, a) ==
  /\ Calls(u, "memory") /\ a \in tracked
  /\ tracked' = tracked \ {a} /\ block' = [block EXCEPT ![a] = "free"] /\ untold' = untold \ {a}
  /\ broken' = IF block[a] = "task" THEN broken ELSE broken \cup {a}
  /\ clouded' = clouded \cup ({a} \cap Leaving)
  /\ UNCHANGED <<atomVars, exitVars, clipVars, pipeVars, job>>

(* IMalloc::Realloc of a tracked block: the block moves, or stays, or there  *)
(* is no memory and all is as it was; then the old address is untracked and  *)
(* the new one tracked.                                                      *)
TaskRealloc(u, a, b) ==
  /\ Calls(u, "memory") /\ a \in tracked /\ block[a] = "task" /\ b \in Free \cup {a}
  /\ block' = [[block EXCEPT ![a] = "free"] EXCEPT ![b] = "task"]
  /\ clouded' = clouded \cup ({a, b} \cap Leaving)
  /\ Goes(u, [op |-> "move", from |-> a, to |-> b])
  /\ UNCHANGED <<atomVars, tracked, untold, broken, exitVars, clipVars, pipeVars>>

TaskRetrack(u, node) ==
  LET j == job[u] IN
  /\ common = "memory" /\ j # Idle
  /\ tracked' = Track(tracked \ {j.from}, j.to, node)
  /\ untold' = IF node \/ j.to \in tracked \ {j.from} THEN untold \ {j.from, j.to} ELSE (untold \ {j.from}) \cup {j.to}
  /\ Goes(u, Idle)
  /\ UNCHANGED <<common, atomVars, block, broken, exitVars, clipVars, pipeVars, clouded, commonCalls>>
-----------------------------------------------------------------------------
(* A table of exit functions, which are numbered as they are registered.     *)

Running == \E u \in Users : job[u].op = "run"
(* Once a table has moved as it was run, it is left pointing to memory that  *)
(* is free, and is not followed.                                             *)
Followed == Running \/ "exits" \notin clouded

(* _register_onexit_function: a table that is full doubles, and may move.    *)
(* Functions that are called from the table register others, too.            *)
RegisterExit(u, moves) ==
  LET full == Len(exit.fns) = exit.cap IN
  /\ common = "exits" /\ Followed /\ (Running => job[u].op = "run" /\ ran # <<>>)
  /\ commonCalls < MaxCommonCalls /\ commonCalls' = commonCalls + 1
  /\ moves => full
  /\ exit' = [fns |-> Append(exit.fns, commonCalls'),
              cap |-> IF ~ full THEN exit.cap ELSE IF exit.cap = 0 THEN FirstExits ELSE 2 * exit.cap]
  /\ clouded' = IF moves /\ Running THEN clouded \cup {"exits"} ELSE clouded
  /\ UNCHANGED <<common, atomVars, memVars, due, ran, clipVars, pipeVars, job>>

(* _execute_onexit_table: from the last of the functions it finds to the     *)
(* first; then the table is empty, whatever was registered meanwhile.        *)
RunExits(u) ==
  /\ Calls(u, "exits") /\ Followed /\ ~ Running
  /\ due' = exit.fns /\ ran' = <<>> /\ Goes(u, [op |-> "run", at |-> Len(exit.fns)])
  /\ UNCHANGED <<atomVars, memVars, exit, clipVars, pipeVars, clouded>>

CallExit(u) ==
  /\ job[u].op = "run" /\ job[u].at > 0
  /\ ran' = Append(ran, exit.fns[job[u].at]) /\ Goes(u, [job[u] EXCEPT !.at = @ - 1])
  /\ UNCHANGED <<common, atomVars, memVars, exit, due, clipVars, pipeVars, clouded, commonCalls>>

ExitsRan(u) ==
  /\ job[u].op = "run" /\ job[u].at = 0
  /\ exit' = [exit EXCEPT !.fns = <<>>] /\ Goes(u, Idle)
  /\ UNCHANGED <<common, atomVars, memVars, due, ran, clipVars, pipeVars, clouded, commonCalls>>
-----------------------------------------------------------------------------
(* The clipboard                                                             *)

(* OpenClipboard succeeds whoever has it open.                               *)
OpenOrCloseClipboard(u, open) ==
  /\ Calls(u, "clipboard") /\ clip.open # open
  /\ clip' = [clip EXCEPT !.open = open]
  /\ UNCHANGED <<atomVars, memVars, exitVars, seen, pipeVars, job, clouded>>

Setting == {v \in Users : job[v].op = "set"}
(* EmptyClipboard, open or not.                                              *)
EmptyClipboard(u) ==
  /\ Calls(u, "clipboard")
  /\ clip' = [clip EXCEPT !.fmt = 0, !.data = 0, !.seq = @ + 1]
  /\ clouded' = IF Setting = {} THEN clouded ELSE clouded \cup {"clipboard"}
  /\ UNCHANGED <<atomVars, memVars, exitVars, seen, pipeVars, job>>

(* SetClipboardData: the format, then the data and the number.               *)
SetClipboardData(u, f) ==
  /\ Calls(u, "clipboard") /\ clip.open
  /\ clip' = [clip EXCEPT !.fmt = f] /\ Goes(u, [op |-> "set", data |-> commonCalls', fmt |-> f])
  /\ clouded' = IF Setting = {} THEN clouded ELSE clouded \cup {"clipboard"}
  /\ UNCHANGED <<atomVars, memVars, exitVars, seen, pipeVars>>
StoreClipboardData(u) ==
  /\ job[u].op = "set"
  /\ clip' = [clip EXCEPT !.data = job[u].data, !.seq = @ + 1] /\ Goes(u, Idle)
  /\ UNCHANGED <<common, atomVars, memVars, exitVars, seen, pipeVars, clouded, commonCalls>>

(* GetClipboardData, IsClipboardFormatAvailable: what there is, or nothing.   *)
GetClipboardData(u) ==
  /\ Calls(u, "clipboard") /\ clip.open
  /\ seen' = Append(seen, [seq |-> clip.seq, fmt |-> clip.fmt, data |-> clip.data])
  /\ clouded' = IF Setting = {} THEN clouded ELSE clouded \cup {"clipboard"}
  /\ UNCHANGED <<atomVars, memVars, exitVars, clip, pipeVars, job>>
-----------------------------------------------------------------------------
(* Named pipes                                                               *)

(* CreateNamedPipe: one instance more, under the name as it was given.       *)
CreateNamedPipe(u, name) ==
  /\ Calls(u, "pipes") /\ Len(pipe) < NPipes
  /\ pipe' = Append(pipe, [name |-> name, state |-> "listening", clients |-> 0, shut |-> FALSE])
  /\ UNCHANGED <<atomVars, memVars, exitVars, clipVars, quit, job, clouded>>

(* CreateFile of a path \\.\pipe\...: the first instance that listens under  *)
(* the name without that prefix, or none.                                    *)
Listening(path) == {i \in DOMAIN pipe : pipe[i].state = "listening" /\ pipe[i].name = Tail(path)}
OpenPipe(u, path) ==
  /\ Calls(u, "pipes") /\ Head(path) = "pipe"
  /\ IF Listening(path) = {} THEN UNCHANGED job ELSE Goes(u, [op |-> "attach", to |-> Min(Listening(path))])
  /\ UNCHANGED <<atomVars, memVars, exitVars, clipVars, pipeVars, clouded>>

AttachPipe(u) ==
  LET i == job[u].to IN
  /\ job[u].op = "attach"
  /\ pipe' = [pipe EXCEPT ![i].state = "connected", ![i].clients = @ + 1]
  /\ clouded' = IF pipe[i].shut \/ \E v \in Others(u) : job[v].op = "attach" /\ job[v].to = i THEN clouded \cup {i} ELSE clouded
  /\ Goes(u, Idle)
  /\ UNCHANGED <<common, atomVars, memVars, exitVars, clipVars, quit, commonCalls>>

(* ConnectNamedPipe: there is a client already, or the instance is shut, or  *)
(* the thread looks every 20 ms whether there is one, until the guest quits. *)
ConnectNamedPipe(u, i) ==
  /\ Calls(u, "pipes") /\ i \in DOMAIN pipe
  /\ IF pipe[i].state = "listening" THEN Goes(u, [op |-> "park", to |-> i]) ELSE UNCHANGED job
  /\ UNCHANGED <<atomVars, memVars, exitVars, clipVars, pipeVars, clouded>>

PipeConnects(u) ==
  /\ job[u].op = "park" /\ (quit \/ pipe[job[u].to].state = "connected")
  /\ Goes(u, Idle)
  /\ UNCHANGED <<common, atomVars, memVars, exitVars, clipVars, pipeVars, clouded, commonCalls>>

DisconnectNamedPipe(u, i) ==
  /\ Calls(u, "pipes") /\ i \in DOMAIN pipe
  /\ pipe' = [pipe EXCEPT ![i].state = "disconnected", ![i].shut = TRUE]
  /\ UNCHANGED <<atomVars, memVars, exitVars, clipVars, quit, job, clouded>>

PostQuit(u) ==
  /\ Calls(u, "pipes") /\ ~ quit /\ quit' = TRUE
  /\ UNCHANGED <<atomVars, memVars, exitVars, clipVars, pipe, job, clouded>>

Next ==
  \E u \in Users :
    \/ \E w \in AtomNames : AddAtom(u, w)
    \/ (\E i \in 1 .. NAtoms : DeleteAtom(u, i)) \/ StoreAtom(u)
    \/ \E a \in Address : ForeignMemory(u, a) \/ TaskFree(u, a) \/ (\E n \in BOOLEAN : TaskAlloc(u, a, n)) \/ (\E b \in Address : TaskRealloc(u, a, b))
    \/ \E b \in BOOLEAN : TaskRetrack(u, b) \/ RegisterExit(u, b) \/ OpenOrCloseClipboard(u, b)
    \/ RunExits(u) \/ CallExit(u) \/ ExitsRan(u)
    \/ EmptyClipboard(u) \/ StoreClipboardData(u) \/ GetClipboardData(u) \/ (\E f \in ClipFormats : SetClipboardData(u, f))
    \/ \E n \in PipeNames : CreateNamedPipe(u, n) \/ OpenPipe(u, n)
    \/ AttachPipe(u) \/ PipeConnects(u) \/ PostQuit(u)
    \/ \E i \in 1 .. NPipes : ConnectNamedPipe(u, i) \/ DisconnectNamedPipe(u, i)

Spec == Init /\ [][Next]_vars
-----------------------------------------------------------------------------
(* A name that is held has one atom, the one its adders got, and as many     *)
(* references as they took; one that is not held has none.                   *)
AtomsAreHeld ==
  \A w \in AtomNames \ clouded :
    IF atomHeld[w].n = 0 THEN Named(w) = {}
    ELSE Named(w) = {atomHeld[w].at} /\ atom[atomHeld[w].at].refs = atomHeld[w].n

(* Only blocks that are the engine's are tracked, all of them that there     *)
(* was a node for are, and nothing else is ever freed through the            *)
(* allocators, unless its address was reused within a Realloc.               *)
TaskMemoryIsOwned ==
  /\ \A a \in tracked \ (clouded \cup Leaving) : block[a] = "task"
  /\ \A a \in Address \ (clouded \cup untold \cup tracked) : block[a] = "task" => \E u \in Users : job[u].op = "move" /\ job[u].to = a
  /\ broken \subseteq clouded

(* The functions that a table had as it was run are called once each, the    *)
(* last registered first, unless one of them made the table move.            *)
ExitsRunBackwards ==
  "exits" \in clouded \/ IsPrefix(ran, Reverse(due))

(* Two readings of the clipboard with one sequence number are of one         *)
(* content, unless data was being set.                                       *)
ClipboardIsNumbered ==
  "clipboard" \in clouded \/ \A r, s \in Range(seen) : r.seq = s.seq => r = s

(* An instance is connected from its one client on and until it is shut.     *)
PipesHaveOneClient ==
  \A i \in DOMAIN pipe \ clouded :
    /\ pipe[i].clients <= 1
    /\ pipe[i].state = (IF pipe[i].shut THEN "disconnected" ELSE IF pipe[i].clients = 1 THEN "connected" ELSE "listening")

CommonsAreKept ==
  /\ common = "atoms" => AtomsAreHeld
  /\ common = "memory" => TaskMemoryIsOwned
  /\ common = "exits" => ExitsRunBackwards
  /\ common = "clipboard" => ClipboardIsNumbered
  /\ common = "pipes" => PipesHaveOneClient
=============================================================================
