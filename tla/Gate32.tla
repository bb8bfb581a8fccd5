------------------------------- MODULE Gate32 -------------------------------
(***************************************************************************)
(* Where 32-bit guest code meets the loader: the table of API thunks, the  *)
(* gate behind them, callbacks into the guest, and i386 exceptions         *)
(* (loader.c 48138-48273, 49377-49389, 49787-50080, 51568-51821,           *)
(* 52017-52062, 52178-52238).                                              *)
(*                                                                         *)
(* The interpreter (module Alu32) is a loop inside the loader.  A callback *)
(* or an exception handler is run by a loop inside that loop, which ends   *)
(* when the guest returns to a reserved address; host is the stack of      *)
(* these loops.  The guest has frames: on the main stack, and on one stack *)
(* for callbacks which every callback enters at its top.  mem[s][d] is the *)
(* frame that last wrote at depth d of stack s.                            *)
(*                                                                         *)
(* One thread.  Left out: ExitProcess, which ends the process in the host  *)
(* function, and names looked up with GetProcAddress, which get thunks as  *)
(* imports do.                                                             *)
(***************************************************************************)
EXTENDS Integers, Sequences, SequencesExt, FiniteSets

CONSTANTS
  ImportList, \* the program's imports: a sequence of [dll, name]
  Crt,        \* DLLs whose functions are cdecl
  RegParm,    \* functions with their arguments in registers
  Arity,      \* the table of stdcall functions: [name -> bytes to pop]
  Host32,     \* functions the loader implements
  MaxDepth,   \* BOUND: depth of a guest stack
  MaxFrame,   \* BOUND: frames ever made
  MaxHost     \* BOUND: loops inside one another

VARIABLES
  slots,   \* g_api32_slots
  bound,   \* the import cells: an index into slots each
  esp,     \* t_cpu32: the stack ESP is on, its depth, and the frame that runs
  mem,     \* the guest's stacks
  chain,   \* FS:[0]: registered handlers, innermost last: [frame, stk, sp]
  host,    \* the loops, outermost first
  frames,  \* history: frames made: [level: the loop that runs it, base: returns to that loop]
  strange  \* history: what has happened of: nested, continued, far, caught, mistaken

gateVars == <<slots, bound, esp, mem, chain, host, frames, strange>>
tableVars == <<slots, bound>>
-----------------------------------------------------------------------------
(* The thunks                                                                *)

Unresolved == 0 - 1
Default32  == 32

SlotOf(dll, name) ==
  IF name \notin Host32 THEN [name |-> name, arity |-> Unresolved, cdecl |-> FALSE]
  ELSE IF name \in RegParm THEN [name |-> name, arity |-> 0, cdecl |-> FALSE]
  ELSE IF name \in DOMAIN Arity
         THEN [name |-> name, arity |-> Arity[name], cdecl |-> Arity[name] = 0 /\ dll \in Crt]
  ELSE IF dll \in Crt THEN [name |-> name, arity |-> 0, cdecl |-> TRUE]
  ELSE [name |-> name, arity |-> Default32, cdecl |-> FALSE]

SlotIndex(name) == CHOOSE i \in DOMAIN slots : slots[i].name = name

(* mw32_api_thunk for the next import: one thunk for a name, made for the    *)
(* DLL that asked first.                                                     *)
BindImport32 ==
  /\ Len(bound) < Len(ImportList)
  /\ LET imp == ImportList[Len(bound) + 1]
     IN  IF \E i \in DOMAIN slots : slots[i].name = imp.name
           THEN bound' = Append(bound, SlotIndex(imp.name)) /\ UNCHANGED slots
           ELSE /\ slots' = Append(slots, SlotOf(imp.dll, imp.name))
                /\ bound' = Append(bound, Len(slots) + 1)
  /\ UNCHANGED <<esp, mem, chain, host, frames, strange>>

(* What the gate pops: the bytes of the slot, 32 for an unresolved function, *)
(* nothing for cdecl.                                                        *)
Popped32(slot) == IF slot.arity = Unresolved THEN 32 ELSE IF slot.cdecl THEN 0 ELSE slot.arity
-----------------------------------------------------------------------------
(* Guest frames                                                              *)

NoFrame == 0

Init ==
  /\ slots = <<>> /\ bound = <<>>
  /\ esp = [stk |-> "main", sp |-> 1, frame |-> 1]
  /\ mem = [s \in {"main", "callbacks"} |-> [d \in 1..MaxDepth |-> IF s = "main" /\ d = 1 THEN 1 ELSE NoFrame]]
  /\ chain = <<>> /\ host = <<>>
  /\ frames = <<[level |-> 0, base |-> TRUE]>>
  /\ strange = {}

(* Once a frame that has been overwritten runs, anything may happen: the     *)
(* model stops there.                                                        *)
Resumed == mem[esp.stk][esp.sp] = esp.frame
Running == Len(bound) = Len(ImportList) /\ Resumed
Fresh   == Len(frames) + 1
MayGrow == Len(frames) < MaxFrame
Enters(s, d, base, level) ==
  /\ esp' = [stk |-> s, sp |-> d, frame |-> Fresh]
  /\ mem' = [mem EXCEPT ![s][d] = Fresh]
  /\ frames' = Append(frames, [level |-> level, base |-> base])

GuestCall ==
  /\ Running /\ MayGrow /\ esp.sp < MaxDepth
  /\ Enters(esp.stk, esp.sp + 1, FALSE, Len(host))
  /\ UNCHANGED <<tableVars, chain, host, strange>>

(* push handler, push FS:[0], mov FS:[0], esp                                *)
GuestTry ==
  /\ Running /\ ~ \E i \in DOMAIN chain : chain[i].frame = esp.frame
  /\ chain' = Append(chain, [frame |-> esp.frame, stk |-> esp.stk, sp |-> esp.sp])
  /\ UNCHANGED <<tableVars, esp, mem, host, frames, strange>>

Deregistered == IF chain # <<>> /\ Last(chain).frame = esp.frame THEN Front(chain) ELSE chain

(* A function that a guest function called returns to what is on the stack.  *)
GuestRet ==
  /\ Running /\ ~ frames[esp.frame].base /\ esp.sp > 1
  /\ chain' = Deregistered
  /\ esp' = [esp EXCEPT !.sp = @ - 1, !.frame = mem[esp.stk][esp.sp - 1]]
  /\ UNCHANGED <<tableVars, mem, host, frames, strange>>
-----------------------------------------------------------------------------
(* Callbacks: an API function runs guest code before it returns.             *)

Callbacks == {i \in DOMAIN host : host[i].kind = "callback"}

(* Mutant: the registers of the caller are not kept.                         *)
Cpu32CallForgets ==
  /\ Running /\ MayGrow /\ Len(host) < MaxHost
  /\ host' = Append(host, [kind |-> "callback", save |-> [esp EXCEPT !.sp = 1], node |-> 0, target |-> 0])
  /\ Enters("callbacks", 1, TRUE, Len(host) + 1)
  /\ strange' = strange \cup (IF Callbacks # {} THEN {"nested"} ELSE {})
  /\ UNCHANGED <<tableVars, chain>>

Cpu32Call ==
  /\ Running /\ MayGrow /\ Len(host) < MaxHost
  /\ host' = Append(host, [kind |-> "callback", save |-> esp, node |-> 0, target |-> 0])
  /\ Enters("callbacks", 1, TRUE, Len(host) + 1)
  /\ strange' = strange \cup (IF Callbacks # {} THEN {"nested"} ELSE {})
  /\ UNCHANGED <<tableVars, chain>>

(* A base frame returns to the reserved address, and the innermost loop ends,*)
(* whichever that is.                                                        *)
AtSentinel(kind) == Running /\ frames[esp.frame].base /\ host # <<>> /\ Last(host).kind = kind

CallbackReturns ==
  /\ AtSentinel("callback")
  /\ chain' = Deregistered
  /\ esp' = Last(host).save
  /\ host' = Front(host)
  /\ UNCHANGED <<tableVars, mem, frames, strange>>
-----------------------------------------------------------------------------
(* Exceptions                                                                *)

(* The innermost handler runs above ESP, in a loop of its own.               *)
RaiseException32 ==
  /\ Running /\ MayGrow /\ Len(host) < MaxHost /\ chain # <<>> /\ esp.sp < MaxDepth
  /\ host' = Append(host, [kind |-> "raise", save |-> esp, node |-> Len(chain), target |-> 0])
  /\ Enters(esp.stk, esp.sp + 1, TRUE, Len(host) + 1)
  /\ UNCHANGED <<tableVars, chain, strange>>

(* A handler, with what it registered itself off the chain, may answer.      *)
Asking == AtSentinel("raise") /\ Last(host).target = 0 /\ Deregistered = chain

(* ContinueSearch (1): the next node outwards, entered at the level of the   *)
(* node just asked; at the end of the chain the process dies.                *)
ContinueSearch ==
  /\ Asking /\ MayGrow /\ Last(host).node > 1
  /\ LET h == Last(host)  n == h.node
     IN  /\ chain[n].sp < MaxDepth
         /\ host' = [host EXCEPT ![Len(host)].node = n - 1]
         /\ Enters(chain[n].stk, chain[n].sp + 1, TRUE, Len(host))
         /\ strange' = strange \cup (IF n < Len(chain) THEN {"far"} ELSE {})
  /\ UNCHANGED <<tableVars, chain>>

(* ContinueExecution (0): the thrower goes on, with ESP at the node.  In a   *)
(* callback the flag that says so is reset (cpu32_call), the callback is     *)
(* abandoned, and its API returns to its caller.                             *)
ContinueExecution ==
  /\ Asking
  /\ LET h == Last(host)  below == {i \in Callbacks : i < Len(host)}
         at == [stk |-> chain[h.node].stk, sp |-> chain[h.node].sp]
     IN  IF below = {}
           THEN /\ host' = <<>>
                /\ esp' = [stk |-> at.stk, sp |-> at.sp, frame |-> h.save.frame]
           ELSE LET c == CHOOSE i \in below : \A j \in below : j <= i
                IN  /\ host' = SubSeq(host, 1, c - 1)
                    /\ esp' = [stk |-> at.stk, sp |-> at.sp, frame |-> host[c].save.frame]
  /\ strange' = strange \cup {"continued"}
  /\ UNCHANGED <<tableVars, mem, chain, frames>>

Intact(i) == mem[chain[i].stk][chain[i].sp] = chain[i].frame

(* mw32_i386_seh_unwind: the nodes inside the target are taken off and the   *)
(* target stays registered.                                                  *)
Unwound32(n) == SubSeq(chain, 1, n)

(* The handler catches: it calls RtlUnwind, which asks each node inside once *)
(* more (they may not object) and returns to it, then the handler goes to    *)
(* the except block of its frame.  The loop it ran in stays.                 *)
Catch ==
  /\ Asking
  /\ LET n == Last(host).node
     IN  /\ \A i \in n..Len(chain) : Intact(i)
         /\ chain' = Unwound32(n)
         /\ esp' = [stk |-> chain[n].stk, sp |-> chain[n].sp, frame |-> chain[n].frame]
         /\ host' = [host EXCEPT ![Len(host)].target = chain[n].frame]
  /\ strange' = strange \cup {"caught"}
  /\ UNCHANGED <<tableVars, mem, frames>>

(* A base frame returns into the loop of an exception that is long caught:   *)
(* what it returns is taken for a disposition.  The model stops here.        *)
MistakenForDisposition ==
  /\ AtSentinel("raise") /\ Last(host).target # 0
  /\ "mistaken" \notin strange
  /\ strange' = strange \cup {"mistaken"}
  /\ UNCHANGED <<tableVars, esp, mem, chain, host, frames>>

Next ==
  /\ "mistaken" \notin strange
  /\ \/ BindImport32 \/ GuestCall \/ GuestTry \/ GuestRet \/ Cpu32Call \/ CallbackReturns
     \/ RaiseException32 \/ ContinueSearch \/ ContinueExecution \/ Catch \/ MistakenForDisposition

Spec == Init /\ [][Next]_gateVars
-----------------------------------------------------------------------------
(* Guest code only ever runs on a stack frame that nobody has overwritten:   *)
(* after a call, an API function, a callback, or an exception caught at      *)
(* whatever distance.  Callbacks inside callbacks and continued exceptions   *)
(* are excluded: the inner callback starts where the outer one did, and the  *)
(* thrower goes on with the handler's ESP.                                   *)
FramesAreIntact == strange \cap {"nested", "continued"} = {} => Resumed

(* A base frame that returns ends the loop that runs it.  It is another one  *)
(* once an exception has been caught, for the loop of its handler stays.     *)
LoopsEndWithTheirFrame ==
  strange \cap {"nested", "caught", "continued"} = {} => frames[esp.frame].level = Len(host)

(* FS:[0] never leads to a frame that has returned or been unwound.          *)
ChainNamesLiveFrames ==
  strange \cap {"nested", "continued", "far", "mistaken"} = {} =>
    \A i \in DOMAIN chain : Intact(i)

Same(dll1, dll2) == (dll1 \in Crt) = (dll2 \in Crt)

(* A call through an import cell pops what its calling convention says, if   *)
(* the table knows the function or its DLL is a C runtime, and the program   *)
(* has the name from DLLs of one kind only.                                  *)
CallsBalance ==
  \A i \in DOMAIN bound :
    LET imp == ImportList[i]
        listed == imp.name \in RegParm \cup DOMAIN Arity
    IN  /\ imp.name \in Host32 /\ listed # (imp.dll \in Crt)
        /\ \A j \in DOMAIN ImportList : ImportList[j].name = imp.name => Same(ImportList[j].dll, imp.dll)
        => Popped32(slots[bound[i]]) =
             IF imp.dll \in Crt \/ imp.name \in RegParm THEN 0 ELSE Arity[imp.name]
=============================================================================
