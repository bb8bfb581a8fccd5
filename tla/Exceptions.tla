----------------------------- MODULE Exceptions -----------------------------
(***************************************************************************)
(* Raising an exception: vectored handlers, the search for a frame that    *)
(* catches, the cleanups on the way there, and the resumption in the guest *)
(* (loader.c 718-744, 2371-2421, 3263-4007, 4032-4059, 4138-4482,          *)
(* 16732-16795).                                                           *)
(*                                                                         *)
(* A stack is a sequence of frames, the thrower's first.  What unwinding a *)
(* frame does to its registers is in module Unwind; here a frame either    *)
(* owns the one register looked at (saves the caller's value and puts its  *)
(* own there) or leaves it alone.  The dispatcher reads the register when  *)
(* its own compiled code may have it in use: it gets the thrower's value,  *)
(* or whatever the loader had there.  The C++ personalities are guest code:*)
(* one catches, has a cleanup, passes, or is not there.                    *)
(*                                                                         *)
(* Guest code that a dispatch calls (a vectored handler, a filter, a       *)
(* cleanup) may raise an exception itself, whose dispatch then writes the  *)
(* globals the first one goes on with.  Where that one uses a context or a *)
(* jump buffer whose function has returned, it is lost.                    *)
(*                                                                         *)
(* Everything a dispatch knows is global and without a lock.  Once a       *)
(* thread has read what another thread put there the behaviour is          *)
(* undefined: the model stops there (crossed).                             *)
(***************************************************************************)
EXTENDS Integers, Sequences, SequencesExt, FiniteSetsExt

CONSTANTS
  Throwers,   \* guest threads
  Stacks,     \* thread -> the stacks it may throw on
  Inners,     \* what handlers and cleanups may throw: [stack, lang]
  MaxRaises,  \* BOUND: exceptions under way, or started inside one under way, at a time
  Handlers,   \* vectored handlers
  NVeh,       \* slots for vectored handlers (16)
  MaxFrames,  \* DISPATCH_MAX_FRAMES (64)
  MaxChanges, \* BOUND: registrations and removals of vectored handlers
  NoThrower

VARIABLES
  veh,      \* g_veh_handlers and g_veh_count
  changes,  \* registrations and removals so far
  raise,    \* what each thread's exception has come to
  eh,       \* the globals: who captured last, g_is_unwinding, the two snapshots, and
            \* whether context and jump buffer are of an exception inside another
  crossed   \* history: a thread read the globals of another one's dispatch

exnVars == <<veh, changes, raise, eh, crossed>>

Fresh == [at |-> "running"]

Init ==
  /\ veh = [arr |-> [i \in 1..NVeh |-> "empty"], n |-> 0] /\ changes = 0
  /\ raise = [t \in Throwers |-> Fresh]
  /\ eh = [owner |-> NoThrower, unwinding |-> FALSE, thrown |-> 0, target |-> 0,
           inside |-> FALSE]
  /\ crossed = FALSE

(* The register as frame k sees it: the innermost owner's at or above k.     *)
View(s, k) == LET own == {m \in k..Len(s) : s[m].owns}
              IN  IF own = {} THEN Len(s) + 1 ELSE CHOOSE m \in own : \A o \in own : m <= o

(* Frame k's register in a context that held read in the first: a frame on   *)
(* the way that saved it gives it back.                                      *)
LoadersOwn == 0
Register(s, read, k) == IF \E m \in 1..(k - 1) : s[m].owns THEN View(s, k) ELSE read

Becomes(t, r) == raise' = [raise EXCEPT ![t] = r]
With(t, at, k) == [raise[t] EXCEPT !.at = at, !.k = k]
Is(t, at) == ~ crossed /\ raise[t].at = at
Ends(t, how) == Becomes(t, With(t, how, raise[t].k))

(* Returning to the guest from RaiseException: with g_is_unwinding set, by   *)
(* an exception caught in between, to that one's catch instead.              *)
ReturnsAs(t, how) == Ends(t, IF eh.unwinding THEN "lost" ELSE how)

Under(t) == IF raise[t].at = "running" THEN 0
            ELSE IF raise[t].nested \/ raise[t].outer # Fresh THEN 2 ELSE 1
MoreMayRaise == FoldSet(LAMBDA t, n : n + Under(t), 0, Throwers) < MaxRaises

(* A step of t that relies on the globals: they are still t's.               *)
Mine(t) == eh.owner = t
Cross == ~ crossed /\ crossed' = TRUE /\ UNCHANGED <<veh, changes, raise, eh>>
-----------------------------------------------------------------------------
(* Vectored handlers                                                         *)

AddVectoredExceptionHandler(first, h) ==
  /\ changes < MaxChanges /\ veh.n < NVeh
  /\ veh' = [n |-> veh.n + 1,
             arr |-> IF first THEN [i \in 1..NVeh |-> IF i = 1 THEN h
                                                      ELSE IF i <= veh.n + 1 THEN veh.arr[i - 1]
                                                      ELSE veh.arr[i]]
                     ELSE [veh.arr EXCEPT ![veh.n + 1] = h]]
  /\ changes' = changes + 1
  /\ UNCHANGED <<raise, eh, crossed>>

(* The last entry stays in the array, beyond the count.                      *)
RemoveVectoredExceptionHandler(h) ==
  /\ changes < MaxChanges
  /\ \E i \in 1..veh.n :
       /\ veh.arr[i] = h /\ \A j \in 1..(i - 1) : veh.arr[j] # h
       /\ veh' = [n |-> veh.n - 1,
                  arr |-> [j \in 1..NVeh |-> IF i <= j /\ j < veh.n THEN veh.arr[j + 1] ELSE veh.arr[j]]]
  /\ changes' = changes + 1
  /\ UNCHANGED <<raise, eh, crossed>>
-----------------------------------------------------------------------------
(* Raising: the stub of mw_RaiseException (or of _CxxThrowException) fills   *)
(* the capture globals, and the dispatcher reads them.                       *)
Raises(t, s, own, lang, outer) ==
  /\ Becomes(t, [at |-> "captured", stack |-> s, own |-> own, lang |-> lang, k |-> 1, to |-> 0,
                 tag |-> "search", read |-> 0, reg |-> 0, asked |-> <<>>, ran |-> <<>>, vehs |-> <<>>,
                 seen |-> 0, outer |-> outer, nested |-> FALSE])
  /\ eh' = [eh EXCEPT !.owner = t]
  /\ UNCHANGED <<veh, changes, crossed>>

RaiseException(t, s, lang) == Is(t, "running") /\ MoreMayRaise /\ Raises(t, s, Len(s), lang, Fresh)

(* The same from a vectored handler, from a filter of MSVC, or from a        *)
(* cleanup, which runs in its frame and above its stack.  (BOUND: one inside *)
(* an exception, none inside that one.)                                      *)
Inner(t) == raise[t].outer # Fresh
Calls(t) == \/ Is(t, "vectored") /\ raise[t].k > 0
            \/ Is(t, "asking") /\ raise[t].lang = "msvc"

RaiseInHandler(t, s, lang) ==
  /\ Calls(t) /\ ~ Inner(t) /\ ~ raise[t].nested /\ MoreMayRaise
  /\ Raises(t, s, Len(s), lang, raise[t])

RaiseInCleanup(t, s, lang) ==
  /\ Is(t, "cleanup") /\ ~ Inner(t) /\ ~ raise[t].nested /\ MoreMayRaise
  /\ LET below == SubSeq(raise[t].stack, raise[t].k, Len(raise[t].stack))
     IN  Raises(t, s \o [below EXCEPT ![1].eh = "pass"], Len(s), lang, raise[t])

Dispatch(t) ==
  /\ Is(t, "captured") /\ Mine(t)
  /\ \E read \in {View(raise[t].stack, 1), LoadersOwn} :
       /\ eh' = [eh EXCEPT !.unwinding = FALSE, !.target = 0, !.thrown = read, !.inside = Inner(t)]
       /\ Becomes(t, [With(t, "vectored", veh.n) EXCEPT !.seen = changes, !.read = read])
  /\ UNCHANGED <<veh, changes, crossed>>

(* From the last entry down, whatever the list has become meanwhile.         *)
AskVectored(t) ==
  /\ Is(t, "vectored")
  /\ LET i == raise[t].k
     IN  \/ i = 0 /\ Becomes(t, With(t, "search", 1))
         \/ i > 0 /\ \/ Becomes(t, [With(t, "vectored", i - 1) EXCEPT !.vehs = Append(@, veh.arr[i])])
                     \/ Mine(t) /\ ReturnsAs(t, "continued")
  /\ UNCHANGED <<veh, changes, eh, crossed>>

(* The function of a frame is found in the main image or in a DLL; the walk  *)
(* ends at the first frame that is in neither.                               *)
Known(s, k) == k <= Len(s) /\ s[k].img \in {"main", "dll"}

SearchFrame(t) ==
  /\ Is(t, "search") /\ Mine(t)
  /\ LET k == raise[t].k  s == raise[t].stack
     IN  IF k > MaxFrames \/ ~ Known(s, k) THEN ReturnsAs(t, "returned") /\ UNCHANGED eh
         ELSE IF s[k].eh = "none"
           THEN Becomes(t, [With(t, "search", k + 1) EXCEPT !.vehs = <<>>, !.seen = 0]) /\ UNCHANGED eh
         ELSE /\ eh' = [eh EXCEPT !.target = Register(s, raise[t].read, k)]
              /\ Becomes(t, [With(t, "asking", k) EXCEPT !.asked = Append(@, k), !.vehs = <<>>, !.seen = 0])
  /\ UNCHANGED <<veh, changes, crossed>>

(* RtlUnwindEx, called by the personality that catches.  When an exception   *)
(* came and went inside this one, the context it left is dead, and the jump  *)
(* would be into a function that has returned; had it been caught, though,   *)
(* g_is_unwinding is set, and an MSVC catch is resumed as a continuation,    *)
(* with the context of the search, which is unwound one frame too far.       *)
Stale(t) == eh.inside /\ ~ Inner(t)

Unwind(t) ==
  LET k == raise[t].k  s == raise[t].stack
      goes(at, tag, r) == Becomes(t, [With(t, at, 1) EXCEPT !.to = k, !.tag = tag, !.reg = r])
  IN  IF ~ Stale(t) THEN goes(IF raise[t].lang = "gcc" THEN "walk" ELSE "jump", "first", 0)
      ELSE IF eh.unwinding /\ raise[t].lang = "msvc"
        THEN goes("jump", "cont", Register(s, raise[t].read, k + 1))
      ELSE Ends(t, "lost")

(* The personality answers: not mine, mine, or, a filter of MSVC, carry on.  *)
AskPersonality(t) ==
  /\ Is(t, "asking") /\ Mine(t)
  /\ LET k == raise[t].k  s == raise[t].stack
     IN  \/ s[k].eh # "catch" /\ Becomes(t, With(t, "search", k + 1))
         \/ s[k].eh = "catch" /\ Unwind(t)
         \/ raise[t].lang = "msvc" /\ ReturnsAs(t, "continued")
  /\ UNCHANGED <<veh, changes, eh, crossed>>
-----------------------------------------------------------------------------
(* Unwinding                                                                 *)

(* Mutant: the walk to the target starts above the frame that threw.         *)
WalkSkipsThrower(t) ==
  /\ Is(t, "walk") /\ Mine(t)
  /\ LET j == raise[t].k  s == raise[t].stack
     IN  IF j = raise[t].to \/ s[j].img # "main"
           THEN Becomes(t, With(t, "jump", j)) /\ UNCHANGED eh
         ELSE IF s[j].eh = "cleanup" /\ j \notin ToSet(raise[t].ran) /\ j > 1
           THEN /\ Becomes(t, [With(t, "cleanup", j) EXCEPT !.ran = Append(@, j), !.reg = eh.thrown])
                /\ eh' = [eh EXCEPT !.unwinding = TRUE, !.target = 0]
         ELSE Becomes(t, With(t, "walk", j + 1)) /\ UNCHANGED eh
  /\ UNCHANGED <<veh, changes, crossed>>

(* seh_walk_intermediate_cleanups, and the re-raise (0x21474343) by which a  *)
(* personality has a cleanup run: the dispatcher takes it for a command to   *)
(* resume at the cleanup, with the registers of the original throw.  Only    *)
(* frames of the main image are walked.                                      *)
WalkCleanups(t) ==
  /\ Is(t, "walk") /\ Mine(t)
  /\ LET j == raise[t].k  s == raise[t].stack
     IN  IF j = raise[t].to \/ s[j].img # "main"
           THEN Becomes(t, With(t, "jump", j)) /\ UNCHANGED eh
         ELSE IF s[j].eh = "cleanup" /\ j \notin ToSet(raise[t].ran)
           THEN /\ Becomes(t, [With(t, "cleanup", j) EXCEPT !.ran = Append(@, j), !.reg = eh.thrown])
                /\ eh' = [eh EXCEPT !.unwinding = TRUE, !.target = 0]
         ELSE Becomes(t, With(t, "walk", j + 1)) /\ UNCHANGED eh
  /\ UNCHANGED <<veh, changes, crossed>>

(* The end of a cleanup calls RtlUnwindEx for the original target, where a   *)
(* set g_is_unwinding makes it a continuation.                               *)
CleanupEnds(t) ==
  /\ Is(t, "cleanup") /\ Mine(t)
  /\ IF eh.unwinding THEN Becomes(t, [With(t, "walk", raise[t].k) EXCEPT !.tag = "cont"])
     ELSE Ends(t, "lost")
  /\ UNCHANGED <<veh, changes, eh, crossed>>

Jumps(t, tag, r) ==
  /\ Is(t, "jump") /\ raise[t].tag = tag /\ Mine(t)
  /\ Becomes(t, [With(t, "caught", raise[t].to) EXCEPT !.reg = r])
  /\ eh' = [eh EXCEPT !.unwinding = TRUE, !.target = 0]
  /\ UNCHANGED <<veh, changes, crossed>>

(* A first call jumps back into the dispatcher with the registers the frame  *)
(* had in the search; a continuation loads the context it was called with.   *)
FirstUnwind(t)    == Jumps(t, "first", eh.target)
ContinueUnwind(t) == Jumps(t, "cont", raise[t].reg)

Crossing(t) ==
  /\ raise[t].at \in {"captured", "search", "asking", "walk", "cleanup", "jump"} \/ Calls(t)
  /\ ~ Mine(t)
  /\ Cross

(* The guest goes on, and may throw again; or goes on with the handler or    *)
(* the cleanup that threw, unless the catch was further out.                 *)
GoesOn(t) ==
  /\ ~ crossed /\ raise[t].at \in {"caught", "returned", "continued"}
  /\ Becomes(t, IF Inner(t) /\ (raise[t].at = "caught" => raise[t].k <= raise[t].own)
                THEN [raise[t].outer EXCEPT !.nested = TRUE] ELSE Fresh)
  /\ UNCHANGED <<veh, changes, eh, crossed>>

Next ==
  \/ \E h \in Handlers : \/ \E first \in BOOLEAN : AddVectoredExceptionHandler(first, h)
                         \/ RemoveVectoredExceptionHandler(h)
  \/ \E t \in Throwers :
       \/ \E s \in Stacks[t], lang \in {"gcc", "msvc"} : RaiseException(t, s, lang)
       \/ \E i \in Inners : RaiseInHandler(t, i.stack, i.lang) \/ RaiseInCleanup(t, i.stack, i.lang)
       \/ Dispatch(t) \/ AskVectored(t) \/ SearchFrame(t) \/ AskPersonality(t)
       \/ WalkCleanups(t) \/ CleanupEnds(t) \/ FirstUnwind(t) \/ ContinueUnwind(t)
       \/ Crossing(t) \/ GoesOn(t)

Spec == Init /\ [][Next]_exnVars
-----------------------------------------------------------------------------
Of(t) == raise[t].stack
Reached(s, k) == k <= MaxFrames /\ \A j \in 1..k : Known(s, j)
Catches(s) == {k \in DOMAIN s : s[k].eh = "catch" /\ Reached(s, k)}

(* Handlers are asked from the thrower outwards, none is left out, and the   *)
(* innermost frame that catches gets the exception; RaiseException returns   *)
(* to its caller only if nothing within reach catches.                       *)
InnermostCatches ==
  \A t \in Throwers :
    /\ Is(t, "asking") =>
         raise[t].asked = SelectSeq([i \in 1..raise[t].k |-> i], LAMBDA i : Of(t)[i].eh # "none")
    /\ Is(t, "caught") => /\ raise[t].k \in Catches(Of(t))
                          /\ \A c \in Catches(Of(t)) : raise[t].k <= c
    /\ Is(t, "returned") => Catches(Of(t)) = {}

(* The cleanups a GCC exception passes have each run once, innermost first,  *)
(* when its catch begins, as far as the frames are the main image's.         *)
CleanupsRunInOrder ==
  \A t \in Throwers : Is(t, "caught") =>
    raise[t].ran =
      IF raise[t].lang = "msvc" THEN <<>>
      ELSE SelectSeq([i \in 1..(raise[t].k - 1) |-> i],
                     LAMBDA i : Of(t)[i].eh = "cleanup" /\ \A j \in 1..i : Of(t)[j].img = "main")

(* A catch resumes with its frame's register where a frame on the way saved  *)
(* it.  Excepted: where none did it may have the loader's own value, after a *)
(* cleanup it has what the dispatcher read when the exception was thrown,    *)
(* and nothing is said once another exception was raised inside.             *)
CatchesKeepTheirRegisters ==
  \A t \in Throwers : Is(t, "caught") /\ ~ raise[t].nested =>
    LET k == IF raise[t].ran = <<>> THEN raise[t].k ELSE 1
    IN  \/ raise[t].reg = View(Of(t), k)
        \/ raise[t].reg = LoadersOwn /\ \A m \in 1..(k - 1) : ~ Of(t)[m].owns

(* No exception is lost but one that another was raised inside of: nor is    *)
(* that inner one, wherever it is caught.                                    *)
OnlyTheDisturbedAreLost ==
  \A t \in Throwers : Is(t, "lost") => raise[t].nested /\ ~ Inner(t)

(* Unless handlers come or go meanwhile, each vectored handler is asked.     *)
VectoredHandlersAsked ==
  \A t \in Throwers : Is(t, "search") /\ raise[t].k = 1 /\ raise[t].seen = changes =>
    raise[t].vehs = Reverse(SubSeq(veh.arr, 1, veh.n))
=============================================================================
