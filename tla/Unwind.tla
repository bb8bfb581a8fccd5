------------------------------- MODULE Unwind -------------------------------
(***************************************************************************)
(* Undoing a prologue from its x64 unwind codes (loader.c 2424-2502,       *)
(* 2872-3257, 4091-4129, 4484-4721): the loop of the exception dispatcher  *)
(* and the one behind RtlVirtualUnwind, with the context they leave and    *)
(* the frame they report.                                                  *)
(*                                                                         *)
(* A function is its prologue: a sequence of operations, of which the i-th *)
(* ends at offset 2i.  Frames are unwound from a return address, in the    *)
(* body or inside the prologue (a call of __chkstk), which is no end of an *)
(* operation and gets an odd offset; or from where a fault stopped them or *)
(* a walker asks, which may be exactly where an operation has just ended,  *)
(* or the function's first instruction.  Memory is counted in words of 8   *)
(* bytes.  Left out: machine frames and the diagnostic walks.              *)
(***************************************************************************)
EXTENDS Integers, Sequences, SequencesExt

CONSTANTS
  Prologues,  \* the prologues of the functions considered
  Saved,      \* nonvolatile registers that are not the frame pointer
  FP,         \* the frame pointer
  SmallMax,   \* the largest allocation of an UWOP_ALLOC_SMALL (16 words)
  Top         \* the address of the return address; the stack grows down to 0

Regs == Saved \cup {FP}

VARIABLES
  frame,   \* the function, how far it got, and how it was split; or Nowhere
  undone   \* what the two unwinders made of it; or Nowhere

Nowhere == [at |-> "nowhere"]
-----------------------------------------------------------------------------
(* The guest: what a prologue does (the processor, not the loader)           *)

(* What a register or a word of the stack holds: whose value, or an address. *)
Garbage    == <<"garbage">>
Return     == <<"return address">>
At(a)      == <<"at", a>>
Address(v) == IF v[1] = "at" THEN v[2] ELSE 0 - 100

Caller == [rsp |-> Top, regs |-> [r \in Regs |-> <<"caller", r>>],
           mem |-> [a \in 0..Top |-> IF a = Top THEN Return ELSE Garbage]]

Did(m, o) ==
  CASE o.op = "push"  -> [m EXCEPT !.rsp = @ - 1, !.mem[m.rsp - 1] = m.regs[o.reg]]
    [] o.op = "alloc" -> [m EXCEPT !.rsp = @ - o.n]
    [] o.op = "setfp" -> [m EXCEPT !.regs[FP] = At(m.rsp + 2 * o.off)]
    [] o.op = "save"  -> [m EXCEPT !.mem[m.rsp + o.at] = m.regs[o.reg]]
    [] o.op = "xmm"   -> m

HasFP(p) == \E i \in DOMAIN p : p[i].op = "setfp"
Keeps(p) == {r \in (IF HasFP(p) THEN Saved ELSE Regs) : \E i \in DOMAIN p : p[i].op \in {"push", "save"} /\ p[i].reg = r}

(* After the whole prologue the body uses the registers it saved, and with   *)
(* a frame pointer may move RSP; not yet where it is stopped exactly at the  *)
(* prologue's end.                                                           *)
Inside(p, n, exact, moved) ==
  LET m == FoldLeft(Did, Caller, SubSeq(p, 1, n))
  IN  IF n < Len(p) \/ exact THEN m
      ELSE [m EXCEPT !.rsp = @ - (IF HasFP(p) THEN moved ELSE 0),
                     !.regs = [r \in Regs |-> IF r \in Keeps(p) THEN <<"body">> ELSE m.regs[r]]]
-----------------------------------------------------------------------------
(* The codes: the last operation first, each with the slots of its operands  *)

Operand == "operand"

Code(p, i) ==
  LET o == p[i]
      head(op, info) == [at |-> 2 * i, op |-> op, info |-> info]
  IN  CASE o.op = "push"  -> <<head("PUSH_NONVOL", o.reg)>>
        [] o.op = "alloc" -> IF o.n <= SmallMax THEN <<head("ALLOC_SMALL", o.n - 1)>>
                             ELSE IF o.n <= 2 * SmallMax
                                  THEN <<head("ALLOC_LARGE", 0), o.n>>
                                  ELSE <<head("ALLOC_LARGE", 1), 8 * o.n, Operand>>
        [] o.op = "setfp" -> <<head("SET_FPREG", 0)>>
        [] o.op = "save"  -> <<head("SAVE_NONVOL", o.reg), o.at>>
        [] o.op = "xmm"   -> <<head("SAVE_XMM128", 0), Operand>>

Codes(p) == FlattenSeq([k \in 1..Len(p) |-> Code(p, Len(p) + 1 - k)])
FrameOffset(p) == IF HasFP(p) THEN (CHOOSE o \in ToSet(p) : o.op = "setfp").off ELSE 0

(* Mutant: an operation the instruction has not reached is undone too.       *)
PastNone(code, offset) == FALSE

Slots(c) == CASE c.op = "ALLOC_LARGE" -> IF c.info = 0 THEN 2 ELSE 3
              [] c.op \in {"SAVE_NONVOL", "SAVE_XMM128"} -> 2
              [] OTHER -> 1

Allocated(codes, s) ==
  CASE codes[s].op = "ALLOC_SMALL" -> codes[s].info + 1
    [] codes[s].op = "ALLOC_LARGE" -> IF codes[s].info = 0 THEN codes[s + 1]
                                      ELSE codes[s + 1] \div 8

Word(c, a) == IF a \in DOMAIN c.mem THEN c.mem[a] ELSE Garbage

(* One code applied to the context c: RSP is not written back before the end.*)
Applied(c, codes, s, off) ==
  LET code == codes[s]
  IN  CASE code.op = "PUSH_NONVOL" -> [c EXCEPT !.regs[code.info] = Word(c, c.rsp), !.rsp = @ + 1]
        [] code.op \in {"ALLOC_SMALL", "ALLOC_LARGE"} -> [c EXCEPT !.rsp = @ + Allocated(codes, s)]
        [] code.op = "SET_FPREG" -> [c EXCEPT !.rsp = Address(c.regs[FP]) - 2 * off, !.fp = <<c.regs[FP]>>]
        [] code.op = "SAVE_NONVOL" -> [c EXCEPT !.regs[code.info] = Word(c, c.rsp + codes[s + 1])]
        [] code.op = "SAVE_XMM128" -> c

(* A code is skipped when its operation is past the instruction.  The code   *)
(* at the very offset is skipped too, although it has run; at offset 0 none  *)
(* is, although none has run.                                                *)
Past(code, offset) == offset > 0 /\ code.at >= offset

RECURSIVE Loop(_, _, _, _, _)
Loop(c, codes, s, offset, off) ==
  IF s > Len(codes) THEN c
  ELSE LET next == s + Slots(codes[s])
       IN  IF Past(codes[s], offset) THEN Loop(c, codes, next, offset, off)
           ELSE Loop(Applied(c, codes, s, off), codes, next, offset, off)

(* With a frame pointer the loop's last word is that register: the function's*)
(* own, over the caller's that a code has just popped.                       *)
Kept(c) == IF c.fp = <<>> THEN c ELSE [c EXCEPT !.regs[FP] = c.fp[1]]

Context(m) == [rsp |-> m.rsp, regs |-> m.regs, mem |-> m.mem, fp |-> <<>>]

Looped(m, p, offset) == Kept(Loop(Context(m), Codes(p), 1, offset, FrameOffset(p)))
-----------------------------------------------------------------------------
(* The two unwinders                                                         *)

(* EstablisherFrame as guests get it, read before the codes run.             *)
Establisher(m, p, offset, chained) ==
  IF HasFP(p) /\ (offset >= 2 * Len(p) \/ chained) THEN Address(m.regs[FP]) - 2 * FrameOffset(p)
  ELSE m.rsp

(* seh_internal_virtual_unwind: a fragment chained to its function is undone *)
(* by the function's codes alone.  The dispatcher then takes the return      *)
(* address from est, which is the frame pointer where there is one.          *)
InternalUnwind(m, p, offset, chained) ==
  LET c   == Looped(m, p, offset)
      est == IF c.fp = <<>> THEN c.rsp ELSE Address(c.fp[1])
  IN  [regs |-> c.regs, rsp |-> est + 1,
       rip |-> Word(c, est),
       est |-> Establisher(m, p, offset, chained)]

(* The same read after the codes have run, for RtlVirtualUnwind.             *)
RtlEstablisher(m, p, offset, c) ==
  IF HasFP(p) /\ offset >= 2 * Len(p) THEN Address(c.regs[FP]) - 2 * FrameOffset(p) ELSE m.rsp

(* mw_RtlVirtualUnwind: the context of a chained fragment is left alone.     *)
RtlVirtualUnwind(m, p, offset, chained) ==
  IF chained THEN [regs |-> m.regs, rsp |-> m.rsp, rip |-> <<"same">>, est |-> "unset"]
  ELSE LET c == Looped(m, p, offset)
       IN  [regs |-> c.regs, rsp |-> c.rsp + 1, rip |-> Word(c, c.rsp),
            est |-> RtlEstablisher(m, p, offset, c)]

(* seh_total_prologue_alloc: every code, wherever the instruction is.        *)
RECURSIVE AllocFrom(_, _)
AllocFrom(codes, s) ==
  IF s > Len(codes) THEN 0
  ELSE (CASE codes[s].op = "PUSH_NONVOL" -> 1
          [] codes[s].op \in {"ALLOC_SMALL", "ALLOC_LARGE"} -> Allocated(codes, s)
          [] OTHER -> 0) + AllocFrom(codes, s + Slots(codes[s]))

TotalPrologueAlloc(p) == AllocFrom(Codes(p), 1)
-----------------------------------------------------------------------------
Init == frame = Nowhere /\ undone = Nowhere

(* Stopped after n operations of the prologue: exactly there, or further on. *)
Arrive ==
  /\ frame = Nowhere
  /\ \E p \in Prologues, moved \in 0..1, chained, exact \in BOOLEAN :
       \E n \in 0..Len(p) :
         /\ chained => n = Len(p) /\ ~ exact
         /\ frame' = [fn |-> p, n |-> n, exact |-> exact, moved |-> moved, chained |-> chained,
                      offset |-> IF exact THEN 2 * n ELSE 2 * n + 1]
  /\ UNCHANGED undone

Stopped == Inside(frame.fn, frame.n, frame.exact, frame.moved)

VirtualUnwind ==
  /\ frame # Nowhere /\ undone = Nowhere
  /\ undone' = [disp |-> InternalUnwind(Stopped, frame.fn, frame.offset, frame.chained),
                rtl  |-> RtlVirtualUnwind(Stopped, frame.fn, frame.offset, frame.chained)]
  /\ UNCHANGED frame

Next == Arrive \/ VirtualUnwind
unwindVars == <<frame, undone>>
Spec == Init /\ [][Next]_unwindVars
-----------------------------------------------------------------------------
IsCaller(u) == /\ u.regs = Caller.regs /\ u.rsp = Top + 1 /\ u.rip = Return

Unwound == undone # Nowhere
Bodily  == frame.n = Len(frame.fn)

(* Stopped at the function's first instruction, or at the very end of an     *)
(* operation that moved RSP.                                                 *)
Overlooked ==
  /\ frame.exact /\ frame.fn # <<>>
  /\ frame.n = 0 \/ frame.fn[frame.n].op \in {"push", "alloc"}

(* A frame pointer is set, and seen to be.                                   *)
Anchored == \E i \in 1..frame.n : frame.fn[i].op = "setfp" /\ 2 * i < frame.offset

(* Whatever the prologue pushed, saved or allocated, and whichever encoding  *)
(* each allocation got, undoing it from the body gives the caller back: its  *)
(* registers, its RSP and the return address; so does undoing it from inside *)
(* it, with or without a frame pointer to come.  Excepted: where the skipped *)
(* code is Overlooked (the caller is then one slot off, and at the first     *)
(* instruction a prologue that has not run is undone), against the comment   *)
(* at 3126-3129; frames whose frame pointer is set; and RtlVirtualUnwind     *)
(* does chained ones not at all.                                             *)
CallsUnwindToTheirCaller ==
  Unwound /\ ~ Overlooked /\ ~ Anchored =>
    /\ IsCaller(undone.disp)
    /\ ~ frame.chained => IsCaller(undone.rtl)

(* Where the frame pointer is set RtlVirtualUnwind finds RSP, the return     *)
(* address and what was pushed, wherever the body has moved RSP to; only the *)
(* frame pointer itself stays the function's own.                            *)
FramePointersAnchor ==
  Unwound /\ Anchored /\ ~ frame.chained =>
    /\ undone.rtl.rsp = Top + 1 /\ undone.rtl.rip = Return
    /\ \A i \in DOMAIN frame.fn :
         frame.fn[i].op = "push" /\ frame.fn[i].reg # FP =>
           undone.rtl.regs[frame.fn[i].reg] = Caller.regs[frame.fn[i].reg]

(* The frame reported to a guest's handler does not depend on what the body  *)
(* did to RSP, and the two unwinders agree on it: it is RSP at the end of    *)
(* the prologue, which is TotalPrologueAlloc below the return address.  Not  *)
(* RtlVirtualUnwind's where a frame pointer is overlooked: it reads the      *)
(* caller's.                                                                 *)
EstablisherIsTheFrameBase ==
  Unwound /\ Bodily =>
    /\ undone.disp.est = Top - TotalPrologueAlloc(frame.fn)
    /\ ~ frame.chained /\ (HasFP(frame.fn) => Anchored) => undone.rtl.est = undone.disp.est

=============================================================================
