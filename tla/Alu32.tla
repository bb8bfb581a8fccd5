-------------------------------- MODULE Alu32 --------------------------------
(***************************************************************************)
(* The i386 interpreter (loader.c 49452-49757, 50119-50140, 50144-50574,   *)
(* 50588-50718, 50723-51258, 51282-51401): what each instruction does to   *)
(* registers, flags, memory, the x87 stack and the XMM registers.          *)
(*                                                                         *)
(* A byte has B bits, a word two bytes and a dword four; every width, mask *)
(* and count below is the code's for B = 8.  An instruction is a record:   *)
(* op, the operand size w in bytes, operands dst and src, and form: "mr"   *)
(* if dst is the ModRM operand and src the register, "rm" if the other way *)
(* round, "acc" for the accumulator with an immediate.  An address is the  *)
(* position of an instruction in the program.  The operand-size prefix is  *)
(* modelled where the code honours it.                                     *)
(*                                                                         *)
(* Left out: AF, CPUID, words rotated through the carry, transcendental    *)
(* functions and the formats of floating-point numbers (x87 registers hold *)
(* integers here), MXCSR.                                                  *)
(***************************************************************************)
EXTENDS Integers, Sequences, FiniteSets, TLC, Bitwise

CONSTANTS
  B,       \* bits of a byte (8), a power of two
  NMem,    \* BOUND: bytes of memory
  FsBase   \* where FS points

VARIABLES
  prog,   \* the program that runs: [name, code, ...], or NoProgram
  start,  \* history: the machine as it was
  cpu     \* t_cpu32 and the memory; dead after cpu32_fatal

aluVars == <<prog, start, cpu>>

(* Registers by their number; AH to BH are 4 to 7 in byte operands.          *)
EAX == 0
ECX == 1
EDX == 2
EBX == 3
ESP == 4
EBP == 5
ESI == 6
EDI == 7

Bits(w) == w * B
Size(w) == 2 ^ Bits(w)
Wrap(v, w)   == v % Size(w)
Bit(v, i)    == (v \div 2 ^ i) % 2
Neg(v, w)    == Bit(v, Bits(w) - 1) = 1
Signed(v, w) == IF Neg(v, w) THEN v - Size(w) ELSE v
-----------------------------------------------------------------------------
(* Flags: the set of those that are set                                      *)

When(c, flag) == IF c THEN {flag} ELSE {}
Arithmetic == {"CF", "ZF", "SF", "OF", "PF"}
CarryIn(f) == IF "CF" \in f THEN 1 ELSE 0
With(f, flag, c) == (f \ {flag}) \cup When(c, flag)

ZSP(v, w) ==
  When(v = 0, "ZF") \cup When(Neg(v, w), "SF")
  \cup When(Cardinality({i \in 0..(B - 1) : Bit(v, i) = 1}) % 2 = 0, "PF")

SetZSP(f, v, w) == (f \ {"ZF", "SF", "PF"}) \cup ZSP(v, w)

(* Mutant: signed conditions look at SF alone.                               *)
CondEvalSign(f, cc) ==
  LET base == CASE cc \div 2 = 1 -> "CF" \in f
                [] cc \div 2 = 6 -> "SF" \in f
                [] OTHER -> "ZF" \in f
  IN  base # (cc % 2 = 1)

(* cond_eval: the odd condition is the negation of the even one below it.    *)
CondEval(f, cc) ==
  LET base == CASE cc \div 2 = 0 -> "OF" \in f
                [] cc \div 2 = 1 -> "CF" \in f
                [] cc \div 2 = 2 -> "ZF" \in f
                [] cc \div 2 = 3 -> f \cap {"CF", "ZF"} # {}
                [] cc \div 2 = 4 -> "SF" \in f
                [] cc \div 2 = 5 -> "PF" \in f
                [] cc \div 2 = 6 -> ("SF" \in f) # ("OF" \in f)
                [] cc \div 2 = 7 -> "ZF" \in f \/ ("SF" \in f) # ("OF" \in f)
  IN  base # (cc % 2 = 1)

Res(v, f) == [v |-> v, f |-> f]

AluAdd(a, b, cin, w, f) ==
  LET v == Wrap(a + b + cin, w)
  IN  Res(v, (f \ Arithmetic) \cup ZSP(v, w) \cup When(a + b + cin >= Size(w), "CF")
             \cup When(Neg(a, w) = Neg(b, w) /\ Neg(a, w) # Neg(v, w), "OF"))

AluSub(a, b, cin, w, f) ==
  LET v == Wrap(a - b - cin, w)
  IN  Res(v, (f \ Arithmetic) \cup ZSP(v, w) \cup When(a < b + cin, "CF")
             \cup When(Neg(a, w) # Neg(b, w) /\ Neg(a, w) # Neg(v, w), "OF"))

AluLogic(v, w, f) == Res(v, (f \ Arithmetic) \cup ZSP(v, w))

Alu(fn, a, b, w, f) ==
  CASE fn = "add" -> AluAdd(a, b, 0, w, f)
    [] fn = "adc" -> AluAdd(a, b, CarryIn(f), w, f)
    [] fn \in {"sub", "cmp"} -> AluSub(a, b, 0, w, f)
    [] fn = "sbb" -> AluSub(a, b, CarryIn(f), w, f)
    [] fn \in {"and", "test"} -> AluLogic(a & b, w, f)
    [] fn = "or"  -> AluLogic(a | b, w, f)
    [] fn = "xor" -> AluLogic(a ^^ b, w, f)

(* INC and DEC of dwords keep CF, of bytes they do not.                      *)
AluInc(fn, a, w, f) ==
  LET r == Alu(IF fn = "inc" THEN "add" ELSE "sub", a, 1, w, f)
  IN  IF w = 1 THEN r ELSE Res(r.v, With(r.f, "CF", "CF" \in f))
-----------------------------------------------------------------------------
(* Shifts                                                                    *)

(* The fill of SAR, as an arithmetic shift of a signed number.               *)
Sar(v, c, w) == Wrap(Signed(v, w) \div 2 ^ c, w)
Rotated(v, c, w) == Wrap(v * 2 ^ c, w) + v \div 2 ^ (Bits(w) - c)

(* alu_shl..alu_sar: the count is taken modulo a dword's bits in every width,*)
(* and OF is set by the dword forms alone.                                   *)
AluShift(fn, v, count, w, f) ==
  LET c == count % Bits(4)  n == Bits(w)
      r == CASE fn = "shl" -> Wrap(v * 2 ^ c, w)
             [] fn = "shr" -> v \div 2 ^ c
             [] fn = "sar" -> Sar(v, c, w)
      cf == CASE fn = "shl" -> c <= n /\ Bit(v, n - c) = 1
              [] fn = "shr" -> c <= n /\ Bit(v, c - 1) = 1
              [] fn = "sar" -> IF c <= n THEN Bit(Sar(v, c - 1, w), 0) = 1 ELSE Neg(v, w)
      g == With(SetZSP(f, r, w), "CF", cf)
  IN  IF c = 0 THEN Res(v, f)
      ELSE Res(r, IF w < 4 THEN g ELSE With(g, "OF", fn = "shl" /\ Neg(r, 4) # cf))

(* alu_rol, alu_ror, and the two of cpu32_step_o32 for words, where the      *)
(* carry of ROR is the lowest bit of the operand whatever the count is.      *)
AluRotate(fn, v, count, w, f) ==
  LET c  == count % Bits(w)
      r  == Rotated(v, IF fn = "rol" THEN c ELSE Bits(w) - c, w)
      cf == CASE fn = "rol" -> Bit(r, 0) = 1
              [] fn = "ror" -> IF w = 2 THEN Bit(v, 0) = 1 ELSE Neg(r, w)
      g  == With(f, "CF", cf)
      of == CASE w = 2 /\ fn = "rol" -> FALSE
              [] w = 2 /\ fn = "ror" -> Neg(r, 2) # cf
              [] w = 1 /\ fn = "rol" -> Neg(r, 1) # cf
              [] OTHER -> Neg(r, w) # (Bit(r, Bits(w) - 2) = 1)
  IN  IF c = 0 THEN Res(v, f)
      ELSE Res(r, IF w = 2 \/ (w = 1 /\ c = 1) THEN With(g, "OF", of) ELSE g)

(* alu_rcl32, alu_rcr32: a rotation by single steps through the carry.       *)
AluRotateCarry(fn, v, count, f) ==
  LET c   == count % Bits(4)  n == Bits(4)
      all == v + CarryIn(f) * 2 ^ n                 \* the carry on top
      k   == IF fn = "rcl" THEN c ELSE n + 1 - c
      rot == ((all * 2 ^ k) % 2 ^ (n + 1)) + all \div 2 ^ (n + 1 - k)
      r   == rot % 2 ^ n  cf == rot >= 2 ^ n
  IN  IF c = 0 THEN Res(v, f)
      ELSE Res(r, With(With(f, "CF", cf), "OF",
                       IF fn = "rcl" THEN Neg(r, 4) # cf ELSE Neg(r, 4) # (Bit(r, n - 2) = 1)))

ShiftOf(fn, v, count, w, f) ==
  IF fn \in {"rol", "ror"} THEN AluRotate(fn, v, count, w, f)
  ELSE IF fn \in {"rcl", "rcr"} THEN AluRotateCarry(fn, v, count, f)
  ELSE AluShift(fn, v, count, w, f)
-----------------------------------------------------------------------------
(* Operands                                                                  *)

Get(r, n, w) ==
  CASE w = 4 -> r[n]
    [] w = 2 -> Wrap(r[n], 2)
    [] w = 1 -> IF n < 4 THEN Wrap(r[n], 1) ELSE Wrap(r[n - 4] \div Size(1), 1)

Put(r, n, w, v) ==
  CASE w = 4 -> [r EXCEPT ![n] = v]
    [] w = 2 -> [r EXCEPT ![n] = @ - Wrap(@, 2) + v]
    [] w = 1 -> IF n < 4 THEN [r EXCEPT ![n] = @ - Wrap(@, 1) + v]
                ELSE [r EXCEPT ![n - 4] = @ - Wrap(@, 2) + Wrap(@, 1) + v * Size(1)]

Reg(n) == [k |-> "reg", n |-> n]
Imm(v) == [k |-> "imm", v |-> v]
Mem(base, disp) == [k |-> "mem", base |-> base, index |-> -1, scale |-> 0, disp |-> disp, fs |-> FALSE]
Indexed(base, index, scale) == [Mem(base, 0) EXCEPT !.index = index, !.scale = scale]
OfFs(disp) == [Mem(-1, disp) EXCEPT !.fs = TRUE]

(* modrm_decode, modrm_apply_seg: base and index may be missing (-1).        *)
EA(c, o) ==
  Wrap((IF o.base < 0 THEN 0 ELSE c.r[o.base])
       + (IF o.index < 0 THEN 0 ELSE c.r[o.index] * 2 ^ o.scale)
       + o.disp + (IF o.fs THEN FsBase ELSE 0), 4)

Read(m, a, w) == CASE w = 1 -> m[a]
                   [] w = 2 -> m[a] + Size(1) * m[a + 1]
                   [] w = 4 -> m[a] + Size(1) * m[a + 1] + Size(2) * (m[a + 2] + Size(1) * m[a + 3])
Write(m, a, w, v) == [b \in DOMAIN m |-> IF b \in a..(a + w - 1) THEN Wrap(v \div 2 ^ ((b - a) * B), 1) ELSE m[b]]

Load(c, o, w) ==
  CASE o.k = "reg" -> Get(c.r, o.n, w)
    [] o.k = "imm" -> Wrap(o.v, w)
    [] o.k = "mem" -> Read(c.mem, EA(c, o), w)
Store(c, o, w, v) ==
  IF o.k = "reg" THEN [c EXCEPT !.r = Put(@, o.n, w, v)]
  ELSE [c EXCEPT !.mem = Write(@, EA(c, o), w, v)]

Push(c, v) == LET sp == Wrap(c.r[ESP] - 4, 4)
              IN  [c EXCEPT !.r[ESP] = sp, !.mem = Write(@, sp, 4, v)]
Popped(c)  == [c EXCEPT !.r[ESP] = Wrap(@ + 4, 4)]
TopOf(c)     == Read(c.mem, c.r[ESP], 4)

Fatal(c) == [c EXCEPT !.dead = TRUE]
-----------------------------------------------------------------------------
(* The instructions                                                          *)

(* The byte operations that take their source from a register (00, 08, 18,   *)
(* 20, 28, 30, 38, 84) take its low byte, also for AH to BH; 10 is missing.  *)
Source(c, i) == IF i.w = 1 /\ i.form = "mr" /\ i.src.k = "reg" THEN Wrap(c.r[i.src.n], 1)
                ELSE Load(c, i.src, i.w)

(* AX with an immediate sets the flags of the dword operation.               *)
Arith(c, i) ==
  LET w == IF i.form = "acc" /\ i.w = 2 THEN 4 ELSE i.w
      x == Alu(i.op, Load(c, i.dst, i.w), Source(c, i), w, c.f)
      d == [c EXCEPT !.f = x.f]
  IN  IF i.op = "adc" /\ i.w = 1 /\ i.form = "mr" /\ i.src.k = "reg" THEN Fatal(c)
      ELSE IF i.op \in {"cmp", "test"} THEN d ELSE Store(d, i.dst, i.w, Wrap(x.v, i.w))

(* An immediate or ECX; who uses it masks it.                                *)
ShiftCount(c, o) == IF o.k = "reg" THEN c.r[o.n] ELSE o.v

(* INC, DEC, NOT, NEG, and the shifts.                                       *)
Unary(c, i) ==
  LET a == Load(c, i.dst, i.w)
      x == CASE i.op \in {"inc", "dec"} -> AluInc(i.op, a, i.w, c.f)
             [] i.op = "not" -> Res(Size(i.w) - 1 - a, c.f)
             [] i.op = "neg" -> AluSub(0, a, 0, i.w, c.f)
             [] OTHER -> ShiftOf(i.op, a, ShiftCount(c, i.src), i.w, c.f)
  IN  Store([c EXCEPT !.f = x.f], i.dst, i.w, x.v)

(* PUSH to POPF.  POPA pops ESP as well, and goes on from there.             *)
PushAll(c) == LET put[k \in -1..7] == IF k < 0 THEN c
                                      ELSE Push(put[k - 1], c.r[k])
              IN  put[7]
PopAll(c) == LET take[k \in 0..8] == IF k = 8 THEN c
                                     ELSE [Popped(take[k + 1]) EXCEPT !.r[k] = TopOf(take[k + 1])]
             IN  take[0]
Stack(c, i) ==
  CASE i.op = "push"  -> Push(c, Load(c, i.src, 4))
    [] i.op = "pop"   -> IF i.dst.k = "reg" THEN Store(Popped(c), i.dst, 4, TopOf(c))
                         ELSE [Popped(c) EXCEPT !.mem = Write(@, EA(c, i.dst), 4, TopOf(c))]
    [] i.op = "pusha" -> PushAll(c)
    [] i.op = "popa"  -> PopAll(c)
    [] i.op = "enter" -> LET d == Push(c, c.r[EBP])
                         IN  [d EXCEPT !.r[EBP] = d.r[ESP], !.r[ESP] = Wrap(@ - i.n, 4)]
    [] i.op = "leave" -> LET d == [c EXCEPT !.r[ESP] = c.r[EBP]]
                         IN  [Popped(d) EXCEPT !.r[EBP] = TopOf(d)]

(* MOV, LEA, MOVZX, MOVSX, XCHG, CMOV, SETcc, CBW, CWDE, CDQ.  CWD fills AX. *)
Move(c, i) ==
  CASE i.op = "mov"   -> Store(c, i.dst, i.w, Load(c, i.src, i.w))
    [] i.op = "lea"   -> Store(c, i.dst, 4, EA(c, [i.src EXCEPT !.fs = FALSE]))
    [] i.op = "movzx" -> Store(c, i.dst, 4, Load(c, i.src, i.w))
    [] i.op = "movsx" -> Store(c, i.dst, 4, Wrap(Signed(Load(c, i.src, i.w), i.w), 4))
    [] i.op = "xchg"  -> Store(Store(c, i.dst, i.w, Load(c, i.src, i.w)), i.src, i.w, Load(c, i.dst, i.w))
    [] i.op = "cmov"  -> IF CondEval(c.f, i.cc) THEN Store(c, i.dst, 4, Load(c, i.src, 4)) ELSE c
    [] i.op = "set"   -> Store(c, i.dst, 1, IF CondEval(c.f, i.cc) THEN 1 ELSE 0)
    [] i.op = "cwde"  -> [c EXCEPT !.r = Put(@, EAX, 2 * i.w, Wrap(Signed(Get(@, EAX, i.w), i.w), 2 * i.w))]
    [] i.op = "cdq"   -> LET fill == IF Neg(Get(c.r, EAX, i.w), i.w) THEN Size(i.w) - 1 ELSE 0
                         IN  [c EXCEPT !.r = Put(@, IF i.w = 4 THEN EDX ELSE EAX, i.w, fill)]

(* The two halves of a product or dividend: DX:AX, EDX:EAX, or AX alone.     *)
Pair(c, w) == IF w = 1 THEN Get(c.r, EAX, 2) ELSE Get(c.r, EAX, w) + Size(w) * Get(c.r, EDX, w)
PutPair(c, w, v) ==
  [c EXCEPT !.r = IF w = 1 THEN Put(@, EAX, 2, v)
                  ELSE Put(Put(@, EAX, w, Wrap(v, w)), EDX, w, v \div Size(w))]
SetOverflow(c, o) == [c EXCEPT !.f = With(With(@, "CF", o), "OF", o)]

MulDiv(c, i) ==
  LET w == i.w  v == Load(c, i.src, w)
      p == IF i.op = "mul" THEN Get(c.r, EAX, w) * v
           ELSE Signed(Get(c.r, EAX, w), w) * Signed(v, w)
      n == IF i.op = "div" THEN Pair(c, w) ELSE LET u == Pair(c, w) IN IF u >= Size(2 * w) \div 2 THEN u - Size(2 * w) ELSE u
      d == IF i.op = "div" THEN v ELSE Signed(v, w)
      abs(x) == IF x < 0 THEN 0 - x ELSE x
      q == (abs(n) \div abs(d)) * (IF (n < 0) = (d < 0) THEN 1 ELSE 0 - 1)
      fits == IF i.op = "div" THEN q < Size(w) ELSE q \in (0 - Size(w) \div 2)..(Size(w) \div 2 - 1)
      done == PutPair(c, w, Wrap(p, 2 * w))
  IN  CASE i.op = "mul"  -> LET o == SetOverflow(done, p >= Size(w))
                            IN  IF w = 1 THEN o ELSE [o EXCEPT !.f = SetZSP(@, Wrap(p, w), w)]
        [] i.op = "imul" -> IF w = 1 THEN done ELSE SetOverflow(done, p # Signed(Wrap(p, w), w))
        [] i.op \in {"div", "idiv"} ->
             IF v = 0 \/ (w > 1 /\ ~ fits) THEN Fatal(c)
             ELSE PutPair(c, w, Wrap(q, w) + Size(w) * Wrap(n - q * d, w))

(* IMUL with two or three operands.                                          *)
Imul(c, i) ==
  LET p == Signed(Load(c, i.src, i.w), i.w) * Signed(Load(c, i.by, i.w), i.w)
      d == Store(SetOverflow(c, p # Signed(Wrap(p, i.w), i.w)), i.dst, i.w, Wrap(p, i.w))
  IN  IF i.by.k = "reg" \/ i.w = 2 THEN [d EXCEPT !.f = SetZSP(@, Wrap(p, i.w), i.w)] ELSE d

(* SHLD, SHRD, BSF, BSR, BT and its relatives, XADD, CMPXCHG.  With its bit  *)
(* in a register BT looks at bit dst of src, and CMPXCHG subtracts and       *)
(* stores without a look at EAX.                                             *)
TwoByte(c, i) ==
  LET n == Bits(4)  a == Load(c, i.dst, i.w)  b == Load(c, i.src, i.w)
      k == (IF i.op \in {"shld", "shrd"} THEN ShiftCount(c, i.by) ELSE b) % n
      res == IF i.op = "shld" THEN Wrap(a * 2 ^ k, 4) + b \div 2 ^ (n - k)
             ELSE a \div 2 ^ k + Wrap(b * 2 ^ (n - k), 4)
      out == IF i.op = "shld" THEN Bit(a, n - k) ELSE Bit(a, k - 1)
      ones == {j \in 0..(n - 1) : Bit(b, j) = 1}
      at == CHOOSE j \in ones : \A o \in ones : IF i.op = "bsf" THEN j <= o ELSE o <= j
      bit == IF i.src.k = "imm" THEN Bit(a, k) ELSE Bit(b, a % n)
      to == CASE i.op = "bt" -> Bit(a, k) [] i.op = "bts" -> 1 [] i.op = "btr" -> 0 [] i.op = "btc" -> 1 - Bit(a, k)
  IN  CASE i.op \in {"shld", "shrd"} ->
             IF k = 0 THEN c
             ELSE Store([c EXCEPT !.f = SetZSP(With(@, "CF", out = 1), res, 4)], i.dst, 4, res)
        [] i.op \in {"bsf", "bsr"} ->
             LET d == [c EXCEPT !.f = With(With(@, "ZF", b = 0), "CF", b = 0)]
             IN  IF b = 0 THEN d ELSE Store(d, i.dst, 4, at)
        [] i.op \in {"bt", "bts", "btr", "btc"} ->
             Store([c EXCEPT !.f = With(@, "CF", bit = 1)], i.dst, 4, a + (to - Bit(a, k)) * 2 ^ k)
        [] i.op = "xadd" -> LET x == AluAdd(a, b, 0, i.w, c.f)
                            IN  Store(Store([c EXCEPT !.f = x.f], i.dst, i.w, x.v), i.src, i.w, a)
        [] i.op = "cmpxchg" -> LET x == AluSub(a, b, 0, i.w, c.f)
                               IN  Store([c EXCEPT !.f = x.f], i.dst, i.w, x.v)

(* Jumps and calls; LOOP, LOOPE, LOOPNE, JECXZ; CLC, STC, CMC, CLD, STD.     *)
Flow(c, i) ==
  LET ecx == Wrap(c.r[ECX] - 1, 4)
      loops == ecx # 0 /\ (i.op = "loop" \/ (i.op = "loope") = ("ZF" \in c.f))
  IN  CASE i.op = "jmp"  -> [c EXCEPT !.pc = i.to]
        [] i.op = "jcc"  -> IF CondEval(c.f, i.cc) THEN [c EXCEPT !.pc = i.to] ELSE c
        [] i.op = "call" -> [Push(c, c.pc) EXCEPT !.pc = i.to]
        [] i.op = "ret"  -> [c EXCEPT !.pc = TopOf(c), !.r[ESP] = Wrap(@ + 4 + i.n, 4)]
        [] i.op \in {"loop", "loope", "loopne"} ->
             [c EXCEPT !.r[ECX] = ecx, !.pc = IF loops THEN i.to ELSE @]
        [] i.op = "jecxz" -> IF c.r[ECX] = 0 THEN [c EXCEPT !.pc = i.to] ELSE c
        [] i.op = "flag"  -> [c EXCEPT !.f = With(@, i.flag, i.v)]
        [] i.op = "cmc"   -> [c EXCEPT !.f = With(@, "CF", "CF" \notin @)]
-----------------------------------------------------------------------------
(* String instructions: one element, then the next while the prefix says so  *)

Reads  == {"movs", "cmps", "lods"}   \* through ESI
Writes == {"movs", "cmps", "stos", "scas"} \* through EDI
Stride(c, i) == IF "DF" \in c.f THEN 0 - i.w ELSE i.w

Element(c, i, src) ==
  LET w == i.w  from == Read(c.mem, src, w)  dst == c.r[EDI]  al == Get(c.r, EAX, w)
      stepped == [c.r EXCEPT ![ESI] = IF i.op \in Reads THEN Wrap(@ + Stride(c, i), 4) ELSE @,
                             ![EDI] = IF i.op \in Writes THEN Wrap(@ + Stride(c, i), 4) ELSE @]
      d == [c EXCEPT !.r = stepped]
  IN  CASE i.op = "movs" -> [d EXCEPT !.mem = Write(@, dst, w, from)]
        [] i.op = "stos" -> [d EXCEPT !.mem = Write(@, dst, w, al)]
        [] i.op = "lods" -> [d EXCEPT !.r = Put(@, EAX, w, from)]
        [] i.op = "cmps" -> [d EXCEPT !.f = AluSub(from, Read(c.mem, dst, w), 0, w, @).f]
        [] i.op = "scas" -> [d EXCEPT !.f = AluSub(al, Read(c.mem, dst, w), 0, w, @).f]

(* REP counts ECX down; REPE and REPNE end a compare at a difference or at a *)
(* match.                                                                    *)
StringOp(c, i) ==
  LET seg  == IF i.fs THEN FsBase ELSE 0
      ends(d) == /\ i.op \in {"cmps", "scas"}
                 /\ (i.rep = "repne") = ("ZF" \in d.f)
      run[n \in 0..NMem] ==
        IF n = 0 THEN [c |-> c, go |-> TRUE]
        ELSE LET p == run[n - 1]  d == p.c
             IN  IF ~ p.go \/ d.r[ECX] = 0 THEN p
                 ELSE LET e == Element([d EXCEPT !.r[ECX] = @ - 1], i, Wrap(d.r[ESI] + seg, 4))
                      IN  [c |-> e, go |-> ~ ends(e)]
  IN  IF i.rep = "none" THEN Element(c, i, Wrap(c.r[ESI] + seg, 4)) ELSE run[NMem].c
-----------------------------------------------------------------------------
(* x87 and SSE                                                               *)

St(c, k) == c.fpu[(c.ftop + k) % 8]
SetSt(c, k, v) == [c EXCEPT !.fpu[(c.ftop + k) % 8] = v]
FpuPush(c, v) == [c EXCEPT !.ftop = (@ + 7) % 8, !.fpu[(c.ftop + 7) % 8] = v]
FpuPop(c) == [c EXCEPT !.ftop = (@ + 1) % 8]

(* fpu_compare sets the EFLAGS too, for FCOM as for FCOMI; no form pops      *)
(* twice.                                                                    *)
FpuCompare(c, a, b) ==
  [c EXCEPT !.f = (@ \ {"ZF", "PF", "CF"}) \cup When(a = b, "ZF") \cup When(a < b, "CF")]

(* sub: the register minus ST(0) or memory, subr the other way round.  The   *)
(* pop forms are swapped as on the processor; DC's register forms are not.   *)
FpuOps == {"fadd", "fmul", "fsub", "fsubr"}
FpuOp(fn, a, b) == CASE fn = "fadd" -> a + b [] fn = "fmul" -> a * b
                     [] fn = "fsub" -> a - b [] fn = "fsubr" -> b - a

X87Reg(c, i) ==
  CASE i.op = "fld"  -> FpuPush(c, St(c, i.st))
    [] i.op = "fld1" -> FpuPush(c, i.v)
    [] i.op = "fxch" -> SetSt(SetSt(c, 0, St(c, i.st)), i.st, St(c, 0))
    [] i.op = "fchs" -> SetSt(c, 0, 0 - St(c, 0))
    [] i.op = "fabs" -> SetSt(c, 0, IF St(c, 0) < 0 THEN 0 - St(c, 0) ELSE St(c, 0))
    [] i.op \in FpuOps ->
         (CASE i.form = "st0" -> SetSt(c, 0, FpuOp(i.op, St(c, 0), St(c, i.st)))      \* D8
            [] i.form = "sti" -> SetSt(c, i.st, FpuOp(i.op, St(c, i.st), St(c, 0)))   \* DC
            [] i.form = "pop" -> FpuPop(SetSt(c, i.st, FpuOp(i.op, St(c, i.st), St(c, 0))))) \* DE
    [] i.op = "fcomi" -> LET d == FpuCompare(c, St(c, 0), St(c, i.st))
                         IN  IF i.pops = 1 THEN FpuPop(d) ELSE d
    [] i.op = "fst"   -> LET d == SetSt(c, i.st, St(c, 0)) IN IF i.pops = 1 THEN FpuPop(d) ELSE d
    [] i.op = "fninit" -> [c EXCEPT !.ftop = 0, !.fpu = [k \in 0..7 |-> 0]]

X87Mem(c, i) ==
  CASE i.op = "fild"    -> FpuPush(c, Signed(Load(c, i.src, i.w), i.w))
    [] i.op \in FpuOps -> SetSt(c, 0, FpuOp(i.op, St(c, 0), Signed(Load(c, i.src, i.w), i.w)))
    [] i.op = "fist"    -> LET d == Store(c, i.dst, i.w, Wrap(St(c, 0), i.w))
                           IN  IF i.pops = 1 THEN FpuPop(d) ELSE d

X87(c, i) == IF i.op \in {"fild", "fist"} \/ i.form = "mem" THEN X87Mem(c, i) ELSE X87Reg(c, i)

(* XMM registers are four lanes.  MOVSS and MOVSD between registers copy all *)
(* four; their loads leave the other lanes; PXOR clears its operand.         *)
Lanes(c, o) == IF o.k = "reg" THEN c.xmm[o.n]
               ELSE [l \in 0..3 |-> Read(c.mem, EA(c, o) + 4 * l, 4)]
StoreLanes(m, a, n, x) == LET put[l \in 0..n] == IF l = 0 THEN m ELSE Write(put[l - 1], a + 4 * (l - 1), 4, x[l - 1])
                          IN  put[n]
Sse(c, i) ==
  LET x == Lanes(c, i.src)
  IN  CASE i.op = "movups" -> IF i.dst.k = "reg" THEN [c EXCEPT !.xmm[i.dst.n] = IF i.src.k = "reg" \/ i.lanes = 4 THEN x
                                ELSE [l \in 0..3 |-> IF l < i.lanes THEN x[l] ELSE @[l]]]
                              ELSE [c EXCEPT !.mem = StoreLanes(@, EA(c, i.dst), i.lanes, x)]
        [] i.op = "movd"   -> IF i.src.k = "xmm" THEN Store(c, i.dst, 4, c.xmm[i.src.n][0])
                              ELSE [c EXCEPT !.xmm[i.dst.n] = [l \in 0..3 |-> IF l = 0 THEN Load(c, i.src, 4) ELSE 0]]
        [] i.op = "pshufd" -> [c EXCEPT !.xmm[i.dst.n] = [l \in 0..3 |-> x[(i.n \div 4 ^ l) % 4]]]
        [] i.op = "unpck"  -> [c EXCEPT !.xmm[i.dst.n] = [l \in 0..3 |-> IF l % 2 = 0 THEN @[l] ELSE x[l - 1]]]
        [] i.op = "xorps"  -> [c EXCEPT !.xmm[i.dst.n] = [l \in 0..3 |-> @[l] ^^ x[l]]]
        [] i.op = "pxor"   -> [c EXCEPT !.xmm[i.dst.n] = [l \in 0..3 |-> 0]]
-----------------------------------------------------------------------------
ArithOps == {"add", "adc", "sub", "sbb", "cmp", "and", "or", "xor", "test"}
UnaryOps == {"inc", "dec", "not", "neg", "shl", "shr", "sar", "rol", "ror", "rcl", "rcr"}
StackOps == {"push", "pop", "pusha", "popa", "enter", "leave"}
MoveOps  == {"mov", "lea", "movzx", "movsx", "xchg", "cmov", "set", "cwde", "cdq"}
TwoByteOps == {"shld", "shrd", "bsf", "bsr", "bt", "bts", "btr", "btc", "xadd", "cmpxchg"}
FlowOps  == {"jmp", "jcc", "call", "ret", "loop", "loope", "loopne", "jecxz", "flag", "cmc"}
SseOps   == {"movups", "movd", "pshufd", "unpck", "xorps", "pxor"}

Execute(c, i) ==
  CASE i.op \in ArithOps -> Arith(c, i)
    [] i.op \in UnaryOps -> Unary(c, i)
    [] i.op \in StackOps -> Stack(c, i)
    [] i.op \in MoveOps  -> Move(c, i)
    [] i.op \in {"mul", "imul", "div", "idiv"} -> MulDiv(c, i)
    [] i.op = "imul3" -> Imul(c, i)
    [] i.op \in TwoByteOps -> TwoByte(c, i)
    [] i.op \in FlowOps -> Flow(c, i)
    [] i.op \in Reads \cup Writes -> StringOp(c, i)
    [] i.op \in SseOps -> Sse(c, i)
    [] OTHER -> X87(c, i)

Halted == cpu.dead \/ cpu.pc \notin DOMAIN prog.code

(* cpu32_step                                                                *)
Step ==
  /\ ~ Halted
  /\ cpu' = Execute([cpu EXCEPT !.pc = @ + 1], prog.code[cpu.pc])
  /\ UNCHANGED <<prog, start>>
=============================================================================
