------------------------------- MODULE Idioms32 -------------------------------
(***************************************************************************)
(* Code as compilers write it, run by the interpreter (module Alu32) from  *)
(* arbitrary values of its inputs and an arbitrary carry; what it must     *)
(* compute is said in numbers.  The programs avoid what the interpreter is *)
(* known to get wrong (the README lists it).                               *)
(***************************************************************************)
EXTENDS Alu32

CONSTANTS
  Values,  \* of the inputs
  Few      \* of the inputs of programs that have four

NoProgram == [name |-> "none", code |-> <<>>]

(* Memory: FS:[0], two buffers, and the stack.                               *)
SrcAt == 16
DstAt == 32
StackAt == 60

Machine(in) ==
  [r |-> [k \in 0..7 |-> CASE k < 4 -> in[k] [] k = ESP -> StackAt [] k = EBP -> StackAt + 3
                           [] k = ESI -> SrcAt [] k = EDI -> DstAt],
   f |-> IF in[4] THEN {"CF", "OF"} ELSE {"ZF", "SF"},
   mem |-> [a \in 0..(NMem - 1) |-> a % Size(1)],
   fpu |-> [k \in 0..7 |-> 0], ftop |-> 0, xmm |-> [k \in 0..7 |-> [l \in 0..3 |-> 0]],
   pc |-> 1, dead |-> FALSE]
-----------------------------------------------------------------------------
(* The programs.  name, a parameter n, the registers that may change, code.  *)

I(op, w, dst, src) == [op |-> op, w |-> w, form |-> "rm", dst |-> dst, src |-> src]
D(op, dst, src) == I(op, 4, dst, src)
By(op, dst, src, by) == [D(op, dst, src) EXCEPT !.form = "rm"] @@ [by |-> by]
Cc(op, cc, dst, src) == D(op, dst, src) @@ [cc |-> cc]
To(op, to)   == [op |-> op, to |-> to]
Ret(n)       == [op |-> "ret", n |-> n]
Str(op, rep) == [op |-> op, w |-> 1, rep |-> rep, fs |-> FALSE]
Fild(a)      == [op |-> "fild", w |-> 4, src |-> a]
Fp(op, form, st) == [op |-> op, form |-> form, st |-> st, pops |-> 0]
Flag(fl, v)  == [op |-> "flag", flag |-> fl, v |-> v]
A == Reg(EAX)
C == Reg(ECX)
X == Reg(EDX)
Y == Reg(EBX)
Src == Mem(ESI, 0)
Dst == Mem(EDI, 0)
Zero == Imm(0)
Fill == <<D("mov", Src, A), D("mov", Mem(ESI, 4), Y)>>

P(name, n, out, code) == [name |-> name, n |-> n, out |-> out, code |-> code]

Arithmetics ==
  {P("add64", 0, {EAX, EDX}, <<D("add", A, Y), D("adc", X, C)>>),
   P("cmp64", 0, {EAX, EDX}, <<D("sub", A, Y), D("sbb", X, C)>>),
   P("neg64", 0, {EAX, EDX}, <<D("neg", A, Zero), D("adc", X, Zero), D("neg", X, Zero)>>),
   P("step64", 0, {EAX, ECX, EDX}, <<D("add", A, Y), D("inc", C, Zero), D("adc", X, Zero)>>),
   P("dbl64", 0, {EAX, EDX}, <<D("add", A, A), D("rcl", X, Imm(1))>>),
   P("half64", 0, {EAX, EDX}, <<D("shr", X, Imm(1)), D("rcr", A, Imm(1))>>),
   P("abs", 0, {EAX, EDX}, <<I("cdq", 4, A, Zero), D("xor", A, X), D("sub", A, X)>>),
   P("less", 0, {EAX}, <<D("cmp", A, Y), D("sbb", A, A), D("neg", A, Zero)>>),
   P("max", 0, {EAX}, <<D("cmp", A, Y), Cc("cmov", 12, A, Y)>>),
   P("mul", 0, {EAX, EDX}, <<D("mul", A, Y), D("div", A, Y)>>),
   P("imul", 0, {EAX, EDX}, <<D("imul", A, Y), D("idiv", A, Y)>>),
   P("mod", 0, {EAX, EDX}, <<I("cdq", 4, A, Zero), D("idiv", A, Y)>>),
   P("imul3", 0, {EAX}, <<By("imul3", A, Y, A)>>),
   P("lea", 0, {EBX, EDX}, <<D("lea", X, Indexed(EAX, EAX, 2)), D("lea", Y, Mem(EBX, -1))>>)}
  \cup {P("half", n, {EAX, EDX}, <<I("cdq", 4, A, Zero), D("and", X, Imm(2 ^ n - 1)), D("add", A, X), D("sar", A, Imm(n))>>)
          : n \in 1..3}

Comparisons ==
  UNION {{P("set4", n, {EDX}, <<D("cmp", A, Y), I("set", 1, X, Zero) @@ [cc |-> n]>>),
          P("set2", n, {EDX}, <<I("cmp", 2, A, Y), I("set", 1, X, Zero) @@ [cc |-> n]>>),
          P("set1", n, {EDX}, <<I("cmp", 1, A, Reg(7)), I("set", 1, Reg(6), Zero) @@ [cc |-> n]>>)} : n \in 0..15}

BitPrograms ==
  {P("shl64", 0, {EAX, EDX}, <<By("shld", X, A, C), D("shl", A, C)>>),
   P("sar64", 0, {EAX, EDX}, <<By("shrd", A, X, C), D("sar", X, C)>>),
   P("bswap", 0, {EAX}, <<I("ror", 2, A, Imm(B)), D("ror", A, Imm(2 * B)), I("rol", 2, A, Imm(B))>>),
   P("cwde", 0, {EAX}, <<I("cwde", 1, A, Zero), I("cwde", 2, A, Zero)>>),
   P("flags", 0, {EAX, EDX}, <<D("bts", A, Imm(0)), D("btc", A, Imm(1)), [op |-> "cmc"], I("set", 1, X, Zero) @@ [cc |-> 2],
      D("not", A, Zero), D("not", A, Zero)>>),
   P("bytes", 0, {EAX, EBX, EDX}, <<I("xchg", 1, A, Reg(4)), I("mov", 1, X, Reg(7)), I("movsx", 1, Y, Y)>>)}
  \cup {P("turn", n, {EAX}, <<D("rol", A, Imm(n)), D("rcl", A, Imm(n)), D("rcr", A, Imm(n)), D("ror", A, Imm(n))>>) : n \in 1..3}
  \cup {P("bits", n, {EAX, EBX, EDX}, <<D("bsf", X, A), D("bsr", Y, A), D("btr", A, Imm(n))>>) : n \in {0, 3}}

Memories ==
  {P("xadd", 0, {EAX, EBX}, <<D("mov", Src, A), D("xadd", Src, Y), D("mov", A, Src)>>),
   P("sum", 0, {EAX, ECX}, <<D("xor", A, A), To("jecxz", 5), D("add", A, C), To("loop", 3)>>),
   P("call", 0, {EAX}, <<D("push", A, Y), To("call", 4), To("jmp", 99),
      D("push", A, Reg(EBP)), D("mov", Reg(EBP), Reg(ESP)), D("sub", Reg(ESP), Imm(4)), D("mov", Mem(EBP, -4), A),
      D("mov", A, Mem(EBP, 8)), D("sub", A, Mem(EBP, -4)), D("leave", A, A), Ret(4)>>),
   P("enter", 0, {EAX, EDX}, <<[op |-> "enter", n |-> 8], D("mov", Mem(EBP, -8), Y), D("mov", A, Mem(ESP, 0)),
      D("leave", A, A), [op |-> "pusha"], D("mov", X, Mem(ESP, 12)), D("add", Reg(ESP), Imm(32))>>),
   P("upto", 0, {EAX, ECX, ESI, EDI}, Fill \o <<Flag("DF", FALSE), D("mov", C, Imm(7)), Str("lods", "none"), Str("stos", "none"),
      I("test", 1, A, A), To("loopne", 5)>>),
   P("seh", 0, {EAX, EDX}, <<D("push", A, Y), D("push", A, OfFs(0)), D("mov", OfFs(0), Reg(ESP)),
      D("mov", X, OfFs(0)), D("mov", X, Mem(EDX, 4)), D("pop", OfFs(0), A), D("pop", A, A)>>),
   P("slide", 0, {ECX, ESI, EDI}, Fill \o <<D("lea", Reg(EDI), Mem(ESI, 9)), D("lea", Reg(ESI), Mem(ESI, 7)),
      D("mov", C, Imm(8)), Flag("DF", TRUE), Str("movs", "rep"), Flag("DF", FALSE)>>),
   P("len", 0, {EAX, ECX, EDI}, <<Flag("DF", FALSE), D("mov", Dst, Y), D("mov", Mem(EDI, 4), Zero), D("mov", A, Zero),
      D("or", C, Imm(-1)), Str("scas", "repne"), D("not", C, Zero), D("dec", C, Zero)>>),
   P("same", 0, {ECX, EDX, ESI, EDI}, <<Flag("DF", FALSE), D("mov", Src, A), D("mov", Dst, Y), D("mov", C, Imm(4)),
      D("cmp", A, A), Str("cmps", "rep"), I("set", 1, X, Zero) @@ [cc |-> 2]>>),
   P("x87", 0, {EDX}, Fill \o <<Fild(Src), Fild(Mem(ESI, 4)), Fp("fld", "", 1), Fp("fadd", "st0", 1),
      Fp("fxch", "", 2), Fp("fsub", "pop", 1), Fp("fmul", "pop", 1), Fild(Src), Fp("fcomi", "", 1), I("set", 1, X, Zero) @@ [cc |-> 7]>>),
   P("sse", 0, {EDX}, <<D("mov", Src, A), D("mov", Mem(ESI, 8), Y),
      [op |-> "movups", dst |-> Reg(0), src |-> Src, lanes |-> 4],
      [op |-> "pshufd", dst |-> Reg(1), src |-> Reg(0), n |-> 78],
      [op |-> "movups", dst |-> Dst, src |-> Reg(1), lanes |-> 2],
      [op |-> "movd", dst |-> X, src |-> [k |-> "xmm", n |-> 0]]>>)}
  \cup {P("copy", n, {ECX, ESI, EDI}, Fill \o <<Flag("DF", FALSE), D("mov", C, Imm(n)), Str("movs", "rep")>>) : n \in {0, 1, 5, 8}}

Suite == Arithmetics \cup Comparisons \cup BitPrograms \cup Memories

Inputs(name) ==
  CASE name \in {"add64", "cmp64", "step64"} ->
         {<<a, c, d, b, f>> : a \in Few, c \in Few, d \in Few, b \in Few, f \in {TRUE}}
    [] name \in {"shl64", "sar64"} ->
         {<<a, c, d, 7, FALSE>> : a \in Values, c \in 0..Bits(4), d \in Values}
    [] name \in {"neg64", "dbl64", "half64"} -> {<<a, 7, d, 7, f>> : a \in Values, d \in Values, f \in BOOLEAN}
    [] name = "sum" -> {<<5, c, 5, 5, TRUE>> : c \in 0..6}
    [] OTHER -> {<<a, 9, 11, b, f>> : a \in Values, b \in Values, f \in BOOLEAN}
Input(t) == [k \in 0..4 |-> t[k + 1]]
-----------------------------------------------------------------------------
Init == prog = NoProgram /\ start = <<>> /\ cpu = Machine([k \in 0..4 |-> IF k = 4 THEN FALSE ELSE 0])

Begin ==
  /\ prog = NoProgram
  /\ \E p \in Suite : \E t \in Inputs(p.name) : prog' = p /\ start' = t /\ cpu' = Machine(Input(t))

Next == Begin \/ Step
Spec == Init /\ [][Next]_aluVars
-----------------------------------------------------------------------------
S == Machine(Input(start))
Was(n) == S.r[n]
Is(n)  == cpu.r[n]
Long(lo, hi) == lo + Size(4) * hi
Sg(n, w) == Signed(Get(S.r, n, w), w)
Trunc(a, b) == LET abs(x) == IF x < 0 THEN 0 - x ELSE x
               IN  (abs(a) \div abs(b)) * (IF (a < 0) = (b < 0) THEN 1 ELSE 0 - 1)
SgLong(u) == IF u >= Size(8) \div 2 THEN u - Size(8) ELSE u

(* What condition cc says of a comparison of a with b, w bytes wide.         *)
Compares(cc, a, b, w) ==
  LET d == Signed(a, w) - Signed(b, w)
      base == CASE cc \div 2 = 0 -> d \notin (0 - Size(w) \div 2)..(Size(w) \div 2 - 1)
                [] cc \div 2 = 1 -> a < b
                [] cc \div 2 = 2 -> a = b
                [] cc \div 2 = 3 -> a <= b
                [] cc \div 2 = 4 -> Neg(Wrap(a - b, w), w)
                [] cc \div 2 = 5 -> Cardinality({i \in 0..(B - 1) : Bit(Wrap(a - b, w), i) = 1}) % 2 = 0
                [] cc \div 2 = 6 -> Signed(a, w) < Signed(b, w)
                [] cc \div 2 = 7 -> Signed(a, w) <= Signed(b, w)
  IN  base # (cc % 2 = 1)

Buffer(at, n) == [k \in 1..n |-> cpu.mem[at + k - 1]]
BytesOf(v) == [k \in 0..3 |-> Wrap(v \div 2 ^ (k * B), 1)]
Text == [k \in 1..8 |-> IF k <= 4 THEN BytesOf(Was(EAX))[k - 1] ELSE BytesOf(Was(EBX))[k - 5]]

Computes(p) ==
  LET a == Was(EAX)  b == Was(EBX)  c == Was(ECX)  d == Was(EDX)  name == p.name  n == p.n
      wide == Long(a, d)  other == Long(b, c)  got == Long(Is(EAX), Is(EDX))
  IN  CASE name = "add64" -> got = Wrap(wide + other, 8)
        [] name = "cmp64" -> /\ got = Wrap(wide - other, 8)
                             /\ CondEval(cpu.f, 2) = (wide < other)
                             /\ CondEval(cpu.f, 12) = (SgLong(wide) < SgLong(other))
        [] name = "neg64" -> got = Wrap(0 - wide, 8)
        [] name = "step64" -> got = Wrap(wide + b, 8) /\ Is(ECX) = Wrap(c + 1, 4)
        [] name = "dbl64" -> got = Wrap(2 * wide, 8) /\ ("CF" \in cpu.f) = (2 * wide >= Size(8))
        [] name = "half64" -> got = wide \div 2 /\ ("CF" \in cpu.f) = (wide % 2 = 1)
        [] name = "abs"   -> Is(EAX) = Wrap(IF Neg(a, 4) THEN 0 - a ELSE a, 4)
        [] name = "less"  -> Is(EAX) = IF a < b THEN 1 ELSE 0
        [] name = "max"   -> Signed(Is(EAX), 4) = IF Sg(EAX, 4) < Sg(EBX, 4) THEN Sg(EBX, 4) ELSE Sg(EAX, 4)
        [] name = "mul"   -> IF b = 0 THEN cpu.dead ELSE Is(EAX) = a /\ Is(EDX) = 0
        [] name = "imul"  -> IF b = 0 THEN cpu.dead ELSE Is(EAX) = a /\ Is(EDX) = 0
        [] name = "mod"   -> IF b = 0 \/ Trunc(Sg(EAX, 4), Sg(EBX, 4)) >= Size(4) \div 2 THEN cpu.dead
                             ELSE /\ Signed(Is(EAX), 4) = Trunc(Sg(EAX, 4), Sg(EBX, 4))
                                  /\ Signed(Is(EDX), 4) = Sg(EAX, 4) - Trunc(Sg(EAX, 4), Sg(EBX, 4)) * Sg(EBX, 4)
        [] name = "imul3" -> Is(EAX) = Wrap(a * b, 4)
        [] name = "lea"   -> Is(EDX) = Wrap(5 * a, 4) /\ Is(EBX) = Wrap(b - 1, 4) /\ cpu.f = S.f
        [] name = "half"  -> Signed(Is(EAX), 4) = Trunc(Sg(EAX, 4), 2 ^ n)
        [] name = "set4"  -> Is(EDX) = d - Wrap(d, 1) + IF Compares(n, a, b, 4) THEN 1 ELSE 0
        [] name = "set2"  -> Is(EDX) = d - Wrap(d, 1) + IF Compares(n, Get(S.r, EAX, 2), Get(S.r, EBX, 2), 2) THEN 1 ELSE 0
        [] name = "set1"  -> Get(cpu.r, 6, 1) = (IF Compares(n, Get(S.r, EAX, 1), Get(S.r, 7, 1), 1) THEN 1 ELSE 0)
                             /\ Is(EDX) - Get(cpu.r, 6, 1) * Size(1) = d - Get(S.r, 6, 1) * Size(1)
        [] name = "shl64" -> c < Bits(4) => got = Wrap(wide * 2 ^ c, 8)
        [] name = "sar64" -> c < Bits(4) => got = Wrap(SgLong(wide) \div 2 ^ c, 8)
        [] name = "bswap" -> \A k \in 0..3 : BytesOf(Is(EAX))[k] = BytesOf(a)[3 - k]
        [] name = "cwde"  -> Is(EAX) = Wrap(Sg(EAX, 1), 4)
        [] name = "flags" -> /\ Is(EAX) = a - Bit(a, 0) + 1 + 2 * (1 - 2 * Bit(a, 1))
                             /\ Wrap(Is(EDX), 1) = 1 - Bit(a, 1)
        [] name = "turn"  -> Is(EAX) = a
        [] name = "bytes" -> /\ BytesOf(Is(EAX)) = [BytesOf(a) EXCEPT ![0] = BytesOf(a)[1], ![1] = BytesOf(a)[0]]
                             /\ BytesOf(Is(EDX)) = [BytesOf(d) EXCEPT ![0] = BytesOf(b)[1]]
                             /\ Is(EBX) = Wrap(Sg(EBX, 1), 4)
        [] name = "bits"  -> /\ a # 0 => 2 ^ Is(EBX) <= a /\ a < 2 ^ (Is(EBX) + 1) /\ a % 2 ^ (Is(EDX) + 1) = 2 ^ Is(EDX)
                             /\ a = 0 => Is(EBX) = b /\ Is(EDX) = d
                             /\ Is(EAX) = a - Bit(a, n) * 2 ^ n /\ ("CF" \in cpu.f) = (Bit(a, n) = 1)
        [] name = "xadd"  -> Is(EAX) = Wrap(a + b, 4) /\ Is(EBX) = a
        [] name = "sum"   -> Is(EAX) = Wrap((c * (c + 1)) \div 2, 4) /\ Is(ECX) = 0
        [] name = "call"  -> Is(EAX) = Wrap(b - a, 4)
        [] name = "enter" -> Is(EAX) = b /\ Is(EDX) = Was(ESP)
        [] name = "upto"  -> \A k \in 1..7 : k <= 7 - Is(ECX) =>
                               /\ cpu.mem[DstAt + k - 1] = Text[k]
                               /\ (Text[k] = 0) => k = 7 - Is(ECX)
        [] name = "seh"   -> Is(EAX) = b /\ Is(EDX) = b /\ Read(cpu.mem, FsBase, 4) = Read(S.mem, FsBase, 4)
        [] name = "copy"  -> Buffer(DstAt, n) = SubSeq(Text, 1, n) /\ Buffer(SrcAt, 8) = Text /\ cpu.mem[DstAt + n] = S.mem[DstAt + n]
        [] name = "slide" -> Buffer(SrcAt + 2, 8) = Text
        [] name = "len"   -> \A k \in 0..3 : BytesOf(b)[k] = 0 /\ (\A j \in 0..(k - 1) : BytesOf(b)[j] # 0) => Is(ECX) = k
        [] name = "same"  -> Is(EDX) = d - Wrap(d, 1) +
                               IF \E k \in 0..3 : BytesOf(a)[k] < BytesOf(b)[k] /\ \A j \in 0..(k - 1) : BytesOf(a)[j] = BytesOf(b)[j]
                               THEN 1 ELSE 0
        [] name = "x87"   -> /\ St(cpu, 1) = (Sg(EAX, 4) + Sg(EBX, 4)) * (Sg(EBX, 4) - Sg(EAX, 4))
                             /\ (Wrap(Is(EDX), 1) = 1) = (Sg(EAX, 4) > St(cpu, 1))
        [] name = "sse"   -> /\ Is(EDX) = a /\ Read(cpu.mem, DstAt, 4) = b
                             /\ Read(cpu.mem, DstAt + 4, 4) = Read(S.mem, SrcAt + 12, 4)

(* Every program computes what it is written to compute, and changes nothing *)
(* else: wide arithmetic carries, comparisons of every width agree with all  *)
(* sixteen conditions, divisions round and die as they must, counts and      *)
(* directions of string instructions, frames, byte registers and the two     *)
(* other register files fit together.                                        *)
ProgramsCompute ==
  prog # NoProgram /\ Halted =>
    /\ Computes(prog)
    /\ ~ cpu.dead => \A k \in (0..7) \ prog.out : Is(k) = Was(k)
    /\ \A m \in 0..(SrcAt - 1) \cup StackAt..(NMem - 1) : cpu.mem[m] = S.mem[m]
    /\ prog \notin Memories => cpu.mem = S.mem
=============================================================================
