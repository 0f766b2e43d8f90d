----------------------------- MODULE X86Idioms -----------------------------
(***************************************************************************)
(* The machine runs the idioms a BIOS writes for what one instruction does *)
(* not do: rotations there and back, shifts of pairs, flags put away and   *)
(* restored, sums of decimal numbers digit by digit, texts translated by a *)
(* table.  The carry and the flags go from one instruction to the next in  *)
(* all of them.  What a program says at port 1 is its trace.               *)
(***************************************************************************)
EXTENDS X86Asm

SizePrefix(w) == IF w = LONG THEN <<\h66>> ELSE <<>>
OpOf(w, code) == code + (IF w = BYTE THEN 0 ELSE 1)

-----------------------------------------------------------------------------
\* Rotations and double shifts of an operand x of width w by n: with the count
\* in the instruction, in CL, or, of 1, in neither.
Load_CL(n) == <<\hb1, n>>
Counted(w, x, k, n, way) ==
  CASE way = "imm" -> SizePrefix(w) \o <<OpOf(w, \hc0)>> \o RM(x, k) \o <<n>>
    [] way = "cl" -> Load_CL(n) \o SizePrefix(w) \o <<OpOf(w, \hd2)>> \o RM(x, k)
    [] way = "one" -> SizePrefix(w) \o <<OpOf(w, \hd0)>> \o RM(x, k)
DoubleShift(w, op, x, r, n, way) ==
  IF way = "cl" THEN Load_CL(n) \o SizePrefix(w) \o <<15, op + 1>> \o RM(x, r)
  ELSE SizePrefix(w) \o <<15, op>> \o RM(x, r) \o <<n>>

ValueAt(c, w, x) ==
  IF IsReg(x) THEN Reg(c, w, x.reg) ELSE Load(c, w, Linear(c, c.seg["DS"], x.off))

\* There by the rotation number k and back by the other of its kind.
Rotating(c, w, x, k, n, ways) ==
  [c |-> Loaded(c, Counted(w, x, k, n, ways[1])
                     \o Counted(w, x, IF k % 2 = 0 THEN k + 1 ELSE k - 1, n, ways[2])),
   on |-> "x86emu", kind |-> "rotate", w |-> w, x |-> x, through |-> k >= 2]

\* A rotation is undone by the one the other way, for every count an
\* instruction can name and wherever it names it; through the carry, the carry
\* too is what it was (rol_* .. rcr_* under opcC0 .. opcD3 of ops.c).  RCL of a
\* long by 32 is not among the jobs.
BitsBack ==
  Done /\ job.kind = "rotate" =>
    /\ ValueAt(cpu, job.w, job.x) = ValueAt(Start, job.w, job.x)
    /\ job.through => ("CF" \in cpu.f) = ("CF" \in Start.f)

\* The pair x:y shifted to the left, or y:x to the right: the far operand
\* first, with bits of the near one, then the near one.
PairShifted(c, w, x, r, n, left, ways) ==
  [c |-> Loaded(c, DoubleShift(w, IF left THEN \ha4 ELSE \hac, x, r, n, ways[1])
                     \o Counted(w, R(w, r), IF left THEN 4 ELSE 5, n, ways[2])),
   on |-> "x86emu", kind |-> "pair", w |-> w, x |-> x, y |-> R(w, r), n |-> n, left |-> left]

\* SHLD and SHL, or SHRD and SHR, together shift the pair as one number: each
\* bit comes to its place, also from one half to the other.
PairsShift ==
  Done /\ job.kind = "pair" =>
    LET w == job.w
        Both(c) ==
          LET x == Bits(w, ValueAt(c, w, job.x))
              y == Bits(w, ValueAt(c, w, job.y))
          IN  IF job.left THEN y \cup {w + b : b \in x} ELSE x \cup {w + b : b \in y}
    IN  Both(cpu) = {IF job.left THEN b + job.n ELSE b - job.n : b \in Both(Start)}
                      \cap (0 .. 2 * w - 1)

-----------------------------------------------------------------------------
\* Flags put away, lost to what comes between, and restored.
Kept_ == [pushf |-> <<\h9c>>, lahf |-> <<\h9f>>]
Restored == [pushf |-> <<\h9d>>, lahf |-> <<\h9e>>]
Bracketed(c, how, w, between) ==
  [c |-> Loaded(c, SizePrefix(w) \o Kept_[how] \o Joined(between) \o SizePrefix(w) \o Restored[how]),
   on |-> "x86emu", kind |-> "flags", how |-> how]

\* PUSHF and POPF bring back every flag, LAHF and SAHF those of the low byte,
\* whatever is done to them between.
FlagsBack ==
  Done /\ job.kind = "flags" =>
    /\ job.how = "pushf" => cpu.f = Start.f /\ Word(cpu, ESP) = Word(Start, ESP)
    /\ job.how = "lahf" => cpu.f \cap LowFlags = Start.f \cap LowFlags

-----------------------------------------------------------------------------
\* Decimal numbers: sequences of digits to base base, the lowest first, each
\* in a byte; two decimal digits a byte where packed.
Base_(packed) == IF packed THEN RADIX^2 ELSE RADIX
AsByte(packed, g) == IF packed THEN (g \div RADIX) * 2^NIBBLE + (g % RADIX) ELSE g
Amount(packed, s) == MapThenSumSet(LAMBDA k : s[k] * Base_(packed)^(k - 1), DOMAIN s)

\* Digit by digit: MOV AL, ADD or SUB (with carry from the second on), the
\* adjustment and OUT; at the end the carry as a digit.
Summed(c, subtract, packed, s, t) ==
  LET adjust == CASE packed /\ ~ subtract -> \h27 [] packed /\ subtract -> \h2f
                  [] ~ packed /\ ~ subtract -> \h37 [] ~ packed /\ subtract -> \h3f
      plain == IF subtract THEN \h2c ELSE \h04
      carried == IF subtract THEN \h1c ELSE \h14
      One_(k) == <<\hb0, AsByte(packed, s[k]), IF k = 1 THEN plain ELSE carried,
                   AsByte(packed, t[k]), adjust>> \o OutAL
  IN  [c |-> Loaded(c, Joined([k \in DOMAIN s |-> One_(k)]) \o <<\hb0, 0, \h14, 0>> \o OutAL),
       on |-> "x86emu", kind |-> "sum", subtract |-> subtract, packed |-> packed, s |-> s, t |-> t]

\* The digits that came out are those of the sum or the difference, and the
\* carry is that out of the highest digit: the adjustments of one digit leave
\* what the next one needs (aaa, aas, daa, das of prim_ops.c).
DecimalSums ==
  Done /\ job.kind = "sum" =>
    LET n == Len(job.s)
        all == Base_(job.packed)^n
        a == Amount(job.packed, job.s)
        b == Amount(job.packed, job.t)
        result == (IF job.subtract THEN a - b ELSE a + b) % all
        Digit_(k) == (result \div Base_(job.packed)^(k - 1)) % Base_(job.packed)
        out == IF job.subtract THEN a < b ELSE a + b >= all
    IN  Trace = [k \in 1 .. n |-> AsByte(job.packed, Digit_(k))] \o <<IF out THEN 1 ELSE 0>>

\* The product of two digits as two digits, a divisor's dividend of two.
Multiplied_(c, x, y) ==
  [c |-> Loaded(c, <<\hb0, x, \hb3, y, \hf6>> \o RM(R(BYTE, EBX), 4) \o <<\hd4, RADIX>> \o OutAL
                     \o <<\h88>> \o RM(R(BYTE, ECX), 4) \o <<\h88>> \o RM(R(BYTE, EAX), ECX) \o OutAL),
   on |-> "x86emu", kind |-> "product", x |-> x, y |-> y]
Divided_(c, hi, lo, y) ==
  [c |-> Loaded(c, <<\hb4, hi, \hb0, lo, \hb3, y, \hd5, RADIX, \hf6>> \o RM(R(BYTE, EBX), 6) \o OutAL),
   on |-> "x86emu", kind |-> "quotient", x |-> RADIX * hi + lo, y |-> y]

\* AAM splits a product into its digits, AAD joins digits for a division.
DecimalProducts ==
  Done =>
    /\ job.kind = "product" => Trace = <<(job.x * job.y) % RADIX, (job.x * job.y) \div RADIX>>
    /\ job.kind = "quotient" => Trace = <<job.x \div job.y>>

-----------------------------------------------------------------------------
\* LODSB, XLAT with an override or none, OUT and LOOP over a text at DS:SI.
Translating(c, at, table, over, text) ==
  LET turn == <<\hac, Override[over], \hd7>> \o OutAL
      Poked(d, k) == Store(d, BYTE, Linear(d, d.seg["DS"], at + k - 1), text[k])
      d == FoldLeft(Poked, c, [k \in DOMAIN text |-> k])
      e == SetReg(SetReg(SetReg(d, WORD, ESI, at), WORD, EBX, table), WORD, ECX, Len(text))
      entry == [v \in 0 .. 2^BYTE - 1 |-> (7 * v + 3) % 2^BYTE]
      Filled == [x \in {Linear(e, e.seg[over], (table + v) % 2^WORD) : v \in DOMAIN entry} |->
                  entry[CHOOSE v \in DOMAIN entry : x = Linear(e, e.seg[over], (table + v) % 2^WORD)]]
  IN  [c |-> Loaded([e EXCEPT !.mem = Filled @@ @],
               turn \o <<\he2>> \o Number(BYTE, 2^BYTE - Len(turn) - 2)),
       on |-> "x86emu", kind |-> "text", meant |-> [k \in DOMAIN text |-> entry[text[k]]]]

\* A text comes out translated, entry by entry, from a table in any segment
\* and over its end: the override is for the XLAT alone.
TextsTranslated == Done /\ job.kind = "text" => Trace = job.meant

\* A store through an operand m, LEA of the same operand, and a load through
\* what it gave.
Pointed_(c, m, disp, over, v) ==
  LET operand(h) == <<[mod |-> m.mod, rh |-> h, rl |-> m.rl]>> \o disp
      Pre == IF over = "DS" THEN <<>> ELSE <<Override[over]>>
  IN  [c |-> Loaded(c, Pre \o <<\hc6>> \o operand(0) \o <<v, \h8d>> \o operand(EBX)
               \o Pre \o <<\h8a, [mod |-> 0, rh |-> EAX, rl |-> 7]>> \o OutAL),
       on |-> "x86emu", kind |-> "pointer", v |-> v]

\* LEA gives the offset that loads and stores through its operand use.
PointersLead == Done /\ job.kind = "pointer" => Trace = <<job.v>>

-----------------------------------------------------------------------------
\* One instruction that is to change the registers of a set and no more.
Alone(c, code, changes) ==
  [on |-> "x86emu", c |-> Loaded(c, code), kind |-> "alone", changes |-> changes]

\* Coprocessor escapes with any operand, NOP, WAIT, LOCK, CPUID, RDTSC: the
\* machine comes to the next instruction, and the registers, flags, memory and
\* ports that are not the instruction's own are what they were.
NothingElse ==
  Done /\ job.kind = "alone" =>
    /\ IP(cpu) = IP(Start) + Cardinality(DOMAIN Start.code)
    /\ \A n \in (EAX .. EDI) \ job.changes : cpu.r[n] = Start.r[n]
    /\ cpu.seg = Start.seg /\ cpu.f = Start.f /\ cpu.mem = Start.mem /\ cpu.io = Start.io
    /\ cpu.mode = {}
=============================================================================
