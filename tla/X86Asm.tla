------------------------------- MODULE X86Asm -------------------------------
(***************************************************************************)
(* An assembler for the programs the machine is run on: all the ways an    *)
(* instruction of X86Isa can be encoded, after the opcode map of the       *)
(* processor and not after the tables of the emulator.  The environment of *)
(* the runs, not a part of the program.                                    *)
(***************************************************************************)
EXTENDS X86Machine, SequencesExt

\* Operands of width w: a register, memory at an offset of DS, a number.
Lane(w, n) == IF w = BYTE /\ n >= 4 THEN <<<<"r", n - 4, 1>>>>
              ELSE [k \in 1 .. Bytes(w) |-> <<"r", n, k - 1>>]
R(w, n) == [cells |-> Lane(w, n), reg |-> n]
M(w, ds, off) ==
  [cells |-> [k \in 1 .. Bytes(w) |-> <<"m", ds * PARA + off + k - 1, 0>>], off |-> off]
S(n) == [cells |-> [k \in 1 .. 2 |-> <<"s", n, k - 1>>], segment |-> n]
I(v) == [imm |-> v]

\* Two operands as one of twice the width: the low half comes first.
Pair(x, y) == [cells |-> x.cells \o y.cells, reg |-> x.reg]
Accumulator(w) == Pair(R(w, EAX), R(w, IF w = BYTE THEN 4 ELSE EDX))

IsReg(x) == "reg" \in DOMAIN x
IsMem(x) == "off" \in DOMAIN x
IsImm(x) == "imm" \in DOMAIN x
IsSeg(x) == "segment" \in DOMAIN x
WidthOf(x) == Len(x.cells) * BYTE

Number(w, v) == [k \in 1 .. Bytes(w) |-> (v \div 2^((k - 1) * BYTE)) % 2^BYTE]

\* A ModRM byte, with the displacement of a direct address.
RM(x, h) ==
  IF IsReg(x) THEN <<[mod |-> 3, rh |-> h, rl |-> x.reg]>>
  ELSE <<[mod |-> 0, rh |-> h, rl |-> 6]>> \o Number(WORD, x.off)

If(cond, code) == IF cond THEN {code} ELSE {}

OpNumber ==
  [add |-> 0, or |-> 1, adc |-> 2, sbb |-> 3, and |-> 4, sub |-> 5, xor |-> 6, cmp |-> 7]
ShiftNumber == [shl |-> 4, shr |-> 5, sar |-> 7]
PairNumber == [mul |-> 4, imul |-> 5, div |-> 6, idiv |-> 7]
TestNumber == [bt |-> 0, bts |-> 1, btr |-> 2, btc |-> 3]

\* The encodings by the kind of the operation, without the size prefix.
Binary(i, w, b) ==
  LET k == OpNumber[i.op]
      short == Extended(BYTE, w, i.src.imm % 2^BYTE) = i.src.imm
  IN  IF IsImm(i.src)
      THEN If(i.dst = R(w, EAX), <<8 * k + 4 + b>> \o Number(w, i.src.imm))
           \cup {<<\h80 + b>> \o RM(i.dst, k) \o Number(w, i.src.imm)}
           \cup If(b = 0, <<\h82>> \o RM(i.dst, k) \o Number(w, i.src.imm))
           \cup If(b = 1 /\ short, <<\h83>> \o RM(i.dst, k) \o Number(BYTE, i.src.imm))
      ELSE If(IsReg(i.src), <<8 * k + b>> \o RM(i.dst, i.src.reg))
           \cup If(IsReg(i.dst), <<8 * k + 2 + b>> \o RM(i.src, i.dst.reg))

Mov(i, w, b) ==
  IF IsImm(i.src)
  THEN If(IsReg(i.dst), <<\hb0 + 8 * b + i.dst.reg>> \o Number(w, i.src.imm))
       \cup {<<\hc6 + b>> \o RM(i.dst, 0) \o Number(w, i.src.imm)}
  ELSE If(IsReg(i.src), <<\h88 + b>> \o RM(i.dst, i.src.reg))
       \cup If(IsReg(i.dst), <<\h8a + b>> \o RM(i.src, i.dst.reg))
       \cup If(i.dst = R(w, EAX) /\ IsMem(i.src), <<\ha0 + b>> \o Number(WORD, i.src.off))
       \cup If(i.src = R(w, EAX) /\ IsMem(i.dst), <<\ha2 + b>> \o Number(WORD, i.dst.off))

Test(i, w, b) ==
  IF IsImm(i.src)
  THEN If(i.dst = R(w, EAX), <<\ha8 + b>> \o Number(w, i.src.imm))
       \cup {<<\hf6 + b>> \o RM(i.dst, 0) \o Number(w, i.src.imm)}
  ELSE If(IsReg(i.src), <<\h84 + b>> \o RM(i.dst, i.src.reg))

Xchg(i, w, b) ==
  If(IsReg(i.src), <<\h86 + b>> \o RM(i.dst, i.src.reg))
  \cup If(b = 1 /\ IsReg(i.src) /\ i.dst = R(w, EAX) /\ i.src.reg # EAX,
          <<\h90 + i.src.reg>>)

Unaries(i, w, b) ==
  CASE i.op \in {"inc", "dec"} ->
         LET k == IF i.op = "inc" THEN 0 ELSE 1
         IN  {<<\hfe + b>> \o RM(i.dst, k)}
             \cup If(b = 1 /\ IsReg(i.dst), <<\h40 + 8 * k + i.dst.reg>>)
    [] i.op = "not" -> {<<\hf6 + b>> \o RM(i.dst, 2)}
    [] i.op = "neg" -> {<<\hf6 + b>> \o RM(i.dst, 3)}

\* By a number, or by CL, which must hold it.
Shifts(i, w, b) ==
  LET k == ShiftNumber[i.op]
  IN  IF IsImm(i.src)
      THEN {<<\hc0 + b>> \o RM(i.dst, k) \o Number(BYTE, i.src.imm)}
           \cup If(i.src.imm = 1, <<\hd0 + b>> \o RM(i.dst, k))
      ELSE {<<\hd2 + b>> \o RM(i.dst, k)}

\* Segments, and far pointers to a register and a segment.
Segments(i) ==
  IF i.op = "lseg"
  THEN {(CASE i.segment = 0 -> <<\hc4>> [] i.segment = 3 -> <<\hc5>>
           [] i.segment = 2 -> <<15, \hb2>> [] i.segment = 4 -> <<15, \hb4>>
           [] i.segment = 5 -> <<15, \hb5>>) \o RM(i.src, i.dst.reg)}
  ELSE IF IsSeg(i.src) THEN {<<\h8c>> \o RM(i.dst, i.src.segment)}
  ELSE {<<\h8e>> \o RM(i.src, i.dst.segment)}

\* Products and quotients of a pair; a product of two operands, or of one and
\* an immediate.
Products(i, w, b) ==
  IF i.op # "times" THEN {<<\hf6 + b>> \o RM(i.src, PairNumber[i.op])}
  ELSE IF ~ IsImm(i.src) THEN {<<15, \haf>> \o RM(i.src, i.dst.reg)}
  ELSE {<<\h69>> \o RM(i.dst, i.dst.reg) \o Number(w, i.src.imm)}
       \cup If(i.src.imm < 2^(BYTE - 1),
               <<\h6b>> \o RM(i.dst, i.dst.reg) \o Number(BYTE, i.src.imm))

\* The opcodes of two bytes, all of words and longs.
TwoByte(i, w) ==
  CASE i.op \in {"movzx", "movsx"} ->
         {<<15, (IF i.op = "movzx" THEN \hb6 ELSE \hbe) + (IF WidthOf(i.src) = BYTE THEN 0 ELSE 1)>>
           \o RM(i.src, i.dst.reg)}
    [] i.op \in {"bt", "bts", "btr", "btc"} ->
         LET k == TestNumber[i.op]
         IN  IF IsImm(i.src) THEN {<<15, \hba>> \o RM(i.dst, 4 + k) \o Number(BYTE, i.src.imm)}
             ELSE {<<15, \ha3 + 8 * k>> \o RM(i.dst, i.src.reg)}
    [] i.op \in {"bsf", "bsr"} ->
         {<<15, IF i.op = "bsf" THEN \hbc ELSE \hbd>> \o RM(i.src, i.dst.reg)}
    [] i.op = "bswap" -> {<<15, \hc8 + i.dst.reg>>}

\* The width the operand size and the opcode say; that of cwd is of one half.
Size(i) ==
  CASE i.op \in DOMAIN PairNumber -> WidthOf(i.src)
    [] i.op \in {"lseg", "mov_seg"} -> WORD
    [] i.op = "cwd" -> WidthOf(i.dst) \div 2
    [] OTHER -> WidthOf(i.dst)

Encodings(i) ==
  LET w == Size(i)
      b == IF w = BYTE THEN 0 ELSE 1
      codes == CASE i.op \in DOMAIN OpNumber -> Binary(i, w, b)
                 [] i.op = "mov" -> Mov(i, w, b)
                 [] i.op \in {"lseg", "mov_seg"} -> Segments(i)
                 [] i.op = "test" -> Test(i, w, b)
                 [] i.op = "xchg" -> Xchg(i, w, b)
                 [] i.op \in {"inc", "dec", "not", "neg"} -> Unaries(i, w, b)
                 [] i.op \in DOMAIN ShiftNumber -> Shifts(i, w, b)
                 [] i.op \in DOMAIN PairNumber \cup {"times"} -> Products(i, w, b)
                 [] i.op = "cbw" -> {<<\h98>>}
                 [] i.op = "cwd" -> {<<\h99>>}
                 [] OTHER -> TwoByte(i, w)
  IN  {(IF w = LONG THEN <<\h66>> ELSE <<>>) \o code : code \in codes}

-----------------------------------------------------------------------------
\* The segment prefixes.
Override == [CS |-> \h2e, DS |-> \h3e, ES |-> \h26, SS |-> \h36, FS |-> \h64, GS |-> \h65]

\* OUT of what AL holds, and of a number: what a program tells is its trace.
OutAL == <<\he6, 1>>
Tell(n) == <<\hb0, n>> \o OutAL
Trace == [k \in DOMAIN cpu.io |-> cpu.io[k][3]]

\* A program at CS:IP of a processor c, which ends in an HLT.
Joined(parts) == FoldLeft(LAMBDA x, y : x \o y, <<>>, parts)
Loaded(c, items) ==
  LET all == Append(items, \hf4)
      at == Here(c)
  IN  [c EXCEPT !.code = [x \in at .. at + Len(all) - 1 |-> all[x - at + 1]]]

\* A processor at rest, with these registers, segments, flags and memory.
Rest(r, seg, f, mem) ==
  [r |-> r, seg |-> seg, ip |-> 0, f |-> f, mode |-> {}, intr |-> {}, intno |-> 0,
   mem |-> mem, io |-> <<>>, tsc |-> 0, code |-> <<>>]
=============================================================================
