------------------------------- MODULE X86Cpu -------------------------------
(***************************************************************************)
(* The registers, the memory and the operand decoding of the emulated      *)
(* processor (libs/x86emu/decode.c, x86emu/regs.h and the stack operations *)
(* of prim_ops.c), as operators on one record c, the M.x86 of the code:    *)
(*   r       the general registers 0 .. 7, EAX ECX EDX EBX ESP EBP ESI EDI *)
(*   seg     the segment registers                                         *)
(*   ip      EIP, of which the low word is fetched from                    *)
(*   f       the flags that are on                                         *)
(*   mode    the prefixes seen, and whether SS is the default segment      *)
(*   intr    what is pending: "halted", "synch"; intno its number          *)
(*   mem     the bytes that were written, at linear addresses; 0 elsewhere *)
(*   io      what went out of the ports                                    *)
(*   tsc     the counter of RDTSC                                          *)
(*   code    the program, an item at each linear address it occupies       *)
(* An item of a program is the number of an opcode, a ModRM byte or a SIB  *)
(* byte split into its three fields, or a byte of an immediate.  Programs  *)
(* do not write to themselves: code and mem are apart.                     *)
(***************************************************************************)
EXTENDS X86Alu, Sequences, TLC

CONSTANTS
  PARA,          \* bytes a segment register counts by, 16 in the code
  FlagBit,       \* the flags register: the place of each flag
  AlwaysOn,      \* the bit of it that always reads as one
  In(_, _),      \* what the device at a port answers at a width
  HwCpuid(_)     \* EAX, EBX, ECX and EDX as the CPUID of the host answers

FlagNames == {"CF", "PF", "AF", "ZF", "SF", "TF", "IF", "DF", "OF"}

ASSUME CpuAssumption ==
  /\ PARA \in Nat \ {0}
  /\ DOMAIN FlagBit = FlagNames
  /\ AlwaysOn \in 0 .. BYTE - 1
  /\ \A n \in FlagNames : FlagBit[n] \in (0 .. WORD - 1) \ {AlwaysOn}

EAX == 0    ECX == 1    EDX == 2    EBX == 3
ESP == 4    EBP == 5    ESI == 6    EDI == 7

SEGOVR == {"CS", "DS", "ES", "FS", "GS", "SS"}
REP == {"PREFIX_REPE", "PREFIX_REPNE"}
CLRMASK == SEGOVR \cup {"SEG_DS_SS", "PREFIX_DATA", "PREFIX_ADDR"}

Bytes(w) == w \div BYTE
Halted(c) == [c EXCEPT !.intr = @ \cup {"halted"}]
Raised(c, n) == [c EXCEPT !.intr = @ \cup {"synch"}, !.intno = n]
Mode(c, m) == [c EXCEPT !.mode = @ \cup {m}]

\* DECODE_CLEAR_SEGOVR, the end of an instruction; the REP bits stay.
Ended(c) == [c EXCEPT !.mode = @ \ CLRMASK]

-----------------------------------------------------------------------------
\* Registers.  Of a byte register n >= 4 is the second byte of register n - 4.

Reg(c, w, n) ==
  IF w = BYTE /\ n >= 4 THEN (c.r[n - 4] \div 2^BYTE) % 2^BYTE ELSE c.r[n] % 2^w

SetReg(c, w, n, v) ==
  IF w = BYTE /\ n >= 4
  THEN [c EXCEPT !.r[n - 4] = @ + (v - Reg(c, w, n)) * 2^BYTE]
  ELSE [c EXCEPT !.r[n] = @ - Reg(c, w, n) + v]

Word(c, n) == Reg(c, WORD, n)
IP(c) == c.ip % 2^WORD
SetIP(c, v) == [c EXCEPT !.ip = @ - IP(c) + (v % 2^WORD)]
Jump(c, s, v) == [SetIP(c, v) EXCEPT !.seg["CS"] = s]

\* The segment registers of a ModRM byte; there is no sixth or seventh.
SegName == <<"ES", "CS", "SS", "DS", "FS", "GS">>

\* PREFIX_DATA makes words long.
OpSize(c) == IF "PREFIX_DATA" \in c.mode THEN LONG ELSE WORD

\* The flags register as a number, and the flags a number stands for: the
\* named bits only, neither IOPL nor the reserved bits but the one that is on.
FlagsWord(f) == Value({FlagBit[n] : n \in f} \cup {AlwaysOn})
FlagsOf(v) == {n \in FlagNames : Bit(v, FlagBit[n])}

-----------------------------------------------------------------------------
\* Memory: little-endian, at linear addresses, which do not wrap.
Linear(c, s, off) == s * PARA + off

\* The value of n bytes.
LittleEndian(n, byte) ==
  LET v[k \in 0 .. n] == IF k = 0 THEN 0 ELSE byte[n - k] + v[k - 1] * 2^BYTE IN v[n]

Load(c, w, at) ==
  LittleEndian(Bytes(w), [k \in 0 .. Bytes(w) - 1 |->
                           IF at + k \in DOMAIN c.mem THEN c.mem[at + k] ELSE 0])

Store(c, w, at, v) ==
  [c EXCEPT !.mem =
    [x \in at .. at + Bytes(w) - 1 |-> (v \div 2^((x - at) * BYTE)) % 2^BYTE] @@ @]

\* fetch_byte_imm, fetch_word_imm and fetch_long_imm: the value at CS:IP, and
\* the processor past it.
Item(c, k) == c.code[Linear(c, c.seg["CS"], IP(c)) + k]
Imm(c, w) == LittleEndian(Bytes(w), [k \in 0 .. Bytes(w) - 1 |-> Item(c, k)])
Past(c, w) == SetIP(c, IP(c) + Bytes(w))
Disp(c, w) == Signed(w, Imm(c, w))

\* The segment data is in: the override, or SS for addresses built on the
\* stack pointers, or DS.  More than one override halts the processor, and
\* the access goes to segment 0.
get_data_segment(c) ==
  LET over == c.mode \cap SEGOVR
  IN  CASE over = {} -> c.seg[IF "SEG_DS_SS" \in c.mode THEN "SS" ELSE "DS"]
        [] Cardinality(over) = 1 -> c.seg[CHOOSE s \in over : TRUE]
        [] OTHER -> 0
Accessed(c) == IF Cardinality(c.mode \cap SEGOVR) > 1 THEN Halted(c) ELSE c

-----------------------------------------------------------------------------
\* The stack: SP is a word and wraps, the address does not.
push(c, w, v) ==
  LET sp == (Word(c, ESP) - Bytes(w)) % 2^WORD
  IN  Store(SetReg(c, WORD, ESP, sp), w, Linear(c, c.seg["SS"], sp), v)
Top(c, w) == Load(c, w, Linear(c, c.seg["SS"], Word(c, ESP)))

Dropped(c, w) == SetReg(c, WORD, ESP, (Word(c, ESP) + Bytes(w)) % 2^WORD)

-----------------------------------------------------------------------------
\* Addresses.  Each decoder gives the processor past what it fetched and the
\* offset; a decoder of the stack pointers makes SS the default segment.
At(c, off) == [c |-> c, off |-> off]
OnStack(x) == [x EXCEPT !.c = Mode(@, "SEG_DS_SS")]

\* The registers of 16-bit addresses, by the rm field.
Base16 == << <<EBX, ESI>>, <<EBX, EDI>>, <<EBP, ESI>>, <<EBP, EDI>>,
             <<ESI>>, <<EDI>>, <<EBP>>, <<EBX>> >>
Sum16(c, n) == Word(c, n[1]) + (IF Len(n) = 2 THEN Word(c, n[2]) ELSE 0)
Near16(c, rm, disp) ==
  LET x == At(c, (Sum16(c, Base16[rm + 1]) + disp) % 2^WORD)
  IN  IF Base16[rm + 1][1] = EBP THEN OnStack(x) ELSE x

\* Base 5 is a displacement when mod is 0, and else ESP, as base 4 is.
decode_sib_address(c, sib, mod) ==
  LET index == (IF sib.index = 4 THEN 0 ELSE c.r[sib.index]) * 2^sib.scale
      On(x, base) == At(x, (base + index) % 2^LONG)
  IN  CASE sib.base = 5 /\ mod = 0 -> On(Past(c, LONG), Imm(c, LONG))
        [] sib.base \in {4, 5} /\ ~ (sib.base = 5 /\ mod = 0) -> OnStack(On(c, c.r[ESP]))
        [] OTHER -> On(c, c.r[sib.base])

Wide(c) == "PREFIX_ADDR" \in c.mode

decode_rm00_address(c, rm) ==
  CASE ~ Wide(c) /\ rm = 6 -> At(Past(c, WORD), Imm(c, WORD))
    [] ~ Wide(c) /\ rm # 6 -> Near16(c, rm, 0)
    [] Wide(c) /\ rm = 4 -> decode_sib_address(Past(c, BYTE), Item(c, 0), 0)
    [] Wide(c) /\ rm = 5 -> At(Past(c, LONG), Imm(c, LONG))
    [] OTHER -> At(c, c.r[rm])

\* The displacement comes before the base, but after a SIB byte.
WithSib(c, w, mod) ==
  LET d == Past(c, BYTE)
      x == decode_sib_address(Past(d, w), Item(c, 0), mod)
  IN  [x EXCEPT !.off = (@ + Disp(d, w)) % 2^LONG]

\* Mutant of decode_rm01_address: the displacement is taken as unsigned.
decode_rm01_unsigned(c, rm) ==
  LET d == Past(c, BYTE)
  IN  CASE ~ Wide(c) -> Near16(d, rm, Imm(c, BYTE))
        [] Wide(c) /\ rm = 4 -> WithSib(c, BYTE, 1)
        [] OTHER -> At(d, (c.r[rm] + Imm(c, BYTE)) % 2^LONG)

decode_rm01_address(c, rm) ==
  LET d == Past(c, BYTE)
  IN  CASE ~ Wide(c) -> Near16(d, rm, Disp(c, BYTE))
        [] Wide(c) /\ rm = 4 -> WithSib(c, BYTE, 1)
        [] OTHER -> At(d, (c.r[rm] + Disp(c, BYTE)) % 2^LONG)

\* EDX with a displacement is taken for a stack address, EBP is not.
decode_rm10_address(c, rm) ==
  LET d == Past(c, LONG)
      x == At(d, (c.r[rm] + Imm(c, LONG)) % 2^LONG)
  IN  CASE ~ Wide(c) -> Near16(Past(c, WORD), rm, Imm(c, WORD))
        [] Wide(c) /\ rm = 4 -> WithSib(c, LONG, 2)
        [] Wide(c) /\ rm = 2 -> OnStack(x)
        [] OTHER -> x

-----------------------------------------------------------------------------
\* An operand: the ModRM byte m, the processor c past it and its address, and
\* for memory the offset.
Decoded(m, d) ==
  CASE m.mod = 0 -> decode_rm00_address(d, m.rl)
    [] m.mod = 1 -> decode_rm01_address(d, m.rl)
    [] m.mod = 2 -> decode_rm10_address(d, m.rl)
    [] m.mod = 3 -> At(d, 0)
Addressed(m, x) == [c |-> x.c, off |-> x.off, m |-> m]
Operand(c) == Addressed(Item(c, 0), Decoded(Item(c, 0), Past(c, BYTE)))

InMemory(x) == x.m.mod # 3
DataAt(c, off) == Linear(c, get_data_segment(c), off)

\* What the operand x of processor c holds, at an offset for pointers; c after
\* it was looked at; and c after v was stored to it.
Read(c, w, x) ==
  IF InMemory(x) THEN Load(c, w, DataAt(c, x.off)) ELSE Reg(c, w, x.m.rl)
Looked(c, x) == IF InMemory(x) THEN Accessed(c) ELSE c
Write(c, w, x, v) ==
  IF InMemory(x) THEN Store(Accessed(c), w, DataAt(c, x.off), v) ELSE SetReg(c, w, x.m.rl, v)
=============================================================================
