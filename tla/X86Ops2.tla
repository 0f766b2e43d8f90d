------------------------------- MODULE X86Ops2 -------------------------------
(***************************************************************************)
(* The opcodes of two bytes (libs/x86emu/ops2.c): a handler each, and the  *)
(* table of them.  Those of several opcodes take the opcode as well.       *)
(***************************************************************************)
EXTENDS X86Forms

x86emuOp2_illegal_op(c) == Halted(c)

\* The counter counts by 2^WORD.
x86emuOp2_rdtsc(c) ==
  LET t == (c.tsc + 2^WORD) % 2^LONG
  IN  Ended([SetPair(c, LONG, t, 0) EXCEPT !.tsc = t])

x86emuOp2_long_jump(c, op2) == JumpIf(c, WORD, Condition(c.f, op2 % 16))

RM_value(x, v) == Ended(Write(x.c, BYTE, x, v))

\* SETNL stores what SETL does.
x86emuOp2_set_byte(c, op2) ==
  LET on == Condition(c.f, IF op2 = 157 THEN 12 ELSE op2 % 16)
  IN  RM_value(Operand(c), IF on THEN 1 ELSE 0)

x86emuOp2_push_FS(c) == push_seg(c, "FS")
x86emuOp2_pop_FS(c) == pop_seg(c, "FS")
x86emuOp2_push_GS(c) == push_seg(c, "GS")
x86emuOp2_pop_GS(c) == pop_seg(c, "GS")

\* cpuid: the host answers for 0 and 1, of whose features TSC and VME are kept.
x86emuOp2_cpuid(c) ==
  LET hw == HwCpuid(c.r[EAX])
      e == CASE c.r[EAX] = 0 -> [hw EXCEPT ![EAX] = 1]
             [] c.r[EAX] = 1 -> [hw EXCEPT ![EDX] = Value(Bits(LONG, @) \cap {1, 4})]
             [] OTHER -> [n \in EAX .. EBX |-> 0]
  IN  Ended([c EXCEPT !.r = e @@ @])

-----------------------------------------------------------------------------
\* Bit b of a value goes to the carry and changes as the operation says.
BitTested(w, f, v, b, how) ==
  [val |-> IF Bit(v, b) THEN (IF how \in {"btr", "btc"} THEN v - 2^b ELSE v)
           ELSE (IF how \in {"bts", "btc"} THEN v + 2^b ELSE v),
   f |-> Set(f, {"CF"}, Flag("CF", Bit(v, b)))]
BitStored(c, w, x, b, how) ==
  IF how = "bt" THEN Ended(Put(Looked(c, x), BitTested(w, c.f, Read(x.c, w, x), b, how).f))
  ELSE ToOperand(c, w, x, BitTested(w, c.f, Read(x.c, w, x), b, how))

\* With the bit in a register: in memory the register counts on, below and
\* above the operand, by bytes where it should by words; only its low word
\* counts.
Reached(x, disp) == IF InMemory(x) THEN [x EXCEPT !.off = (@ + disp) % 2^LONG] ELSE x
BitString(x, w, how) ==
  BitStored(x.c, w, Reached(x, Signed(WORD, Reg(x.c, WORD, x.m.rh)) \div w),
            Reg(x.c, w, x.m.rh) % w, how)
x86emuOp2_bt_R(c) == BitString(Operand(c), OpSize(c), "bt")
x86emuOp2_bts_R(c) == BitString(Operand(c), OpSize(c), "bts")
x86emuOp2_btr_R(c) == BitString(Operand(c), OpSize(c), "btr")
x86emuOp2_btc_R(c) == BitString(Operand(c), OpSize(c), "btc")

\* With the bit in an immediate; the register fields below 4 halt, and go on.
BitField(x, w) ==
  LET d == Past(x.c, BYTE)
  IN  BitStored(IF x.m.rh < 4 THEN Halted(d) ELSE d, w, x, Imm(x.c, BYTE) % w,
        CASE x.m.rh = 5 -> "bts" [] x.m.rh = 6 -> "btr" [] x.m.rh = 7 -> "btc" [] OTHER -> "bt")
x86emuOp2_btX_I(c) == BitField(Operand(c), OpSize(c))

-----------------------------------------------------------------------------
\* SHLD and SHRD, by an immediate or by CL.
Doubled(d, w, x, op(_, _, _, _, _), s) ==
  ToOperand(d, w, x, op(w, x.c.f, Read(x.c, w, x), Reg(x.c, w, x.m.rh), s))
Doubled_IMM(x, w, op(_, _, _, _, _)) == Doubled(Past(x.c, BYTE), w, x, op, Imm(x.c, BYTE))
Doubled_CL(x, w, op(_, _, _, _, _)) == Doubled(x.c, w, x, op, Reg(x.c, BYTE, ECX))
x86emuOp2_shld_IMM(c) == Doubled_IMM(Operand(c), OpSize(c), shld)
x86emuOp2_shld_CL(c) == Doubled_CL(Operand(c), OpSize(c), shld)
x86emuOp2_shrd_IMM(c) == Doubled_IMM(Operand(c), OpSize(c), shrd)
x86emuOp2_shrd_CL(c) == Doubled_CL(Operand(c), OpSize(c), shrd)

x86emuOp2_imul_R_RM(c) == R_RM(Operand(c), OpSize(c), imul_R)

x86emuOp2_lss_R_IMM(c) == FarPointer(Operand(c), "SS")
x86emuOp2_lfs_R_IMM(c) == FarPointer(Operand(c), "FS")
x86emuOp2_lgs_R_IMM(c) == FarPointer(Operand(c), "GS")

\* An operand of v bits, extended to a register of w.
MovedUp(x, v, w, value) == Ended(SetReg(Looked(x.c, x), w, x.m.rh, value))
ByZeros(x, v, w) == MovedUp(x, v, w, Read(x.c, v, x))
BySign(x, v, w) == MovedUp(x, v, w, Extended(v, w, Read(x.c, v, x)))
x86emuOp2_movzx_byte_R_RM(c) == ByZeros(Operand(c), BYTE, OpSize(c))
x86emuOp2_movzx_word_R_RM(c) == ByZeros(Operand(c), WORD, LONG)
x86emuOp2_movsx_byte_R_RM(c) == BySign(Operand(c), BYTE, OpSize(c))
x86emuOp2_movsx_word_R_RM(c) == BySign(Operand(c), WORD, LONG)

\* The lowest and the highest bit that is on; of zero, the width and 0.
Scanned(x, w, none, first(_)) ==
  LET S == Bits(w, Read(x.c, w, x))
  IN  ToReg(Looked(x.c, x), w, x.m.rh,
        [val |-> IF S = {} THEN none ELSE first(S), f |-> Set(x.c.f, {"ZF"}, Flag("ZF", S = {}))])
x86emuOp2_bsf(c) == Scanned(Operand(c), OpSize(c), OpSize(c), Min)
x86emuOp2_bsr(c) == Scanned(Operand(c), OpSize(c), 0, Max)

x86emuOp2_bswap(c, op2) ==
  LET v == c.r[op2 % 8]
      byte(k) == (v \div 2^(k * BYTE)) % 2^BYTE
  IN  Ended(SetReg(c, LONG, op2 % 8,
        LittleEndian(4, [k \in 0 .. 3 |-> byte(3 - k)])))

-----------------------------------------------------------------------------
\* The table.
x86emu_optab2(c, o) ==
  CASE o = 49 -> x86emuOp2_rdtsc(c)
    [] o \in 128 .. 143 -> x86emuOp2_long_jump(c, o)
    [] o \in 144 .. 159 -> x86emuOp2_set_byte(c, o)
    [] o = 160 -> x86emuOp2_push_FS(c)      [] o = 161 -> x86emuOp2_pop_FS(c)
    [] o = 162 -> x86emuOp2_cpuid(c)        [] o = 163 -> x86emuOp2_bt_R(c)
    [] o = 164 -> x86emuOp2_shld_IMM(c)     [] o = 165 -> x86emuOp2_shld_CL(c)
    [] o = 168 -> x86emuOp2_push_GS(c)      [] o = 169 -> x86emuOp2_pop_GS(c)
    [] o = 171 -> x86emuOp2_bts_R(c)
    [] o = 172 -> x86emuOp2_shrd_IMM(c)     [] o = 173 -> x86emuOp2_shrd_CL(c)
    [] o = 175 -> x86emuOp2_imul_R_RM(c)    [] o = 178 -> x86emuOp2_lss_R_IMM(c)
    [] o = 179 -> x86emuOp2_btr_R(c)
    [] o = 180 -> x86emuOp2_lfs_R_IMM(c)    [] o = 181 -> x86emuOp2_lgs_R_IMM(c)
    [] o = 182 -> x86emuOp2_movzx_byte_R_RM(c)
    [] o = 183 -> x86emuOp2_movzx_word_R_RM(c)
    [] o = 186 -> x86emuOp2_btX_I(c)        [] o = 187 -> x86emuOp2_btc_R(c)
    [] o = 188 -> x86emuOp2_bsf(c)          [] o = 189 -> x86emuOp2_bsr(c)
    [] o = 190 -> x86emuOp2_movsx_byte_R_RM(c)
    [] o = 191 -> x86emuOp2_movsx_word_R_RM(c)
    [] o \in 200 .. 207 -> x86emuOp2_bswap(c, o)
    [] OTHER -> x86emuOp2_illegal_op(c)
=============================================================================
