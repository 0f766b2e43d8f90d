------------------------------ MODULE X86OpsLow ------------------------------
(***************************************************************************)
(* The opcodes of one byte from 00 to 9F (libs/x86emu/ops.c), a handler    *)
(* each.  A handler gets the processor past its opcode.  Where the name    *)
(* says word, the operand is long after the prefix for it.                 *)
(***************************************************************************)
EXTENDS X86Ops2

x86emuOp_illegal_op(c) == Halted(c)

-----------------------------------------------------------------------------
\* Opcodes 00 to 3F: eight operations in six forms, segments, prefixes.

x86emuOp_add_byte_RM_R(c) == RM_R(Operand(c), BYTE, add)
x86emuOp_add_word_RM_R(c) == RM_R(Operand(c), OpSize(c), add)
x86emuOp_add_byte_R_RM(c) == R_RM(Operand(c), BYTE, add)
x86emuOp_add_word_R_RM(c) == R_RM(Operand(c), OpSize(c), add)
x86emuOp_add_byte_AL_IMM(c) == A_IMM(c, BYTE, add)
x86emuOp_add_word_AX_IMM(c) == A_IMM(c, OpSize(c), add)

x86emuOp_or_byte_RM_R(c) == RM_R(Operand(c), BYTE, or)
x86emuOp_or_word_RM_R(c) == RM_R(Operand(c), OpSize(c), or)
x86emuOp_or_byte_R_RM(c) == R_RM(Operand(c), BYTE, or)
x86emuOp_or_word_R_RM(c) == R_RM(Operand(c), OpSize(c), or)
x86emuOp_or_byte_AL_IMM(c) == A_IMM(c, BYTE, or)
x86emuOp_or_word_AX_IMM(c) == A_IMM(c, OpSize(c), or)

x86emuOp_adc_byte_RM_R(c) == RM_R(Operand(c), BYTE, adc)
x86emuOp_adc_word_RM_R(c) == RM_R(Operand(c), OpSize(c), adc)
x86emuOp_adc_byte_R_RM(c) == R_RM(Operand(c), BYTE, adc)
x86emuOp_adc_word_R_RM(c) == R_RM(Operand(c), OpSize(c), adc)
x86emuOp_adc_byte_AL_IMM(c) == A_IMM(c, BYTE, adc)
x86emuOp_adc_word_AX_IMM(c) == A_IMM(c, OpSize(c), adc)

x86emuOp_sbb_byte_RM_R(c) == RM_R(Operand(c), BYTE, sbb)
x86emuOp_sbb_word_RM_R(c) == RM_R(Operand(c), OpSize(c), sbb)
x86emuOp_sbb_byte_R_RM(c) == R_RM(Operand(c), BYTE, sbb)
x86emuOp_sbb_word_R_RM(c) == R_RM(Operand(c), OpSize(c), sbb)
x86emuOp_sbb_byte_AL_IMM(c) == A_IMM(c, BYTE, sbb)
x86emuOp_sbb_word_AX_IMM(c) == A_IMM(c, OpSize(c), sbb)

x86emuOp_and_byte_RM_R(c) == RM_R(Operand(c), BYTE, and)
x86emuOp_and_word_RM_R(c) == RM_R(Operand(c), OpSize(c), and)
x86emuOp_and_byte_R_RM(c) == R_RM(Operand(c), BYTE, and)
x86emuOp_and_word_R_RM(c) == R_RM(Operand(c), OpSize(c), and)
x86emuOp_and_byte_AL_IMM(c) == A_IMM(c, BYTE, and)
x86emuOp_and_word_AX_IMM(c) == A_IMM(c, OpSize(c), and)

x86emuOp_sub_byte_RM_R(c) == RM_R(Operand(c), BYTE, sub)
x86emuOp_sub_word_RM_R(c) == RM_R(Operand(c), OpSize(c), sub)
x86emuOp_sub_byte_R_RM(c) == R_RM(Operand(c), BYTE, sub)
x86emuOp_sub_word_R_RM(c) == R_RM(Operand(c), OpSize(c), sub)
x86emuOp_sub_byte_AL_IMM(c) == A_IMM(c, BYTE, sub)
x86emuOp_sub_word_AX_IMM(c) == A_IMM(c, OpSize(c), sub)

x86emuOp_xor_byte_RM_R(c) == RM_R(Operand(c), BYTE, xor)
x86emuOp_xor_word_RM_R(c) == RM_R(Operand(c), OpSize(c), xor)
x86emuOp_xor_byte_R_RM(c) == R_RM(Operand(c), BYTE, xor)
x86emuOp_xor_word_R_RM(c) == R_RM(Operand(c), OpSize(c), xor)
x86emuOp_xor_byte_AL_IMM(c) == A_IMM(c, BYTE, xor)
x86emuOp_xor_word_AX_IMM(c) == A_IMM(c, OpSize(c), xor)

x86emuOp_cmp_byte_RM_R(c) == RM_R_flags(Operand(c), BYTE, cmp)
x86emuOp_cmp_word_RM_R(c) == RM_R_flags(Operand(c), OpSize(c), cmp)
x86emuOp_cmp_byte_R_RM(c) == R_RM_flags(Operand(c), BYTE, cmp)
x86emuOp_cmp_word_R_RM(c) == R_RM_flags(Operand(c), OpSize(c), cmp)
x86emuOp_cmp_byte_AL_IMM(c) == A_IMM_flags(c, BYTE, cmp)
x86emuOp_cmp_word_AX_IMM(c) == A_IMM_flags(c, OpSize(c), cmp)

x86emuOp_push_ES(c) == push_seg(c, "ES")
x86emuOp_push_CS(c) == push_seg(c, "CS")
x86emuOp_push_SS(c) == push_seg(c, "SS")
x86emuOp_push_DS(c) == push_seg(c, "DS")
x86emuOp_pop_ES(c) == pop_seg(c, "ES")
x86emuOp_pop_SS(c) == pop_seg(c, "SS")
x86emuOp_pop_DS(c) == pop_seg(c, "DS")
x86emuOp_segovr_ES(c) == Mode(c, "ES")
x86emuOp_segovr_CS(c) == Mode(c, "CS")
x86emuOp_segovr_SS(c) == Mode(c, "SS")
x86emuOp_segovr_DS(c) == Mode(c, "DS")
x86emuOp_segovr_FS(c) == Mode(c, "FS")
x86emuOp_segovr_GS(c) == Mode(c, "GS")
x86emuOp_two_byte(c) == x86emu_optab2(Past(c, BYTE), Item(c, 0))

\* AL or AX, adjusted.
Adjusted(c, w, r) == Ended(Put(SetReg(c, w, EAX, r.val), r.f))
x86emuOp_daa(c) == Adjusted(c, BYTE, daa(c.f, Reg(c, BYTE, EAX)))
x86emuOp_das(c) == Adjusted(c, BYTE, das(c.f, Reg(c, BYTE, EAX)))
x86emuOp_aaa(c) == Adjusted(c, WORD, aaa(c.f, Word(c, EAX)))
x86emuOp_aas(c) == Adjusted(c, WORD, aas(c.f, Word(c, EAX)))

-----------------------------------------------------------------------------
\* Opcodes 40 to 6F.

x86emuOp_inc_AX(c) == OnReg(c, OpSize(c), EAX, inc)
x86emuOp_inc_CX(c) == OnReg(c, OpSize(c), ECX, inc)
x86emuOp_inc_DX(c) == OnReg(c, OpSize(c), EDX, inc)
x86emuOp_inc_BX(c) == OnReg(c, OpSize(c), EBX, inc)
x86emuOp_inc_SP(c) == OnReg(c, OpSize(c), ESP, inc)
x86emuOp_inc_BP(c) == OnReg(c, OpSize(c), EBP, inc)
x86emuOp_inc_SI(c) == OnReg(c, OpSize(c), ESI, inc)
x86emuOp_inc_DI(c) == OnReg(c, OpSize(c), EDI, inc)
x86emuOp_dec_AX(c) == OnReg(c, OpSize(c), EAX, dec)
x86emuOp_dec_CX(c) == OnReg(c, OpSize(c), ECX, dec)
x86emuOp_dec_DX(c) == OnReg(c, OpSize(c), EDX, dec)
x86emuOp_dec_BX(c) == OnReg(c, OpSize(c), EBX, dec)
x86emuOp_dec_SP(c) == OnReg(c, OpSize(c), ESP, dec)
x86emuOp_dec_BP(c) == OnReg(c, OpSize(c), EBP, dec)
x86emuOp_dec_SI(c) == OnReg(c, OpSize(c), ESI, dec)
x86emuOp_dec_DI(c) == OnReg(c, OpSize(c), EDI, dec)
x86emuOp_push_AX(c) == push_R(c, EAX)
x86emuOp_push_CX(c) == push_R(c, ECX)
x86emuOp_push_DX(c) == push_R(c, EDX)
x86emuOp_push_BX(c) == push_R(c, EBX)
x86emuOp_push_SP(c) == push_R(c, ESP)
x86emuOp_push_BP(c) == push_R(c, EBP)
x86emuOp_push_SI(c) == push_R(c, ESI)
x86emuOp_push_DI(c) == push_R(c, EDI)
x86emuOp_pop_AX(c) == pop_R(c, EAX)
x86emuOp_pop_CX(c) == pop_R(c, ECX)
x86emuOp_pop_DX(c) == pop_R(c, EDX)
x86emuOp_pop_BX(c) == pop_R(c, EBX)
x86emuOp_pop_SP(c) == pop_R(c, ESP)
x86emuOp_pop_BP(c) == pop_R(c, EBP)
x86emuOp_pop_SI(c) == pop_R(c, ESI)
x86emuOp_pop_DI(c) == pop_R(c, EDI)

\* The eight registers in their order, SP as it was.
x86emuOp_push_all(c) ==
  LET w == OpSize(c)
      done[k \in 0 .. 8] == IF k = 0 THEN c ELSE push(done[k - 1], w, Reg(c, w, k - 1))
  IN  Ended(done[8])

\* And back; SP is skipped, when long as the whole of ESP.
x86emuOp_pop_all(c) ==
  LET w == OpSize(c)
      done[k \in 0 .. 8] ==
        IF k = 0 THEN c
        ELSE LET d == done[k - 1]
                 n == 8 - k
             IN  IF n = ESP
                 THEN SetReg(d, w, ESP, (Reg(d, w, ESP) + Bytes(w)) % 2^w)
                 ELSE SetReg(Dropped(d, w), w, n, Top(d, w))
  IN  Ended(done[8])

x86emuOp_prefix_data(c) == Mode(c, "PREFIX_DATA")
x86emuOp_prefix_addr(c) == Mode(c, "PREFIX_ADDR")
x86emuOp_push_word_IMM(c) == LET w == OpSize(c) IN Ended(push(Past(c, w), w, Imm(c, w)))
x86emuOp_push_byte_IMM(c) ==
  LET w == OpSize(c) IN Ended(push(Past(c, BYTE), w, Extended(BYTE, w, Imm(c, BYTE))))
x86emuOp_imul_word_IMM(c) == R_RM_IMM(Operand(c), OpSize(c), OpSize(c))
x86emuOp_imul_byte_IMM(c) == R_RM_IMM(Operand(c), OpSize(c), BYTE)
x86emuOp_ins_byte(c) == Ended(ins(c, BYTE))
x86emuOp_ins_word(c) == Ended(ins(c, OpSize(c)))
x86emuOp_outs_byte(c) == Ended(outs(c, BYTE))
x86emuOp_outs_word(c) == Ended(outs(c, OpSize(c)))

-----------------------------------------------------------------------------
\* Opcodes 70 to 7F: the jumps.
x86emuOp_jump_near_O(c) == JumpIf(c, BYTE, "OF" \in c.f)
x86emuOp_jump_near_NO(c) == JumpIf(c, BYTE, "OF" \notin c.f)
x86emuOp_jump_near_B(c) == JumpIf(c, BYTE, "CF" \in c.f)
x86emuOp_jump_near_NB(c) == JumpIf(c, BYTE, "CF" \notin c.f)
x86emuOp_jump_near_Z(c) == JumpIf(c, BYTE, "ZF" \in c.f)
x86emuOp_jump_near_NZ(c) == JumpIf(c, BYTE, "ZF" \notin c.f)
x86emuOp_jump_near_BE(c) == JumpIf(c, BYTE, "CF" \in c.f \/ "ZF" \in c.f)
x86emuOp_jump_near_NBE(c) == JumpIf(c, BYTE, ~ ("CF" \in c.f \/ "ZF" \in c.f))
x86emuOp_jump_near_S(c) == JumpIf(c, BYTE, "SF" \in c.f)
x86emuOp_jump_near_NS(c) == JumpIf(c, BYTE, "SF" \notin c.f)
x86emuOp_jump_near_P(c) == JumpIf(c, BYTE, "PF" \in c.f)
x86emuOp_jump_near_NP(c) == JumpIf(c, BYTE, "PF" \notin c.f)

x86emuOp_jump_near_L(c) == JumpIf(c, BYTE, Less(c.f))
x86emuOp_jump_near_NL(c) == JumpIf(c, BYTE, ~ Less(c.f))
x86emuOp_jump_near_LE(c) == JumpIf(c, BYTE, Less(c.f) \/ "ZF" \in c.f)
x86emuOp_jump_near_NLE(c) == JumpIf(c, BYTE, ~ Less(c.f) /\ "ZF" \notin c.f)

-----------------------------------------------------------------------------
\* Opcodes 80 to 9F.
x86emuOp_opc80_byte_RM_IMM(c) == RM_IMM(Operand(c), BYTE, BYTE)
x86emuOp_opc81_word_RM_IMM(c) == RM_IMM(Operand(c), OpSize(c), OpSize(c))
x86emuOp_opc82_byte_RM_IMM(c) == RM_IMM(Operand(c), BYTE, BYTE)
x86emuOp_opc83_word_RM_IMM(c) == RM_IMM(Operand(c), OpSize(c), BYTE)
x86emuOp_test_byte_RM_R(c) == RM_R_flags(Operand(c), BYTE, test)
x86emuOp_test_word_RM_R(c) == RM_R_flags(Operand(c), OpSize(c), test)

xchg_RM_R(x, w) ==
  Ended(Write(SetReg(x.c, w, x.m.rh, Read(x.c, w, x)), w, x, Reg(x.c, w, x.m.rh)))
x86emuOp_xchg_byte_RM_R(c) == xchg_RM_R(Operand(c), BYTE)
x86emuOp_xchg_word_RM_R(c) == xchg_RM_R(Operand(c), OpSize(c))

\* MOV is the operation that takes the source.
mov(w, f, d, s) == [val |-> s, f |-> f]
x86emuOp_mov_byte_RM_R(c) == RM_R(Operand(c), BYTE, mov)
x86emuOp_mov_word_RM_R(c) == RM_R(Operand(c), OpSize(c), mov)
x86emuOp_mov_byte_R_RM(c) == R_RM(Operand(c), BYTE, mov)
x86emuOp_mov_word_R_RM(c) == R_RM(Operand(c), OpSize(c), mov)

RM_SR(x) == Ended(Write(x.c, WORD, x, x.c.seg[SegName[x.m.rh + 1]]))
SR_RM(x) == Ended([Looked(x.c, x) EXCEPT !.seg[SegName[x.m.rh + 1]] = Read(x.c, WORD, x)])
x86emuOp_mov_word_RM_SR(c) == RM_SR(Operand(c))
x86emuOp_mov_word_SR_RM(c) == SR_RM(Operand(c))

\* LEA is as wide as the address, whatever the operand size.
x86emuOp_lea_word_R_M(c) ==
  LET x == Operand(c)
      w == IF Wide(c) THEN LONG ELSE WORD
  IN  Ended(IF InMemory(x) THEN SetReg(x.c, w, x.m.rh, x.off % 2^w) ELSE x.c)

\* The address is computed before SP moves.
x86emuOp_pop_RM(c) ==
  LET w == OpSize(c)
      x == Operand(c)
      d == Dropped(IF x.m.rh = 0 THEN x.c ELSE Halted(x.c), w)
  IN  Ended(Write(d, w, x, Top(x.c, w)))

x86emuOp_nop(c) == Ended(c)
x86emuOp_wait(c) == Ended(c)

x86emuOp_xchg_word_AX_CX(c) == Exchanged(c, OpSize(c), EAX, ECX)
x86emuOp_xchg_word_AX_DX(c) == Exchanged(c, OpSize(c), EAX, EDX)
x86emuOp_xchg_word_AX_BX(c) == Exchanged(c, OpSize(c), EAX, EBX)
x86emuOp_xchg_word_AX_SP(c) == Exchanged(c, OpSize(c), EAX, ESP)
x86emuOp_xchg_word_AX_BP(c) == Exchanged(c, OpSize(c), EAX, EBP)
x86emuOp_xchg_word_AX_SI(c) == Exchanged(c, OpSize(c), EAX, ESI)
x86emuOp_xchg_word_AX_DI(c) == Exchanged(c, OpSize(c), EAX, EDI)

\* The sign of the half is spread: AL to AX or AX to EAX, and AX to DX.
x86emuOp_cbw(c) ==
  LET w == OpSize(c) IN Ended(SetReg(c, w, EAX, Extended(w \div 2, w, Reg(c, w \div 2, EAX))))
x86emuOp_cwd(c) ==
  LET w == OpSize(c)
  IN  Ended(SetReg(c, w, EDX, IF Sign(w, Reg(c, w, EAX)) THEN 2^w - 1 ELSE 0))

\* CS is pushed as a word also when the offset is long.
x86emuOp_call_far_IMM(c) ==
  LET w == OpSize(c)
      d == Past(Past(c, w), WORD)
  IN  Ended([push(push(d, WORD, c.seg["CS"]), w, d.ip % 2^w)
              EXCEPT !.seg["CS"] = Imm(Past(c, w), WORD), !.ip = Imm(c, WORD)])

\* The flags, as far as they are kept.
x86emuOp_pushf_word(c) == Ended(push(c, OpSize(c), FlagsWord(c.f)))
x86emuOp_popf_word(c) ==
  LET w == OpSize(c) IN Ended(Put(Dropped(c, w), FlagsOf(Top(c, w))))
LowFlags == {n \in FlagNames : FlagBit[n] < BYTE}

x86emuOp_sahf(c) == Ended(Put(c, (c.f \ LowFlags) \cup FlagsOf(Reg(c, BYTE, 4))))
x86emuOp_lahf(c) == Ended(SetReg(c, BYTE, 4, FlagsWord(c.f) % 2^BYTE))
=============================================================================
