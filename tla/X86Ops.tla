------------------------------- MODULE X86Ops -------------------------------
(***************************************************************************)
(* The opcodes of one byte from A0 to FF (libs/x86emu/ops.c), as those of  *)
(* X86OpsLow, the floating-point opcodes, and the table of all of them.    *)
(***************************************************************************)
EXTENDS X86OpsLow

-----------------------------------------------------------------------------
\* Opcodes A0 to BF.
A_M(c, w) ==
  LET d == Accessed(Past(c, WORD))
  IN  Ended(SetReg(d, w, EAX, Load(c, w, DataAt(c, Imm(c, WORD)))))
M_A(c, w) ==
  LET d == Accessed(Past(c, WORD))
  IN  Ended(Store(d, w, DataAt(c, Imm(c, WORD)), Reg(c, w, EAX)))
x86emuOp_mov_AL_M_IMM(c) == A_M(c, BYTE)
x86emuOp_mov_AX_M_IMM(c) == A_M(c, OpSize(c))
x86emuOp_mov_M_AL_IMM(c) == M_A(c, BYTE)
x86emuOp_mov_M_AX_IMM(c) == M_A(c, OpSize(c))

x86emuOp_movs_byte(c) == movs(c, BYTE)
x86emuOp_movs_word(c) == movs(c, OpSize(c))
x86emuOp_cmps_byte(c) == cmps(c, BYTE)
x86emuOp_cmps_word(c) == cmps(c, OpSize(c))
x86emuOp_stos_byte(c) == stos(c, BYTE)
x86emuOp_stos_word(c) == stos(c, OpSize(c))
x86emuOp_lods_byte(c) == lods(c, BYTE)
x86emuOp_lods_word(c) == lods(c, OpSize(c))
x86emuOp_scas_byte(c) == scas(c, BYTE)
x86emuOp_scas_word(c) == scas(c, OpSize(c))
x86emuOp_test_AL_IMM(c) == A_IMM_flags(c, BYTE, test)
x86emuOp_test_AX_IMM(c) == A_IMM_flags(c, OpSize(c), test)

x86emuOp_mov_byte_AL_IMM(c) == mov_R_IMM(c, BYTE, 0)
x86emuOp_mov_byte_CL_IMM(c) == mov_R_IMM(c, BYTE, 1)
x86emuOp_mov_byte_DL_IMM(c) == mov_R_IMM(c, BYTE, 2)
x86emuOp_mov_byte_BL_IMM(c) == mov_R_IMM(c, BYTE, 3)
x86emuOp_mov_byte_AH_IMM(c) == mov_R_IMM(c, BYTE, 4)
x86emuOp_mov_byte_CH_IMM(c) == mov_R_IMM(c, BYTE, 5)
x86emuOp_mov_byte_DH_IMM(c) == mov_R_IMM(c, BYTE, 6)
x86emuOp_mov_byte_BH_IMM(c) == mov_R_IMM(c, BYTE, 7)
x86emuOp_mov_word_AX_IMM(c) == mov_R_IMM(c, OpSize(c), EAX)
x86emuOp_mov_word_CX_IMM(c) == mov_R_IMM(c, OpSize(c), ECX)
x86emuOp_mov_word_DX_IMM(c) == mov_R_IMM(c, OpSize(c), EDX)
x86emuOp_mov_word_BX_IMM(c) == mov_R_IMM(c, OpSize(c), EBX)
x86emuOp_mov_word_SP_IMM(c) == mov_R_IMM(c, OpSize(c), ESP)
x86emuOp_mov_word_BP_IMM(c) == mov_R_IMM(c, OpSize(c), EBP)
x86emuOp_mov_word_SI_IMM(c) == mov_R_IMM(c, OpSize(c), ESI)
x86emuOp_mov_word_DI_IMM(c) == mov_R_IMM(c, OpSize(c), EDI)

-----------------------------------------------------------------------------
\* Opcodes C0 to DF.
x86emuOp_opcC0_byte_RM_MEM(c) == RM_MEM(Operand(c), BYTE)
x86emuOp_opcC1_word_RM_MEM(c) == RM_MEM(Operand(c), OpSize(c))
x86emuOp_opcD0_byte_RM_1(c) == RM_1(Operand(c), BYTE)
x86emuOp_opcD1_word_RM_1(c) == RM_1(Operand(c), OpSize(c))
x86emuOp_opcD2_byte_RM_CL(c) == RM_CL(Operand(c), BYTE)
x86emuOp_opcD3_word_RM_CL(c) == RM_CL(Operand(c), OpSize(c))

\* SP, moved on by n.
Released(c, n) == SetReg(c, WORD, ESP, (Word(c, ESP) + n) % 2^WORD)

\* Near returns pop a word, whatever the operand size.
x86emuOp_ret_near(c) == Ended(SetIP(Dropped(c, WORD), Top(c, WORD)))

x86emuOp_ret_near_IMM(c) ==
  Ended(Released(SetIP(Dropped(c, WORD), Top(c, WORD)), Imm(c, WORD)))
FarReturned(c) ==
  LET d == Dropped(c, WORD)
  IN  [SetIP(Dropped(d, WORD), Top(c, WORD)) EXCEPT !.seg["CS"] = Top(d, WORD)]
x86emuOp_ret_far(c) == Ended(FarReturned(c))
x86emuOp_ret_far_IMM(c) == Ended(Released(FarReturned(c), Imm(c, WORD)))
x86emuOp_les_R_IMM(c) == FarPointer(Operand(c), "ES")
x86emuOp_lds_R_IMM(c) == FarPointer(Operand(c), "DS")

\* A register field that is not 0 halts, and the store is made all the same.
RM_mov_IMM(x, w) ==
  LET d == Past(x.c, w)
  IN  Ended(Write(IF x.m.rh = 0 THEN d ELSE Halted(d), w, x, Imm(x.c, w)))
x86emuOp_mov_byte_RM_IMM(c) == RM_mov_IMM(Operand(c), BYTE)
x86emuOp_mov_word_RM_IMM(c) == RM_mov_IMM(Operand(c), OpSize(c))

\* Mutant of x86emuOp_enter: the frames outside are not copied.
enter_flat(c) ==
  LET b == push(Past(Past(c, WORD), BYTE), WORD, Word(c, EBP))
      frame == Word(b, ESP)
      e == IF Imm(Past(c, WORD), BYTE) = 0 THEN b ELSE push(b, WORD, frame)
  IN  Ended(Released(SetReg(e, WORD, EBP, frame), - Imm(c, WORD)))

\* BP is pushed, and with a nesting level the frame pointers below it and
\* that of the new frame; then SP makes room.
x86emuOp_enter(c) ==
  LET nesting == Imm(Past(c, WORD), BYTE)
      b == push(Past(Past(c, WORD), BYTE), WORD, Word(c, EBP))
      frame == Word(b, ESP)
      Copy(d) ==
        LET e == SetReg(d, WORD, EBP, (Word(d, EBP) - Bytes(WORD)) % 2^WORD)
        IN  push(e, WORD, Load(e, WORD, Linear(e, e.seg["SS"], Word(e, EBP))))
      e == IF nesting = 0 THEN b ELSE push(Times(b, nesting - 1, Copy), WORD, frame)
  IN  Ended(Released(SetReg(e, WORD, EBP, frame), - Imm(c, WORD)))

x86emuOp_leave(c) ==
  LET d == SetReg(c, WORD, ESP, Word(c, EBP))
  IN  Ended(SetReg(Dropped(d, WORD), WORD, EBP, Top(d, WORD)))

\* pushw of v86_x86emu.c: ESP as a whole moves, its low word addresses.
pushw(c, v) ==
  LET d == SetReg(c, LONG, ESP, (c.r[ESP] - Bytes(WORD)) % 2^LONG)
  IN  Store(d, WORD, Linear(d, d.seg["SS"], Word(d, ESP)), v)

\* Every interrupt goes through its vector; TF is cleared, IF stays.
x86emu_do_int(c, num) ==
  LET d == pushw(pushw(pushw(c, FlagsWord(c.f)), c.seg["CS"]), IP(c))
      vector(k) == Load(d, WORD, (2 * num + k) * Bytes(WORD))
  IN  [SetIP(d, vector(0)) EXCEPT !.f = @ \ {"TF"}, !.seg["CS"] = vector(1)]
x86emuOp_int3(c) == Ended(x86emu_do_int(c, 3))
x86emuOp_int_IMM(c) == Ended(x86emu_do_int(Past(c, BYTE), Imm(c, BYTE)))
x86emuOp_into(c) == Ended(IF "OF" \in c.f THEN x86emu_do_int(c, 4) ELSE c)

x86emuOp_iret(c) ==
  LET d == FarReturned(c) IN Ended(Put(Dropped(d, WORD), FlagsOf(Top(d, WORD))))

\* Another radix than ten halts, and ten is taken all the same.
Decimal(c) == IF Imm(c, BYTE) = RADIX THEN Past(c, BYTE) ELSE Halted(Past(c, BYTE))
x86emuOp_aam(c) == Adjusted(Decimal(c), WORD, aam(c.f, Reg(c, BYTE, EAX)))
x86emuOp_aad(c) == Adjusted(Decimal(c), WORD, aad(c.f, Word(c, EAX)))

x86emuOp_xlat(c) ==
  LET off == (Word(c, EBX) + Reg(c, BYTE, EAX)) % 2^WORD
  IN  Ended(SetReg(Accessed(c), BYTE, EAX, Load(c, BYTE, DataAt(c, off))))

-----------------------------------------------------------------------------
\* Opcodes E0 to FF.
x86emuOp_loopne(c) == LoopIf(c, "ZF" \notin c.f)
x86emuOp_loope(c) == LoopIf(c, "ZF" \in c.f)
x86emuOp_loop(c) == LoopIf(c, TRUE)
x86emuOp_jcxz(c) == JumpIf(c, BYTE, Word(c, ECX) = 0)

PortIn(c, w, port) == Ended(SetReg(c, w, EAX, In(w, port)))
PortOut(c, w, port) == Ended(Sent(c, w, port, Reg(c, w, EAX)))
x86emuOp_in_byte_AL_IMM(c) == PortIn(Past(c, BYTE), BYTE, Imm(c, BYTE))
x86emuOp_in_word_AX_IMM(c) == PortIn(Past(c, BYTE), OpSize(c), Imm(c, BYTE))
x86emuOp_out_byte_IMM_AL(c) == PortOut(Past(c, BYTE), BYTE, Imm(c, BYTE))
x86emuOp_out_word_IMM_AX(c) == PortOut(Past(c, BYTE), OpSize(c), Imm(c, BYTE))
x86emuOp_in_byte_AL_DX(c) == PortIn(c, BYTE, Word(c, EDX))
x86emuOp_in_word_AX_DX(c) == PortIn(c, OpSize(c), Word(c, EDX))
x86emuOp_out_byte_DX_AL(c) == PortOut(c, BYTE, Word(c, EDX))
x86emuOp_out_word_DX_AX(c) == PortOut(c, OpSize(c), Word(c, EDX))

\* A target is relative to the next instruction.  A long call pushes EIP, a
\* short one extends its target by the sign to EIP.
x86emuOp_call_near_IMM(c) ==
  LET w == OpSize(c)
      d == Past(c, w)
      target == (IP(d) + Disp(c, w)) % 2^WORD
  IN  Ended([push(d, w, d.ip % 2^w)
              EXCEPT !.ip = IF w = LONG THEN target ELSE Extended(WORD, LONG, target)])
x86emuOp_jump_near_IMM(c) ==
  LET w == OpSize(c)
      d == Past(c, w)
  IN  Ended(IF w = LONG THEN [d EXCEPT !.ip = (@ + Imm(c, LONG)) % 2^LONG]
            ELSE SetIP(d, IP(d) + Disp(c, WORD)))

x86emuOp_jump_far_IMM(c) ==
  LET d == Past(c, OpSize(c))
  IN  Ended([d EXCEPT !.ip = Imm(c, WORD), !.seg["CS"] = Imm(d, WORD)])
x86emuOp_jump_byte_IMM(c) == JumpIf(c, BYTE, TRUE)

\* LOCK is not a prefix here, and the repeat prefixes drop those before them.
x86emuOp_lock(c) == Ended(c)
x86emuOp_repe(c) == Ended(Mode(c, "PREFIX_REPE"))
x86emuOp_repne(c) == Ended(Mode(c, "PREFIX_REPNE"))

x86emuOp_halt(c) == Ended(Halted(c))
x86emuOp_cmc(c) == Ended(Put(c, (c.f \ {"CF"}) \cup ({"CF"} \ c.f)))
x86emuOp_clc(c) == Ended(Put(c, c.f \ {"CF"}))
x86emuOp_stc(c) == Ended(Put(c, c.f \cup {"CF"}))
x86emuOp_cli(c) == Ended(Put(c, c.f \ {"IF"}))
x86emuOp_sti(c) == Ended(Put(c, c.f \cup {"IF"}))
x86emuOp_cld(c) == Ended(Put(c, c.f \ {"DF"}))
x86emuOp_std(c) == Ended(Put(c, c.f \cup {"DF"}))

x86emuOp_opcF6_byte_RM(c) == Unary(c, Operand(c), BYTE)
x86emuOp_opcF7_word_RM(c) == Unary(c, Operand(c), OpSize(c))
opcFE(x) ==
  CASE x.m.rh = 0 -> OnRM(x, BYTE, inc)
    [] x.m.rh = 1 -> OnRM(x, BYTE, dec)
    [] OTHER -> Ended(x.c)
x86emuOp_opcFE_byte_RM(c) == opcFE(Operand(c))

\* Calls and jumps through an operand of a word, far ones in memory only.
opcFF(x, w) ==
  LET d == Looked(x.c, x)
      to == Read(x.c, WORD, x)
      far == Load(x.c, WORD, DataAt(x.c, x.off + Bytes(WORD)))
      Called(e) == push(e, WORD, IP(e))
  IN  CASE x.m.rh = 0 -> OnRM(x, w, inc)
        [] x.m.rh = 1 -> OnRM(x, w, dec)
        [] x.m.rh = 2 -> Ended(SetIP(Called(d), IF InMemory(x) THEN to ELSE Word(Called(d), x.m.rl)))
        [] x.m.rh = 3 /\ InMemory(x) -> Ended(Jump(Called(push(d, WORD, d.seg["CS"])), far, to))
        [] x.m.rh = 4 -> Ended(SetIP(d, to))
        [] x.m.rh = 5 /\ InMemory(x) -> Ended(Jump(d, far, to))
        [] x.m.rh = 6 -> Ended(push(d, w, Read(x.c, w, x)))
        [] x.m.rh = 7 -> Ended(x.c)
        [] OTHER -> Ended(Halted(x.c))
x86emuOp_opcFF_word_RM(c) == opcFF(Operand(c), OpSize(c))

-----------------------------------------------------------------------------
\* The floating-point opcodes of a build without a coprocessor: D8 takes no
\* ModRM byte, so what follows is run as an instruction.
x86emuOp_esc_coprocess_d8(c) == Ended(c)

x86emuOp_esc_coprocess_d9(c) == Ended(Operand(c).c)
x86emuOp_esc_coprocess_da(c) == Ended(Operand(c).c)
x86emuOp_esc_coprocess_db(c) == Ended(Operand(c).c)
x86emuOp_esc_coprocess_dc(c) == Ended(Operand(c).c)
x86emuOp_esc_coprocess_dd(c) == Ended(Operand(c).c)
x86emuOp_esc_coprocess_de(c) == Ended(Operand(c).c)
x86emuOp_esc_coprocess_df(c) == Ended(Operand(c).c)

-----------------------------------------------------------------------------
\* The table, a row for each high digit.
row_0(c, o) ==
  CASE o = \h00 -> x86emuOp_add_byte_RM_R(c)
    [] o = \h01 -> x86emuOp_add_word_RM_R(c)
    [] o = \h02 -> x86emuOp_add_byte_R_RM(c)
    [] o = \h03 -> x86emuOp_add_word_R_RM(c)
    [] o = \h04 -> x86emuOp_add_byte_AL_IMM(c)
    [] o = \h05 -> x86emuOp_add_word_AX_IMM(c)
    [] o = \h06 -> x86emuOp_push_ES(c)
    [] o = \h07 -> x86emuOp_pop_ES(c)
    [] o = \h08 -> x86emuOp_or_byte_RM_R(c)
    [] o = \h09 -> x86emuOp_or_word_RM_R(c)
    [] o = \h0a -> x86emuOp_or_byte_R_RM(c)
    [] o = \h0b -> x86emuOp_or_word_R_RM(c)
    [] o = \h0c -> x86emuOp_or_byte_AL_IMM(c)
    [] o = \h0d -> x86emuOp_or_word_AX_IMM(c)
    [] o = \h0e -> x86emuOp_push_CS(c)
    [] o = \h0f -> x86emuOp_two_byte(c)
row_1(c, o) ==
  CASE o = \h10 -> x86emuOp_adc_byte_RM_R(c)
    [] o = \h11 -> x86emuOp_adc_word_RM_R(c)
    [] o = \h12 -> x86emuOp_adc_byte_R_RM(c)
    [] o = \h13 -> x86emuOp_adc_word_R_RM(c)
    [] o = \h14 -> x86emuOp_adc_byte_AL_IMM(c)
    [] o = \h15 -> x86emuOp_adc_word_AX_IMM(c)
    [] o = \h16 -> x86emuOp_push_SS(c)
    [] o = \h17 -> x86emuOp_pop_SS(c)
    [] o = \h18 -> x86emuOp_sbb_byte_RM_R(c)
    [] o = \h19 -> x86emuOp_sbb_word_RM_R(c)
    [] o = \h1a -> x86emuOp_sbb_byte_R_RM(c)
    [] o = \h1b -> x86emuOp_sbb_word_R_RM(c)
    [] o = \h1c -> x86emuOp_sbb_byte_AL_IMM(c)
    [] o = \h1d -> x86emuOp_sbb_word_AX_IMM(c)
    [] o = \h1e -> x86emuOp_push_DS(c)
    [] o = \h1f -> x86emuOp_pop_DS(c)
row_2(c, o) ==
  CASE o = \h20 -> x86emuOp_and_byte_RM_R(c)
    [] o = \h21 -> x86emuOp_and_word_RM_R(c)
    [] o = \h22 -> x86emuOp_and_byte_R_RM(c)
    [] o = \h23 -> x86emuOp_and_word_R_RM(c)
    [] o = \h24 -> x86emuOp_and_byte_AL_IMM(c)
    [] o = \h25 -> x86emuOp_and_word_AX_IMM(c)
    [] o = \h26 -> x86emuOp_segovr_ES(c)
    [] o = \h27 -> x86emuOp_daa(c)
    [] o = \h28 -> x86emuOp_sub_byte_RM_R(c)
    [] o = \h29 -> x86emuOp_sub_word_RM_R(c)
    [] o = \h2a -> x86emuOp_sub_byte_R_RM(c)
    [] o = \h2b -> x86emuOp_sub_word_R_RM(c)
    [] o = \h2c -> x86emuOp_sub_byte_AL_IMM(c)
    [] o = \h2d -> x86emuOp_sub_word_AX_IMM(c)
    [] o = \h2e -> x86emuOp_segovr_CS(c)
    [] o = \h2f -> x86emuOp_das(c)
row_3(c, o) ==
  CASE o = \h30 -> x86emuOp_xor_byte_RM_R(c)
    [] o = \h31 -> x86emuOp_xor_word_RM_R(c)
    [] o = \h32 -> x86emuOp_xor_byte_R_RM(c)
    [] o = \h33 -> x86emuOp_xor_word_R_RM(c)
    [] o = \h34 -> x86emuOp_xor_byte_AL_IMM(c)
    [] o = \h35 -> x86emuOp_xor_word_AX_IMM(c)
    [] o = \h36 -> x86emuOp_segovr_SS(c)
    [] o = \h37 -> x86emuOp_aaa(c)
    [] o = \h38 -> x86emuOp_cmp_byte_RM_R(c)
    [] o = \h39 -> x86emuOp_cmp_word_RM_R(c)
    [] o = \h3a -> x86emuOp_cmp_byte_R_RM(c)
    [] o = \h3b -> x86emuOp_cmp_word_R_RM(c)
    [] o = \h3c -> x86emuOp_cmp_byte_AL_IMM(c)
    [] o = \h3d -> x86emuOp_cmp_word_AX_IMM(c)
    [] o = \h3e -> x86emuOp_segovr_DS(c)
    [] o = \h3f -> x86emuOp_aas(c)
row_4(c, o) ==
  CASE o = \h40 -> x86emuOp_inc_AX(c)
    [] o = \h41 -> x86emuOp_inc_CX(c)
    [] o = \h42 -> x86emuOp_inc_DX(c)
    [] o = \h43 -> x86emuOp_inc_BX(c)
    [] o = \h44 -> x86emuOp_inc_SP(c)
    [] o = \h45 -> x86emuOp_inc_BP(c)
    [] o = \h46 -> x86emuOp_inc_SI(c)
    [] o = \h47 -> x86emuOp_inc_DI(c)
    [] o = \h48 -> x86emuOp_dec_AX(c)
    [] o = \h49 -> x86emuOp_dec_CX(c)
    [] o = \h4a -> x86emuOp_dec_DX(c)
    [] o = \h4b -> x86emuOp_dec_BX(c)
    [] o = \h4c -> x86emuOp_dec_SP(c)
    [] o = \h4d -> x86emuOp_dec_BP(c)
    [] o = \h4e -> x86emuOp_dec_SI(c)
    [] o = \h4f -> x86emuOp_dec_DI(c)
row_5(c, o) ==
  CASE o = \h50 -> x86emuOp_push_AX(c)
    [] o = \h51 -> x86emuOp_push_CX(c)
    [] o = \h52 -> x86emuOp_push_DX(c)
    [] o = \h53 -> x86emuOp_push_BX(c)
    [] o = \h54 -> x86emuOp_push_SP(c)
    [] o = \h55 -> x86emuOp_push_BP(c)
    [] o = \h56 -> x86emuOp_push_SI(c)
    [] o = \h57 -> x86emuOp_push_DI(c)
    [] o = \h58 -> x86emuOp_pop_AX(c)
    [] o = \h59 -> x86emuOp_pop_CX(c)
    [] o = \h5a -> x86emuOp_pop_DX(c)
    [] o = \h5b -> x86emuOp_pop_BX(c)
    [] o = \h5c -> x86emuOp_pop_SP(c)
    [] o = \h5d -> x86emuOp_pop_BP(c)
    [] o = \h5e -> x86emuOp_pop_SI(c)
    [] o = \h5f -> x86emuOp_pop_DI(c)
row_6(c, o) ==
  CASE o = \h60 -> x86emuOp_push_all(c)
    [] o = \h61 -> x86emuOp_pop_all(c)
    [] o = \h62 -> x86emuOp_illegal_op(c)
    [] o = \h63 -> x86emuOp_illegal_op(c)
    [] o = \h64 -> x86emuOp_segovr_FS(c)
    [] o = \h65 -> x86emuOp_segovr_GS(c)
    [] o = \h66 -> x86emuOp_prefix_data(c)
    [] o = \h67 -> x86emuOp_prefix_addr(c)
    [] o = \h68 -> x86emuOp_push_word_IMM(c)
    [] o = \h69 -> x86emuOp_imul_word_IMM(c)
    [] o = \h6a -> x86emuOp_push_byte_IMM(c)
    [] o = \h6b -> x86emuOp_imul_byte_IMM(c)
    [] o = \h6c -> x86emuOp_ins_byte(c)
    [] o = \h6d -> x86emuOp_ins_word(c)
    [] o = \h6e -> x86emuOp_outs_byte(c)
    [] o = \h6f -> x86emuOp_outs_word(c)
row_7(c, o) ==
  CASE o = \h70 -> x86emuOp_jump_near_O(c)
    [] o = \h71 -> x86emuOp_jump_near_NO(c)
    [] o = \h72 -> x86emuOp_jump_near_B(c)
    [] o = \h73 -> x86emuOp_jump_near_NB(c)
    [] o = \h74 -> x86emuOp_jump_near_Z(c)
    [] o = \h75 -> x86emuOp_jump_near_NZ(c)
    [] o = \h76 -> x86emuOp_jump_near_BE(c)
    [] o = \h77 -> x86emuOp_jump_near_NBE(c)
    [] o = \h78 -> x86emuOp_jump_near_S(c)
    [] o = \h79 -> x86emuOp_jump_near_NS(c)
    [] o = \h7a -> x86emuOp_jump_near_P(c)
    [] o = \h7b -> x86emuOp_jump_near_NP(c)
    [] o = \h7c -> x86emuOp_jump_near_L(c)
    [] o = \h7d -> x86emuOp_jump_near_NL(c)
    [] o = \h7e -> x86emuOp_jump_near_LE(c)
    [] o = \h7f -> x86emuOp_jump_near_NLE(c)
row_8(c, o) ==
  CASE o = \h80 -> x86emuOp_opc80_byte_RM_IMM(c)
    [] o = \h81 -> x86emuOp_opc81_word_RM_IMM(c)
    [] o = \h82 -> x86emuOp_opc82_byte_RM_IMM(c)
    [] o = \h83 -> x86emuOp_opc83_word_RM_IMM(c)
    [] o = \h84 -> x86emuOp_test_byte_RM_R(c)
    [] o = \h85 -> x86emuOp_test_word_RM_R(c)
    [] o = \h86 -> x86emuOp_xchg_byte_RM_R(c)
    [] o = \h87 -> x86emuOp_xchg_word_RM_R(c)
    [] o = \h88 -> x86emuOp_mov_byte_RM_R(c)
    [] o = \h89 -> x86emuOp_mov_word_RM_R(c)
    [] o = \h8a -> x86emuOp_mov_byte_R_RM(c)
    [] o = \h8b -> x86emuOp_mov_word_R_RM(c)
    [] o = \h8c -> x86emuOp_mov_word_RM_SR(c)
    [] o = \h8d -> x86emuOp_lea_word_R_M(c)
    [] o = \h8e -> x86emuOp_mov_word_SR_RM(c)
    [] o = \h8f -> x86emuOp_pop_RM(c)
row_9(c, o) ==
  CASE o = \h90 -> x86emuOp_nop(c)
    [] o = \h91 -> x86emuOp_xchg_word_AX_CX(c)
    [] o = \h92 -> x86emuOp_xchg_word_AX_DX(c)
    [] o = \h93 -> x86emuOp_xchg_word_AX_BX(c)
    [] o = \h94 -> x86emuOp_xchg_word_AX_SP(c)
    [] o = \h95 -> x86emuOp_xchg_word_AX_BP(c)
    [] o = \h96 -> x86emuOp_xchg_word_AX_SI(c)
    [] o = \h97 -> x86emuOp_xchg_word_AX_DI(c)
    [] o = \h98 -> x86emuOp_cbw(c)
    [] o = \h99 -> x86emuOp_cwd(c)
    [] o = \h9a -> x86emuOp_call_far_IMM(c)
    [] o = \h9b -> x86emuOp_wait(c)
    [] o = \h9c -> x86emuOp_pushf_word(c)
    [] o = \h9d -> x86emuOp_popf_word(c)
    [] o = \h9e -> x86emuOp_sahf(c)
    [] o = \h9f -> x86emuOp_lahf(c)
row_a(c, o) ==
  CASE o = \ha0 -> x86emuOp_mov_AL_M_IMM(c)
    [] o = \ha1 -> x86emuOp_mov_AX_M_IMM(c)
    [] o = \ha2 -> x86emuOp_mov_M_AL_IMM(c)
    [] o = \ha3 -> x86emuOp_mov_M_AX_IMM(c)
    [] o = \ha4 -> x86emuOp_movs_byte(c)
    [] o = \ha5 -> x86emuOp_movs_word(c)
    [] o = \ha6 -> x86emuOp_cmps_byte(c)
    [] o = \ha7 -> x86emuOp_cmps_word(c)
    [] o = \ha8 -> x86emuOp_test_AL_IMM(c)
    [] o = \ha9 -> x86emuOp_test_AX_IMM(c)
    [] o = \haa -> x86emuOp_stos_byte(c)
    [] o = \hab -> x86emuOp_stos_word(c)
    [] o = \hac -> x86emuOp_lods_byte(c)
    [] o = \had -> x86emuOp_lods_word(c)
    [] o = \hae -> x86emuOp_scas_byte(c)
    [] o = \haf -> x86emuOp_scas_word(c)
row_b(c, o) ==
  CASE o = \hb0 -> x86emuOp_mov_byte_AL_IMM(c)
    [] o = \hb1 -> x86emuOp_mov_byte_CL_IMM(c)
    [] o = \hb2 -> x86emuOp_mov_byte_DL_IMM(c)
    [] o = \hb3 -> x86emuOp_mov_byte_BL_IMM(c)
    [] o = \hb4 -> x86emuOp_mov_byte_AH_IMM(c)
    [] o = \hb5 -> x86emuOp_mov_byte_CH_IMM(c)
    [] o = \hb6 -> x86emuOp_mov_byte_DH_IMM(c)
    [] o = \hb7 -> x86emuOp_mov_byte_BH_IMM(c)
    [] o = \hb8 -> x86emuOp_mov_word_AX_IMM(c)
    [] o = \hb9 -> x86emuOp_mov_word_CX_IMM(c)
    [] o = \hba -> x86emuOp_mov_word_DX_IMM(c)
    [] o = \hbb -> x86emuOp_mov_word_BX_IMM(c)
    [] o = \hbc -> x86emuOp_mov_word_SP_IMM(c)
    [] o = \hbd -> x86emuOp_mov_word_BP_IMM(c)
    [] o = \hbe -> x86emuOp_mov_word_SI_IMM(c)
    [] o = \hbf -> x86emuOp_mov_word_DI_IMM(c)
row_c(c, o) ==
  CASE o = \hc0 -> x86emuOp_opcC0_byte_RM_MEM(c)
    [] o = \hc1 -> x86emuOp_opcC1_word_RM_MEM(c)
    [] o = \hc2 -> x86emuOp_ret_near_IMM(c)
    [] o = \hc3 -> x86emuOp_ret_near(c)
    [] o = \hc4 -> x86emuOp_les_R_IMM(c)
    [] o = \hc5 -> x86emuOp_lds_R_IMM(c)
    [] o = \hc6 -> x86emuOp_mov_byte_RM_IMM(c)
    [] o = \hc7 -> x86emuOp_mov_word_RM_IMM(c)
    [] o = \hc8 -> x86emuOp_enter(c)
    [] o = \hc9 -> x86emuOp_leave(c)
    [] o = \hca -> x86emuOp_ret_far_IMM(c)
    [] o = \hcb -> x86emuOp_ret_far(c)
    [] o = \hcc -> x86emuOp_int3(c)
    [] o = \hcd -> x86emuOp_int_IMM(c)
    [] o = \hce -> x86emuOp_into(c)
    [] o = \hcf -> x86emuOp_iret(c)
row_d(c, o) ==
  CASE o = \hd0 -> x86emuOp_opcD0_byte_RM_1(c)
    [] o = \hd1 -> x86emuOp_opcD1_word_RM_1(c)
    [] o = \hd2 -> x86emuOp_opcD2_byte_RM_CL(c)
    [] o = \hd3 -> x86emuOp_opcD3_word_RM_CL(c)
    [] o = \hd4 -> x86emuOp_aam(c)
    [] o = \hd5 -> x86emuOp_aad(c)
    [] o = \hd6 -> x86emuOp_illegal_op(c)
    [] o = \hd7 -> x86emuOp_xlat(c)
    [] o = \hd8 -> x86emuOp_esc_coprocess_d8(c)
    [] o = \hd9 -> x86emuOp_esc_coprocess_d9(c)
    [] o = \hda -> x86emuOp_esc_coprocess_da(c)
    [] o = \hdb -> x86emuOp_esc_coprocess_db(c)
    [] o = \hdc -> x86emuOp_esc_coprocess_dc(c)
    [] o = \hdd -> x86emuOp_esc_coprocess_dd(c)
    [] o = \hde -> x86emuOp_esc_coprocess_de(c)
    [] o = \hdf -> x86emuOp_esc_coprocess_df(c)
row_e(c, o) ==
  CASE o = \he0 -> x86emuOp_loopne(c)
    [] o = \he1 -> x86emuOp_loope(c)
    [] o = \he2 -> x86emuOp_loop(c)
    [] o = \he3 -> x86emuOp_jcxz(c)
    [] o = \he4 -> x86emuOp_in_byte_AL_IMM(c)
    [] o = \he5 -> x86emuOp_in_word_AX_IMM(c)
    [] o = \he6 -> x86emuOp_out_byte_IMM_AL(c)
    [] o = \he7 -> x86emuOp_out_word_IMM_AX(c)
    [] o = \he8 -> x86emuOp_call_near_IMM(c)
    [] o = \he9 -> x86emuOp_jump_near_IMM(c)
    [] o = \hea -> x86emuOp_jump_far_IMM(c)
    [] o = \heb -> x86emuOp_jump_byte_IMM(c)
    [] o = \hec -> x86emuOp_in_byte_AL_DX(c)
    [] o = \hed -> x86emuOp_in_word_AX_DX(c)
    [] o = \hee -> x86emuOp_out_byte_DX_AL(c)
    [] o = \hef -> x86emuOp_out_word_DX_AX(c)
row_f(c, o) ==
  CASE o = \hf0 -> x86emuOp_lock(c)
    [] o = \hf1 -> x86emuOp_illegal_op(c)
    [] o = \hf2 -> x86emuOp_repne(c)
    [] o = \hf3 -> x86emuOp_repe(c)
    [] o = \hf4 -> x86emuOp_halt(c)
    [] o = \hf5 -> x86emuOp_cmc(c)
    [] o = \hf6 -> x86emuOp_opcF6_byte_RM(c)
    [] o = \hf7 -> x86emuOp_opcF7_word_RM(c)
    [] o = \hf8 -> x86emuOp_clc(c)
    [] o = \hf9 -> x86emuOp_stc(c)
    [] o = \hfa -> x86emuOp_cli(c)
    [] o = \hfb -> x86emuOp_sti(c)
    [] o = \hfc -> x86emuOp_cld(c)
    [] o = \hfd -> x86emuOp_std(c)
    [] o = \hfe -> x86emuOp_opcFE_byte_RM(c)
    [] o = \hff -> x86emuOp_opcFF_word_RM(c)

x86emu_optab(c, o) ==
  LET high == o \div 16 IN
  CASE high = 0 -> row_0(c, o)
    [] high = 1 -> row_1(c, o)
    [] high = 2 -> row_2(c, o)
    [] high = 3 -> row_3(c, o)
    [] high = 4 -> row_4(c, o)
    [] high = 5 -> row_5(c, o)
    [] high = 6 -> row_6(c, o)
    [] high = 7 -> row_7(c, o)
    [] high = 8 -> row_8(c, o)
    [] high = 9 -> row_9(c, o)
    [] high = 10 -> row_a(c, o)
    [] high = 11 -> row_b(c, o)
    [] high = 12 -> row_c(c, o)
    [] high = 13 -> row_d(c, o)
    [] high = 14 -> row_e(c, o)
    [] high = 15 -> row_f(c, o)
=============================================================================
