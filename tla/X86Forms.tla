------------------------------ MODULE X86Forms ------------------------------
(***************************************************************************)
(* The forms of an instruction (libs/x86emu/ops.c and ops2.c): what the    *)
(* handlers of a family have in common, with the primitive operation and   *)
(* the width as parameters.  The code spells each form out again for every *)
(* opcode, every mod field and both operand sizes.                         *)
(*                                                                         *)
(* c is the processor past the opcode, the result the processor after the  *)
(* handler.  op gives the value to store and the flags, as in X86Alu.      *)
(***************************************************************************)
EXTENDS X86Cpu

Put(c, f) == [c EXCEPT !.f = f]

\* Mutant of ToOperand: the result goes to the register.
ToOperand_back(c, w, x, r) == Ended(Put(SetReg(c, w, x.m.rh, r.val), r.f))

\* The end of an instruction with result r, to the operand x or register n.
ToOperand(c, w, x, r) == Ended(Put(Write(c, w, x, r.val), r.f))
ToReg(c, w, n, r) == Ended(Put(SetReg(c, w, n, r.val), r.f))

\* op on an operand and a register, to the operand.
RM_R(x, w, op(_, _, _, _)) ==
  ToOperand(x.c, w, x, op(w, x.c.f, Read(x.c, w, x), Reg(x.c, w, x.m.rh)))

\* The same for operations that only set flags.
RM_R_flags(x, w, op(_, _, _, _)) ==
  Ended(Put(Looked(x.c, x), op(w, x.c.f, Read(x.c, w, x), Reg(x.c, w, x.m.rh)).f))

\* op on a register and an operand, to the register.
R_RM(x, w, op(_, _, _, _)) ==
  ToReg(Looked(x.c, x), w, x.m.rh, op(w, x.c.f, Reg(x.c, w, x.m.rh), Read(x.c, w, x)))
R_RM_flags(x, w, op(_, _, _, _)) ==
  Ended(Put(Looked(x.c, x), op(w, x.c.f, Reg(x.c, w, x.m.rh), Read(x.c, w, x)).f))

\* op on the accumulator and an immediate.
A_IMM(c, w, op(_, _, _, _)) ==
  ToReg(Past(c, w), w, EAX, op(w, c.f, Reg(c, w, EAX), Imm(c, w)))
A_IMM_flags(c, w, op(_, _, _, _)) ==
  Ended(Put(Past(c, w), op(w, c.f, Reg(c, w, EAX), Imm(c, w)).f))

\* op on register n of the opcode, and on an operand.
OnReg(c, w, n, op(_, _, _)) == ToReg(c, w, n, op(w, c.f, Reg(c, w, n)))
OnRM(x, w, op(_, _, _)) == ToOperand(x.c, w, x, op(w, x.c.f, Read(x.c, w, x)))

-----------------------------------------------------------------------------
\* The operation of opcodes 80 to 83, by the register field.
opc80_operation(w, f, k, d, s) ==
  CASE k = 0 -> add(w, f, d, s) [] k = 1 -> or(w, f, d, s)
    [] k = 2 -> adc(w, f, d, s) [] k = 3 -> sbb(w, f, d, s)
    [] k = 4 -> and(w, f, d, s) [] k = 5 -> sub(w, f, d, s)
    [] k = 6 -> xor(w, f, d, s)

\* On an operand of width w and an immediate of width iw; CMP does not store.
RM_IMM(x, w, iw) ==
  LET imm == Extended(iw, w, Imm(x.c, iw))
  IN  IF x.m.rh = 7
      THEN Ended(Put(Looked(Past(x.c, iw), x), cmp(w, x.c.f, Read(x.c, w, x), imm).f))
      ELSE ToOperand(Past(x.c, iw), w, x,
             opc80_operation(w, x.c.f, x.m.rh, Read(x.c, w, x), imm))

\* The shift or rotation of opcodes C0, C1 and D0 to D3, by the register field.
opcD0_operation(w, f, k, d, s) ==
  CASE k = 0 -> rol(w, f, d, s) [] k = 1 -> ror(w, f, d, s)
    [] k = 2 -> rcl(w, f, d, s) [] k = 3 -> rcr(w, f, d, s)
    [] k \in {4, 6} -> shl(w, f, d, s) [] k = 5 -> shr(w, f, d, s)
    [] k = 7 -> sar(w, f, d, s)

\* The operand x, shifted by s, at the end d of the instruction.
Rotated(d, w, x, s) ==
  ToOperand(d, w, x, opcD0_operation(w, x.c.f, x.m.rh, Read(x.c, w, x), s))
RM_MEM(x, w) == Rotated(Past(x.c, BYTE), w, x, Imm(x.c, BYTE))
RM_1(x, w) == Rotated(x.c, w, x, 1)
RM_CL(x, w) == Rotated(x.c, w, x, Reg(x.c, BYTE, ECX))

-----------------------------------------------------------------------------
\* The accumulator and its high half: AX as two bytes, DX:AX or EDX:EAX.
High(c, w) == IF w = BYTE THEN Reg(c, BYTE, 4) ELSE Reg(c, w, EDX)
SetPair(c, w, lo, hi) ==
  IF w = BYTE THEN SetReg(SetReg(c, BYTE, EAX, lo), BYTE, 4, hi)
  ELSE SetReg(SetReg(c, w, EAX, lo), w, EDX, hi)

\* A divide error is raised for the next instruction.
Divided(c, w, q) ==
  Ended(IF q.ok THEN Put(SetPair(c, w, q.lo, q.hi), q.f) ELSE Raised(c, 0))
Multiplied(c, w, p) == Ended(Put(SetPair(c, w, p.lo, p.hi), p.f))

\* Opcodes F6 and F7 on the operand x, by the register field; c is before x.
Unary(c, x, w) ==
  LET d == Looked(x.c, x)
      v == Read(x.c, w, x)
      a == Reg(c, w, EAX)
      h == High(c, w)
  IN  CASE x.m.rh = 0 -> Ended(Put(Past(d, w), test(w, c.f, v, Imm(x.c, w)).f))
        [] x.m.rh = 1 -> Ended(Halted(Past(c, BYTE)))
        [] x.m.rh = 2 -> OnRM(x, w, not)
        [] x.m.rh = 3 -> OnRM(x, w, neg)
        [] x.m.rh = 4 -> Multiplied(d, w, mul(w, c.f, a, v))
        [] x.m.rh = 5 -> Multiplied(d, w, imul(w, c.f, a, v))
        [] x.m.rh = 6 -> Divided(d, w, div(w, c.f, h, a, v))
        [] x.m.rh = 7 -> Divided(d, w, idiv(w, c.f, h, a, v))

\* The product of two signed operands that fits one: a high half that is not
\* zero, as that of every negative product, sets the flags.
imul_R(w, f, a, b) ==
  LET product == (Signed(w, a) * Signed(w, b)) % 2^(2 * w)
      p == IF w = LONG THEN imul_long_direct(a, b)
           ELSE [lo |-> product % 2^w, hi |-> product \div 2^w]
  IN  [val |-> p.lo, f |-> Product(f, p.lo, p.hi, p.hi = 0).f]
R_RM_IMM(x, w, iw) ==
  ToReg(Looked(Past(x.c, iw), x), w, x.m.rh,
    imul_R(w, x.c.f, Read(x.c, w, x), Extended(iw, w, Imm(x.c, iw))))

-----------------------------------------------------------------------------
\* The sixteen conditions, by the low four bits of an opcode.
Less(f) == ("SF" \in f) # ("OF" \in f)
Condition(f, k) ==
  LET even == 2 * (k \div 2)
      on == CASE even = 0 -> "OF" \in f  [] even = 2 -> "CF" \in f
              [] even = 4 -> "ZF" \in f  [] even = 6 -> f \cap {"CF", "ZF"} # {}
              [] even = 8 -> "SF" \in f  [] even = 10 -> "PF" \in f
              [] even = 12 -> Less(f)    [] even = 14 -> Less(f) \/ "ZF" \in f
  IN  IF k = even THEN on ELSE ~ on

\* A jump by a displacement of width w.
JumpIf(c, w, cond) ==
  LET d == Past(c, w) IN Ended(IF cond THEN SetIP(d, IP(d) + Disp(c, w)) ELSE d)

\* Mutant of LoopIf: CX is looked at before it is counted.
LoopIf_before(c, cond) ==
  LET d == SetReg(c, WORD, ECX, (Word(c, ECX) - 1) % 2^WORD)
  IN  JumpIf(d, BYTE, cond /\ Word(c, ECX) # 0)

\* LOOP and its kind: CX counts down, to stop at 0.
LoopIf(c, cond) ==
  LET d == SetReg(c, WORD, ECX, (Word(c, ECX) - 1) % 2^WORD)
  IN  JumpIf(d, BYTE, cond /\ Word(d, ECX) # 0)

-----------------------------------------------------------------------------
\* String instructions.

\* Mutant of Moved: the direction flag is not looked at.
Moved_up(c, w, n) == SetReg(c, WORD, n, (Word(c, n) + Bytes(w)) % 2^WORD)

\* Index register n moves by an element, down when DF is set.
Moved(c, w, n) ==
  SetReg(c, WORD, n, (Word(c, n) + (IF "DF" \in c.f THEN - Bytes(w) ELSE Bytes(w))) % 2^WORD)
AtES(c, n) == Linear(c, c.seg["ES"], Word(c, n))
Times(c, n, Step(_)) ==
  LET done[k \in 0 .. n] == IF k = 0 THEN c ELSE Step(done[k - 1]) IN done[n]

\* One step, or with a repeat prefix CX of them.
Rep(c, Step(_)) ==
  IF c.mode \cap REP = {} THEN Ended(Step(c))
  ELSE LET d == Times(c, Word(c, ECX), Step)
       IN  Ended([SetReg(d, WORD, ECX, 0) EXCEPT !.mode = @ \ REP])

\* The comparing ones stop early: REPE at a difference, REPNE at a match.  Of
\* the two prefixes only the one that was obeyed is used up.
RepWhile(c, Step(_)) ==
  LET rep == IF "PREFIX_REPE" \in c.mode THEN "PREFIX_REPE" ELSE "PREFIX_REPNE"
      Goes(d) == ("ZF" \in d.f) = (rep = "PREFIX_REPE")
      done[k \in 0 .. Word(c, ECX)] ==
        IF k = 0 THEN c
        ELSE LET d == done[k - 1]
                 e == Step(d)
             IN  IF k > 1 /\ ~ Goes(d) THEN d ELSE SetReg(e, WORD, ECX, Word(e, ECX) - 1)
  IN  IF c.mode \cap REP = {} THEN Ended(Step(c))
      ELSE Ended([done[Word(c, ECX)] EXCEPT !.mode = @ \ {rep}])

\* What SI points to, in the data segment of the instruction.
Source(c, w) == Load(c, w, DataAt(c, Word(c, ESI)))
movs(c, w) ==
  LET Step(d) == Moved(Moved(Store(Accessed(d), w, AtES(d, EDI), Source(d, w)), w, ESI), w, EDI)
  IN  Rep(c, Step)
stos(c, w) ==
  LET Step(d) == Moved(Store(d, w, AtES(d, EDI), Reg(d, w, EAX)), w, EDI) IN Rep(c, Step)
lods(c, w) ==
  LET Step(d) == Moved(SetReg(Accessed(d), w, EAX, Source(d, w)), w, ESI) IN Rep(c, Step)
cmps(c, w) ==
  LET Step(d) == Moved(Moved(Put(Accessed(d),
                   cmp(w, d.f, Source(d, w), Load(d, w, AtES(d, EDI))).f), w, ESI), w, EDI)
  IN  RepWhile(c, Step)

scas(c, w) ==
  LET Step(d) == Moved(Put(d, cmp(w, d.f, Reg(d, w, EAX), Load(d, w, AtES(d, EDI))).f), w, EDI)
  IN  RepWhile(c, Step)

\* INS and OUTS count by ECX when they are long; a long one stops after one.
RepPort(c, w, Step(_)) ==
  LET long == "PREFIX_DATA" \in c.mode
      count == IF long THEN c.r[ECX] ELSE Word(c, ECX)
      d == Times(c, IF w = LONG /\ count > 0 THEN 1 ELSE count, Step)
  IN  IF c.mode \cap REP = {} THEN Ended(Step(c))
      ELSE Ended([SetReg(d, IF long THEN LONG ELSE WORD, ECX, 0) EXCEPT !.mode = @ \ REP])
Sent(c, w, port, v) == [c EXCEPT !.io = Append(@, <<w, port, v>>)]
ins(c, w) ==
  LET Step(d) == Moved(Store(d, w, AtES(d, EDI), In(w, Word(d, EDX))), w, EDI)
  IN  RepPort(c, w, Step)
outs(c, w) ==
  LET Step(d) == Moved(Sent(d, w, Word(d, EDX), Load(d, w, AtES(d, ESI))), w, ESI)
  IN  RepPort(c, w, Step)

-----------------------------------------------------------------------------
\* A pointer in memory, to a register and a segment register.
FarPointer(x, s) ==
  Ended(IF ~ InMemory(x) THEN x.c
        ELSE [SetReg(Accessed(x.c), WORD, x.m.rh, Read(x.c, WORD, x))
               EXCEPT !.seg[s] = Load(x.c, WORD, DataAt(x.c, x.off + Bytes(WORD)))])
pop_seg(c, s) == Ended([Dropped(c, WORD) EXCEPT !.seg[s] = Top(c, WORD)])
push_seg(c, s) == Ended(push(c, WORD, c.seg[s]))
Exchanged(c, w, m, n) == Ended(SetReg(SetReg(c, w, m, Reg(c, w, n)), w, n, Reg(c, w, m)))
push_R(c, n) == LET w == OpSize(c) IN Ended(push(c, w, Reg(c, w, n)))
pop_R(c, n) == LET w == OpSize(c) IN Ended(SetReg(Dropped(c, w), w, n, Top(c, w)))
mov_R_IMM(c, w, n) == Ended(SetReg(Past(c, w), w, n, Imm(c, w)))
=============================================================================
