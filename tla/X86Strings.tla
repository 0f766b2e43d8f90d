----------------------------- MODULE X86Strings -----------------------------
(***************************************************************************)
(* The machine runs a string instruction, once or under a repeat prefix,   *)
(* in both directions, with and without an override and an operand size:   *)
(* the whole of it is one turn of the loop of the emulator.                *)
(***************************************************************************)
EXTENDS X86Asm

\* A job has the operation op, its width w, the prefix rep or "none", the
\* segment over of its override and the segment from of its source.
Opcode ==
  [movs |-> \ha4, cmps |-> \ha6, stos |-> \haa, lods |-> \hac, scas |-> \hae,
   ins |-> \h6c, outs |-> \h6e]
Comparing == {"cmps", "scas"}

\* The override and the size stand behind the repeat prefix.
Stringed(c, op, w, rep, over, from) ==
  [c |-> Loaded(c,
     (CASE rep = "none" -> <<>> [] rep = "repe" -> <<\hf3>> [] rep = "repne" -> <<\hf2>>)
       \o (IF over = "DS" THEN <<>> ELSE <<Override[over]>>)
       \o (IF w = LONG THEN <<\h66>> ELSE <<>>)
       \o <<Opcode[op] + (IF w = BYTE THEN 0 ELSE 1)>>),
   on |-> "x86emu", kind |-> "string", op |-> op, w |-> w, rep |-> rep, from |-> from]

-----------------------------------------------------------------------------
Ended_ == Done /\ job.kind = "string"
Size_ == Bytes(job.w)
Count == IF job.rep = "none" THEN 1 ELSE Word(Start, ECX)
Backward == "DF" \in Start.f

\* The elements: their addresses, counted from 0, and their values at first.
Offset(n, i) == (Word(Start, n) + i * (IF Backward THEN - Size_ ELSE Size_)) % 2^WORD
From(i) == Linear(Start, Start.seg[job.from], Offset(ESI, i))
To(i) == Linear(Start, Start.seg["ES"], Offset(EDI, i))
Element(i) == Load(Start, job.w, From(i))
Target(i) == Load(Start, job.w, To(i))
Accumulator_ == Reg(Start, job.w, EAX)

\* The two numbers the i-th comparison is of.
Left(i) == IF job.op = "cmps" THEN Element(i) ELSE Accumulator_
Equal(i) == Left(i) = Target(i)

\* How many elements were taken: all, or up to the first comparison that ends
\* it, which is counted.
Taken ==
  LET ends == {i \in 0 .. Count - 1 : Equal(i) # (job.rep = "repe")}
  IN  IF job.op \notin Comparing \/ job.rep = "none" \/ ends = {} THEN Count ELSE Min(ends) + 1

\* CX, SI and DI all tell how far it came, and nothing else is moved; so what
\* follows the instruction can tell where the difference was, or go on.
CountersAgree ==
  Ended_ =>
    /\ Word(cpu, ECX) = (IF job.rep = "none" THEN Word(Start, ECX) ELSE Count - Taken)
    /\ Word(cpu, ESI) = (IF job.op \in {"movs", "cmps", "lods", "outs"} THEN Offset(ESI, Taken)
                         ELSE Word(Start, ESI))
    /\ Word(cpu, EDI) = (IF job.op \in {"movs", "cmps", "stos", "scas", "ins"} THEN Offset(EDI, Taken)
                         ELSE Word(Start, EDI))
    /\ \A n \in {EDX, EBX, ESP, EBP} : cpu.r[n] = Start.r[n]
    /\ cpu.mode = {}

\* How many elements the target lies behind the source, in the direction of
\* the copy: within the count what was copied is copied again.
Ahead ==
  LET d == CHOOSE d \in {1, -1} : Backward = (d = -1)
  IN  d * (To(0) - From(0))
Value_(i) ==
  CASE job.op = "stos" -> Accumulator_
    [] job.op = "ins" -> In(job.w, Word(Start, EDX))
    [] OTHER -> Element(IF Ahead > 0 /\ Ahead % Size_ = 0 THEN i % (Ahead \div Size_) ELSE i)

\* Every element arrives, also where source and target overlap, and no byte
\* but those of the target is touched.
CopiesAll ==
  LET bytes == {To(i) + k : i \in 0 .. Taken - 1, k \in 0 .. Size_ - 1}
      writes == job.op \in {"movs", "stos", "ins"}
  IN  Ended_ =>
        /\ writes => \A i \in 0 .. Taken - 1 : Load(cpu, job.w, To(i)) = Value_(i)
        /\ \A x \in DOMAIN cpu.mem : (x \in bytes /\ writes) \/ cpu.mem[x] = Load(Start, BYTE, x)
        /\ Reg(cpu, job.w, EAX) =
             (IF job.op = "lods" /\ Taken > 0 THEN Element(Taken - 1) ELSE Accumulator_)

\* A comparison leaves what the last pair of elements was like, and one of no
\* elements leaves the flags alone.
ComparesLast ==
  LET i == Taken - 1
  IN  Ended_ =>
        IF job.op \notin Comparing \/ Taken = 0 THEN cpu.f = Start.f
        ELSE /\ "ZF" \in cpu.f <=> Equal(i)
             /\ "CF" \in cpu.f <=> Left(i) < Target(i)
             /\ "DF" \in cpu.f <=> Backward

\* "in until CX is ZERO", "out until CX is ZERO" (libs/x86emu/prim_ops.c lines
\* 2601 and 2667): as many elements go through the port as CX said.
PortsUntilZero ==
  Ended_ /\ job.op = "outs" =>
    cpu.io = [i \in 1 .. Count |-> <<job.w, Word(Start, EDX), Element(i - 1)>>]
=============================================================================
