------------------------------ MODULE X86Calls ------------------------------
(***************************************************************************)
(* The machine runs programs that nest pushes, frames, calls, far calls    *)
(* and interrupts, and keeps the stack that X86Lifo promises.              *)
(***************************************************************************)
EXTENDS X86Asm

-----------------------------------------------------------------------------
\* The programs.  An instruction is a record of X86Lifo; where one needs the
\* place of a procedure it has that one's label in goal.
Op(op) == [op |-> op]
Push(w, kind, n) == [op |-> "push", w |-> w, kind |-> kind, n |-> n]
Pop(w, kind, n) == [op |-> "pop", w |-> w, kind |-> kind, n |-> n]
Set_(n, v) == [op |-> "set", n |-> n, v |-> v]

\* The code of an instruction that goes to the procedure at place to, from
\* before the place next.
SegPush == <<<<6>>, <<\h0e>>, <<\h16>>, <<\h1e>>, <<15, \ha0>>, <<15, \ha8>>>>
SegPop == <<<<7>>, <<>>, <<\h17>>, <<\h1f>>, <<15, \ha1>>, <<15, \ha9>>>>
Sized(w, code) == IF w = LONG THEN <<\h66>> \o code ELSE code
Encoded(i, to, next, cs) ==
  CASE i.op = "push" -> Sized(i.w,
         CASE i.kind = "reg" -> <<\h50 + i.n>>
           [] i.kind = "seg" -> SegPush[i.n + 1]
           [] i.kind = "imm" -> IF i.n < 2^(BYTE - 1) THEN <<\h6a, i.n>> ELSE <<\h68>> \o Number(i.w, i.n)
           [] i.kind = "flags" -> <<\h9c>>)
    [] i.op = "pop" -> Sized(i.w,
         CASE i.kind = "reg" -> IF i.n = EDX THEN <<\h8f>> \o RM(R(i.w, i.n), 0) ELSE <<\h58 + i.n>>
           [] i.kind = "seg" -> SegPop[i.n + 1]
           [] i.kind = "flags" -> <<\h9d>>)
    [] i.op = "pusha" -> Sized(i.w, <<\h60>>)
    [] i.op = "popa" -> Sized(i.w, <<\h61>>)
    [] i.op = "call" -> IF i.through THEN <<\hff>> \o RM(R(WORD, EBX), 2)
                        ELSE <<\he8>> \o Number(WORD, (to - next) % 2^WORD)
    [] i.op = "callf" -> <<\h9a>> \o Number(WORD, to) \o Number(WORD, cs)
    [] i.op = "ret" -> IF i.words = 0 THEN <<\hc3>> ELSE <<\hc2>> \o Number(WORD, 2 * i.words)
    [] i.op = "retf" -> IF i.words = 0 THEN <<\hcb>> ELSE <<\hca>> \o Number(WORD, 2 * i.words)
    [] i.op = "int" -> IF i.number = 3 THEN <<\hcc>> ELSE <<\hcd, i.number>>
    [] i.op = "iret" -> <<\hcf>>
    [] i.op = "enter" -> <<\hc8>> \o Number(WORD, 2 * i.words) \o <<i.level>>
    [] i.op = "leave" -> <<\hc9>>
    [] i.op = "set" -> <<\hb8 + i.n>> \o Number(WORD, IF "goal" \in DOMAIN i THEN to ELSE i.v)
    [] i.op = "nop" -> <<\h90>>
    [] i.op = "hlt" -> <<\hf4>>

\* The program of these instructions: procedures start at labels.
Program(c, list) ==
  LET Target(i) == CHOOSE k \in DOMAIN list :
        "label" \in DOMAIN list[k] /\ list[k].label = i.goal
      Goes(i) == "goal" \in DOMAIN i
      Long(i) == Len(Encoded(i, 0, 0, 0))
      place[k \in 1 .. Len(list) + 1] ==
        IF k = 1 THEN 0 ELSE place[k - 1] + Long(list[k - 1])
      cs == c.seg["CS"]
      code == Joined([k \in DOMAIN list |->
                Encoded(list[k], IF Goes(list[k]) THEN place[Target(list[k])] ELSE 0, place[k + 1], cs)])
      asm == [k \in DOMAIN list |->
                LET i == list[k] IN
                IF ~ Goes(i) THEN i
                ELSE IF i.op = "set" THEN Set_(i.n, place[Target(i)])
                ELSE [to |-> Target(i)] @@ i]
      start == Here(c)
      Vectored(d, k) ==
        IF list[k].op # "int" THEN d
        ELSE LET at == 2 * list[k].number * Bytes(WORD)
             IN  Store(Store(d, WORD, at, place[Target(list[k])]), WORD, at + Bytes(WORD), cs)
  IN  [c |-> [FoldLeft(Vectored, c, [k \in DOMAIN list |-> k])
                EXCEPT !.code = [x \in start .. start + Len(code) - 1 |-> code[x - start + 1]]],
       on |-> "x86emu", kind |-> "calls", asm |-> asm, place |-> place, cs |-> cs, base |-> Word(c, ESP)]

-----------------------------------------------------------------------------
\* A job of another kind is a program that does nothing.
Ours == job.kind = "calls"
Of(x) == IF Ours THEN x ELSE <<>>
Asm == [asm |-> Of(job.asm), place |-> Of(job.place), cs |-> Of(job.cs), base |-> Of(job.base)]

\* The instruction IP is in, and the words from SP up to the empty stack.
Current == Cardinality({k \in DOMAIN job.place : job.place[k] <= IP(cpu)})
Depth == ((job.base - Word(cpu, ESP)) % 2^WORD) \div 2
Stack ==
  [k \in 1 .. Depth |->
    Load(cpu, WORD, Linear(cpu, cpu.seg["SS"], (Word(cpu, ESP) + 2 * (k - 1)) % 2^WORD))]

Lifo == INSTANCE X86Lifo WITH
  program <- Asm,
  at <- Of(Current), stack <- Of(Stack),
  reg <- Of([n \in (EAX .. EDI) \ {ESP} |-> cpu.r[n]]),
  seg <- Of([n \in 0 .. 5 |-> cpu.seg[SegName[n + 1]]]), flags <- Of(cpu.f)

\* What the handlers push and pop is a stack: SP, its wrap, the order of the
\* words and the widths cancel out, whatever nests in whatever, and every call
\* and every interrupt returns to the instruction behind it (push_*, pop_* and
\* the control transfers of ops.c, x86emu_do_int and pushw of v86_x86emu.c).
LifoSpec == Lifo!Spec

\* A program that takes back what it pushed ends with the stack empty and its
\* frame, segments and stack segment as they were.
Balanced ==
  Done /\ Ours =>
    /\ Stack = <<>> /\ Word(cpu, EBP) = Word(job.c, EBP)
    /\ cpu.seg["SS"] = job.c.seg["SS"] /\ cpu.seg["CS"] = job.c.seg["CS"]
=============================================================================
