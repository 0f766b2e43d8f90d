------------------------------- MODULE LrmiIo -------------------------------
(***************************************************************************)
(* The port instructions that the vm86 backend emulates for the BIOS when  *)
(* the kernel traps them: emulate and em_* of libs/lrmi-0.10/lrmi.c lines  *)
(* 454 to 735, on the processor of X86Cpu.  Its opcodes, jobs and what a   *)
(* string instruction should do are those of X86Strings: the two backends  *)
(* run the same BIOS.  On this one a job is a single instruction, and      *)
(* running says that emulate was not called for it yet.                    *)
(***************************************************************************)
EXTENDS X86Strings

\* The element goes to ES:DI, and DI moves; the upper half of EDI stays.
em_ins(c, w) == Moved(Store(c, w, AtES(c, EDI), In(w, Word(c, EDX))), w, EDI)
em_outs(c, w, s) ==
  Moved(Sent(c, w, Word(c, EDX), Load(c, w, Linear(c, c.seg[s], Word(c, ESI)))), w, ESI)

em_rep_ins(c, w) == SetReg(Times(c, Word(c, ECX), LAMBDA d : em_ins(d, w)), WORD, ECX, 0)

em_rep_outs(c, w, s) ==
  SetReg(Times(c, Word(c, ECX), LAMBDA d : em_outs(d, w, s)), WORD, ECX, 0)

\* Mutant of em_in: what was read is all that EAX holds.
em_in_clears(c, w, port) == [c EXCEPT !.r[EAX] = In(w, port)]

\* The rest of EAX stays.
em_in(c, w, port) == SetReg(c, w, EAX, In(w, port))
em_out(c, w, port) == Sent(c, w, port, Reg(c, w, EAX))
em_inbl(c, literal) == em_in(c, BYTE, literal)
em_inb(c) == em_in(c, BYTE, Word(c, EDX))
em_inw(c) == em_in(c, WORD, Word(c, EDX))
em_inl(c) == em_in(c, LONG, Word(c, EDX))
em_outbl(c, literal) == em_out(c, BYTE, literal)
em_outb(c) == em_out(c, BYTE, Word(c, EDX))
em_outw(c) == em_out(c, WORD, Word(c, EDX))
em_outl(c) == em_out(c, LONG, Word(c, EDX))

-----------------------------------------------------------------------------
\* CSEG to GSEG, and the prefixes that are just ignored.
Segment == [s \in SEGOVR |-> Override[s]]
Ignored == {\hf0, \hf2, \h67}
IsPrefix_(item) == item \in {\h66, \hf3} \cup Ignored \cup {Segment[s] : s \in SEGOVR}

\* How many prefixes stand at CS:IP, and what they say together: two prefixes
\* for the size take each other back, of the segments the last one counts.
Scan(c) ==
  LET n == CHOOSE n \in 0 .. Cardinality(DOMAIN c.code) :
             ~ IsPrefix_(Item(c, n)) /\ \A k \in 0 .. n - 1 : IsPrefix_(Item(c, k))
      At_(items) == {k \in 0 .. n - 1 : Item(c, k) \in items}
      segs == At_({Segment[s] : s \in SEGOVR})
  IN  [n |-> n, op |-> Item(c, n), rep |-> At_({\hf3}) # {},
       w |-> IF Cardinality(At_({\h66})) % 2 = 1 THEN LONG ELSE WORD,
       seg |-> IF segs = {} THEN "DS"
               ELSE CHOOSE s \in SEGOVR : Segment[s] = Item(c, Max(segs))]

\* IN and OUT of a word with the port in the instruction are not known.
Known == {\h6c, \h6d, \h6e, \h6f, \he4, \hec, \hed, \he6, \hee, \hef}
emulated(c, p) ==
  LET literal == Item(c, p.n + 1)
      Ins(w) == IF p.rep THEN em_rep_ins(c, w) ELSE em_ins(c, w)
      Outs(w) == IF p.rep THEN em_rep_outs(c, w, p.seg) ELSE em_outs(c, w, p.seg)
  IN  CASE p.op = \h6c -> Ins(BYTE)     [] p.op = \h6d -> Ins(p.w)
        [] p.op = \h6e -> Outs(BYTE)    [] p.op = \h6f -> Outs(p.w)
        [] p.op = \he4 -> em_inbl(c, literal)
        [] p.op = \hec -> em_inb(c)
        [] p.op = \hed -> IF p.w = LONG THEN em_inl(c) ELSE em_inw(c)
        [] p.op = \he6 -> em_outbl(c, literal)
        [] p.op = \hee -> em_outb(c)
        [] p.op = \hef -> IF p.w = LONG THEN em_outl(c) ELSE em_outw(c)

emulate(c) ==
  LET p == Scan(c)
      long == IF p.op \in {\he4, \he6} THEN 2 ELSE 1
  IN  IF p.op \notin Known THEN [ok |-> FALSE, c |-> c]
      ELSE [ok |-> TRUE, c |-> [emulated(c, p) EXCEPT !.ip = @ + p.n + long]]

Emulate ==
  /\ job.on = "vm86" /\ running /\ running' = FALSE
  /\ cpu' = emulate(cpu).c
  /\ UNCHANGED job

-----------------------------------------------------------------------------
\* A job of IN or OUT, of width w, with the port in the instruction or in DX.
Ported(c, op, w, literal, port) ==
  LET base == IF op = "in" THEN \he4 ELSE \he6
      d == IF literal THEN c ELSE SetReg(c, WORD, EDX, port)
  IN  [c |-> Loaded(d,
         (IF w = LONG THEN <<\h66>> ELSE <<>>)
           \o <<base + (IF w = BYTE THEN 0 ELSE 1) + (IF literal THEN 0 ELSE 8)>>
           \o (IF literal THEN <<port>> ELSE <<>>)),
       on |-> "x86emu", kind |-> "port", op |-> op, w |-> w, literal |-> literal, port |-> port]

\* An emulated instruction is behind IP as a whole, prefixes and port too, so
\* the BIOS goes on at its next one; one that is not known, IN and OUT of a
\* word with the port in the instruction, changes nothing.
PastInstruction ==
  LET code == Cardinality(DOMAIN Start.code) - 1
      known == job.kind = "string" \/ ~ job.literal \/ job.w = BYTE
  IN  Done /\ job.on = "vm86" => IF known THEN cpu.ip = Start.ip + code ELSE cpu = Start

\* IN takes as many bytes as it is wide and leaves the rest of EAX; OUT sends
\* as many.
PortsMoved ==
  LET known == ~ job.literal \/ job.w = BYTE
  IN  Done /\ job.on = "vm86" /\ job.kind = "port" /\ known =>
        /\ cpu.r = IF job.op = "out" THEN Start.r
                   ELSE [Start.r EXCEPT ![EAX] = (@ - (@ % 2^job.w)) + In(job.w, job.port)]
        /\ cpu.io = IF job.op = "in" THEN <<>> ELSE <<<<job.w, job.port, Reg(Start, job.w, EAX)>>>>
        /\ cpu.mem = Start.mem

\* What the other backend does alike: x86emu moves one long of several (see
\* PortsUntilZero), has OUTS read from ES and repeats after either prefix.
Alike ==
  \/ job.kind = "port"
  \/ /\ job.kind = "string" /\ job.op = "ins" /\ job.rep # "repne"
     /\ job.w = LONG => job.rep = "none"

\* When the machine of the other backend is through with an instruction, at
\* its HLT, the registers, the memory and the ports are as emulate leaves them:
\* a BIOS sees the same devices under vm86 and under x86emu.
BackendsAgree ==
  LET e == emulate(Start)
  IN  Done /\ job.on = "x86emu" /\ Alike /\ e.ok =>
        /\ cpu.r = e.c.r /\ cpu.mem = e.c.mem /\ cpu.io = e.c.io
        /\ IP(cpu) = IP(e.c) + 1
=============================================================================
