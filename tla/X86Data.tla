------------------------------ MODULE X86Data ------------------------------
(***************************************************************************)
(* The machine runs programs of data instructions, in every encoding they  *)
(* have, and does what X86Isa says of them.                                *)
(***************************************************************************)
EXTENDS X86Asm

\* A job has the instructions of its program in asm, and in ends where the
\* code of each one ends, from its start.
Code(c, codes) == Loaded(c, Joined(codes))
Job(c, asm, codes) ==
  [on |-> "x86emu", c |-> Code(c, codes), kind |-> "data", asm |-> asm,
   ends |-> [k \in DOMAIN codes |-> Len(Joined(SubSeq(codes, 1, k)))]]

\* The instructions that are not behind IP yet, none for a job of another kind.
Ours == job.kind = "data"
Todo ==
  IF ~ Ours THEN <<>> ELSE
  LET done == Cardinality({k \in DOMAIN job.ends : job.ends[k] <= IP(cpu) - IP(job.c)})
  IN  SubSeq(job.asm, done + 1, Len(job.asm))

\* The registers, the segments and the memory that was written, by bytes.
RegisterCells == {<<"r", n, k>> : n \in EAX .. EDI, k \in 0 .. 3}
SegmentCells == {<<"s", n, k>> : n \in 0 .. 5, k \in 0 .. 1}
MemoryCells == {<<"m", x, 0>> : x \in DOMAIN cpu.mem}
Cells ==
  IF ~ Ours THEN <<>> ELSE
  [k \in RegisterCells \cup SegmentCells \cup MemoryCells |->
    LET of == CASE k[1] = "m" -> cpu.mem[k[2]]
                [] k[1] = "r" -> cpu.r[k[2]]
                [] k[1] = "s" -> cpu.seg[SegName[k[2] + 1]]
    IN  (of \div 2^(k[3] * BYTE)) % 2^BYTE]

Isa == INSTANCE X86Isa WITH
  todo <- Todo, store <- Cells, flags <- IF Ours THEN cpu.f ELSE {}

\* Every encoding of a data instruction computes what the instruction promises
\* from its operands, leaves it in the destination and in the flags, and
\* changes no other byte of the registers and of the memory; one instruction
\* after the other (the families of forms in ops.c and ops2.c).
IsaSpec == Isa!Spec

\* The emulator knows all these encodings: it stops at the HLT of the program
\* and not before (x86emu_optab, x86emu_optab2 and the illegal opcodes).
Completed == Done => Todo = <<>>
=============================================================================
