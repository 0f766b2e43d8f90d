------------------------------ MODULE X86Exec ------------------------------
(***************************************************************************)
(* One BIOS call under the software emulator: v86_int and its interrupt    *)
(* frames (v86_x86emu.c lines 22-42 and 149-173), the loop of the emulator *)
(* with its pending interrupts (libs/x86emu/decode.c lines 45-141), and    *)
(* the instructions that transfer control through the vectors or stop the  *)
(* emulator (libs/x86emu/ops.c, div_* of libs/x86emu/prim_ops.c).          *)
(*                                                                         *)
(* The BIOS is a program: an instruction at each address of one code       *)
(* segment, each of length one.  Memory is the stack segment, in words.    *)
(* Of the flags only IF is kept: no instruction here reads another one,    *)
(* and VIF and TF, which x86emu_do_int clears, do nothing in the emulator. *)
(***************************************************************************)
EXTENDS Integers, Sequences

CONSTANTS
  Programs,      \* the BIOSes: functions from 0 .. n to instructions
  Vectors,       \* interrupt number -> address of its handler in the BIOS
  STACK,         \* DEFAULT_STACK_SIZE, in words
  SEGMENT,       \* the words of a 64 kB segment, at which SP wraps
  MaxCalls,      \* bound: how often v86_int is called
  MaxDepth       \* bound: how deep interrupts nest

Instructions == {"nop", "cli", "sti", "int", "iret", "hlt", "illegal", "div"}

ASSUME ProgramAssumption == \A p \in Programs : \A i \in DOMAIN p : p[i] \in Instructions
ASSUME VectorAssumption ==
  {0, 1, 16} \subseteq DOMAIN Vectors /\ \A n \in DOMAIN Vectors : Vectors[n] \in Nat
\* The stack is a part of its segment.
ASSUME StackAssumption ==
  STACK \in Nat /\ SEGMENT \in Nat /\ 3 <= STACK /\ STACK < SEGMENT
\* Frames as deep as the bound admits do not go all around the segment.
ASSUME BoundAssumption ==
  MaxCalls \in Nat /\ MaxDepth \in Nat /\ 3 * (MaxDepth + 1) <= SEGMENT

BIOS == 1        \* the segment of the BIOS
HALT == 2        \* halt >> 4, where v86_init put an HLT

VARIABLES
  program,       \* the BIOS of this machine
  cpu,           \* M.x86: cs, ip, sp, iflag, intr, and the stack segment
  running,       \* X86EMU_exec is in its loop
  calls,         \* how often v86_int was called
  \* What happened, for the properties:
  frames,        \* the interrupted places that were not resumed yet
  fetched,       \* BIOS instructions fetched in this call, 0 or 1 for more
  raised, delivered  \* divide errors raised and handled, 2 for more

vars == <<program, cpu, running, calls, frames, fetched, raised, delivered>>

-----------------------------------------------------------------------------
\* pushw and push_word: SP wraps in its segment.
push(c, w) ==
  LET sp == (c.sp + SEGMENT - 1) % SEGMENT
  IN  [c EXCEPT !.sp = sp, !.stack[sp] = w]

\* The k-th word above SP.
Word(c, k) == c.stack[(c.sp + k) % SEGMENT]

\* Mutant of x86emu_do_int: CS is pushed before the flags.
do_int_swapped(c, num) ==
  [push(push(push(c, c.cs), c.iflag), c.ip) EXCEPT !.cs = BIOS, !.ip = Vectors[num]]

\* Flags and return address are pushed, IF is left as it is.
x86emu_do_int(c, num) ==
  [push(push(push(c, c.iflag), c.cs), c.ip) EXCEPT !.cs = BIOS, !.ip = Vectors[num]]

\* Mutant of x86emuOp_iret: the interrupted instruction is run again.
iret_retry(c) ==
  [c EXCEPT !.ip = (Word(c, 0) + 65535) % 65536, !.cs = Word(c, 1), !.iflag = Word(c, 2),
            !.sp = (@ + 3) % SEGMENT]

x86emuOp_iret(c) ==
  [c EXCEPT !.ip = Word(c, 0), !.cs = Word(c, 1), !.iflag = Word(c, 2),
            !.sp = (@ + 3) % SEGMENT]

\* Mutant of Started: X86EMU_exec keeps what the last call left in intr.
StartedStale(c) ==
  push(push(push([c EXCEPT !.cs = BIOS, !.ip = Vectors[16], !.sp = STACK,
                           !.iflag = 1], 1), HALT), 0)

\* v86_int sets up a frame that returns to the halt stub; X86EMU_exec clears
\* what is pending.
Started(c) ==
  push(push(push([c EXCEPT !.cs = BIOS, !.ip = Vectors[16], !.sp = STACK,
                           !.iflag = 1, !.intr = {}], 1), HALT), 0)

\* The instruction at CS:IP; everything but the BIOS and the stub is data.
Fetch(c) ==
  IF c.cs = BIOS /\ c.ip \in DOMAIN program THEN program[c.ip]
  ELSE IF c.cs = HALT /\ c.ip = 0 THEN "hlt" ELSE "illegal"

\* A pending divide error is handled before the next instruction is fetched,
\* whatever IF says.  Nothing clears it: x86emu_intr_handle does so only for
\* vectors without a function, and v86_init gave a function to all of them.
Pending == "synch" \in cpu.intr
Handled == IF Pending THEN x86emu_do_int(cpu, 0) ELSE cpu
Count(n) == IF n < 2 THEN n + 1 ELSE n
Place(c) == [cs |-> c.cs, ip |-> c.ip, iflag |-> c.iflag]
HandledFrames == IF Pending THEN Append(frames, Place(cpu)) ELSE frames

-----------------------------------------------------------------------------
Init ==
  /\ program \in Programs
  /\ cpu = [cs |-> 0, ip |-> 0, sp |-> STACK, iflag |-> 1, intr |-> {},
            stack |-> [i \in 0 .. SEGMENT - 1 |-> 0]]
  /\ running = FALSE /\ calls = 0
  /\ frames = <<>> /\ fetched = 0 /\ raised = 0 /\ delivered = 0

v86_int ==
  /\ ~ running /\ calls < MaxCalls
  /\ calls' = calls + 1 /\ running' = TRUE
  /\ cpu' = Started(cpu)
  /\ frames' = <<[cs |-> HALT, ip |-> 0, iflag |-> 1]>>
  /\ fetched' = 0 /\ raised' = 0 /\ delivered' = 0
  /\ UNCHANGED program

\* X86EMU_exec returns, and v86_int with it, always with 0.
Return ==
  /\ running /\ "halted" \in cpu.intr
  /\ running' = FALSE
  /\ UNCHANGED <<program, cpu, calls, frames, fetched, raised, delivered>>

\* The start of a turn of the loop, up to the fetch of an instruction op.
Turn(op) ==
  /\ running /\ "halted" \notin cpu.intr /\ Len(frames) <= MaxDepth
  /\ Fetch(Handled) = op
  /\ fetched' = IF Handled.cs = BIOS THEN 1 ELSE fetched
  /\ delivered' = IF Pending THEN Count(delivered) ELSE delivered
  /\ UNCHANGED <<program, running, calls>>

\* The CPU after the fetch.
Fetched == [Handled EXCEPT !.ip = @ + 1]

Nop == /\ Turn("nop") /\ cpu' = Fetched
       /\ frames' = HandledFrames /\ UNCHANGED raised

x86emuOp_cli == /\ Turn("cli") /\ cpu' = [Fetched EXCEPT !.iflag = 0]
                /\ frames' = HandledFrames /\ UNCHANGED raised

x86emuOp_sti == /\ Turn("sti") /\ cpu' = [Fetched EXCEPT !.iflag = 1]
                /\ frames' = HandledFrames /\ UNCHANGED raised

\* INT 1 stands for every software interrupt.
x86emuOp_int_IMM ==
  /\ Turn("int")
  /\ cpu' = x86emu_do_int(Fetched, 1)
  /\ frames' = Append(HandledFrames, Place(Fetched))
  /\ UNCHANGED raised

Iret ==
  /\ Turn("iret")
  /\ cpu' = x86emuOp_iret(Fetched)
  /\ frames' = SubSeq(HandledFrames, 1, Len(HandledFrames) - 1)
  /\ UNCHANGED raised

HALT_SYS(c) == [c EXCEPT !.intr = @ \cup {"halted"}]

\* HLT, and every opcode the emulator does not know.
Halt ==
  /\ Turn("hlt") \/ Turn("illegal")
  /\ cpu' = HALT_SYS(Fetched)
  /\ frames' = HandledFrames /\ UNCHANGED raised

\* x86emu_intr_raise(0), by a division that has no result.
DivideError ==
  /\ Turn("div")
  /\ cpu' = [Fetched EXCEPT !.intr = @ \cup {"synch"}]
  /\ raised' = Count(raised)
  /\ frames' = HandledFrames

Instruction ==
  \/ Nop \/ x86emuOp_cli \/ x86emuOp_sti \/ x86emuOp_int_IMM
  \/ Iret \/ Halt \/ DivideError

Next == v86_int \/ Return \/ Instruction

\* The emulator is a loop in one process: once called it keeps running.
Spec == Init /\ [][Next]_vars /\ WF_vars(Return \/ Instruction)

-----------------------------------------------------------------------------
\* The words between SP and the top of the stack are the frames of what was
\* interrupted and not resumed yet, innermost first: each IRET of the BIOS
\* finds the flags, segment and offset that its INT pushed, however deep the
\* handlers nest, and the last one finds the halt stub.
StackHoldsFrames ==
  (running /\ Len(frames) * 3 <= SEGMENT) =>
    LET Top(k) == (STACK - 3 * k) % SEGMENT
        Above(k, i) == cpu.stack[(Top(k) + i) % SEGMENT]
    IN  /\ cpu.sp = Top(Len(frames))
        /\ \A k \in 1 .. Len(frames) :
             frames[k] = [ip |-> Above(k, 0), cs |-> Above(k, 1), iflag |-> Above(k, 2)]

\* A call that has returned has run the BIOS: a halt or a divide error that
\* ended the call before does not end this one.  If it ended in the halt stub
\* it has emptied the stack and enabled interrupts again, even if a handler
\* ended with them disabled.
CleanReturn ==
  ~ running /\ calls > 0 =>
    /\ fetched = 1
    /\ cpu.cs = HALT => cpu.sp = STACK /\ cpu.iflag = 1 /\ frames = <<>>

\* A call of a BIOS without loops and recursion comes back, unless it divides
\* by zero.
Terminates == running ~> ~ running \/ Pending

\* "Raise the specified interrupt to be handled before the execution of the
\* next instruction" (libs/x86emu/decode.c lines 77-78): one divide error is
\* handled once.
HandledOnce == delivered <= raised
=============================================================================
