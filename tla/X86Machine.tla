----------------------------- MODULE X86Machine -----------------------------
(***************************************************************************)
(* The emulated processor at work: X86EMU_exec and x86emu_intr_handle      *)
(* (libs/x86emu/decode.c lines 49-143) over the opcodes of X86Ops.  A step *)
(* is one turn of the loop: what is pending, then one opcode.  A prefix is *)
(* an opcode with a turn of its own.                                       *)
(*                                                                         *)
(* A job is a processor with a program, of a kind, and what the program is *)
(* meant to do; the modules that extend this one say what that is.  The    *)
(* machine stops where its program ends, which in memory would be data.    *)
(* X86Programs puts the actions of this module and of LrmiIo together.     *)
(***************************************************************************)
EXTENDS X86Ops

CONSTANTS
  JobKinds,      \* the kinds of jobs to run
  Jobs(_)        \* those of a kind, a sequence of sets: processors c, on a backend

VARIABLES
  job,           \* what runs, as it was at the start
  cpu,           \* M.x86 and the memory
  running        \* X86EMU_exec is in its loop

machine == <<job, cpu, running>>

\* Where the next item is fetched from.
Here(c) == Linear(c, c.seg["CS"], IP(c))

\* M.x86.intr = 0 at the start of the loop.
Init ==
  /\ \E kind \in JobKinds : \E k \in DOMAIN Jobs(kind) : job \in Jobs(kind)[k]
  /\ cpu = [job.c EXCEPT !.intr = {}]
  /\ running = TRUE

\* A vector of every number was set up by v86_init.
x86emu_intr_handle(c) ==
  IF "synch" \in c.intr THEN x86emu_do_int(c, c.intno) ELSE c

\* Errors do not wait for IF; what does is handled while IF is off.
Pending(c) ==
  ("synch" \in c.intr /\ c.intno \in {0, 2}) \/ (c.intr # {} /\ "IF" \notin c.f)
Handled(c) == IF Pending(c) THEN x86emu_intr_handle(c) ELSE c

Return ==
  /\ job.on = "x86emu" /\ running /\ "halted" \in cpu.intr
  /\ running' = FALSE
  /\ UNCHANGED <<job, cpu>>

X86EMU_exec ==
  LET c == Handled(cpu)
  IN  /\ job.on = "x86emu" /\ running /\ "halted" \notin cpu.intr
      /\ Here(c) \in DOMAIN cpu.code
      /\ cpu' = x86emu_optab(Past(c, BYTE), Item(c, 0))
      /\ UNCHANGED <<job, running>>

\* The caller goes on.
Returned == ~ running /\ UNCHANGED machine

-----------------------------------------------------------------------------
\* What a program had, and that it came to its end.
Start == job.c
Done == ~ running
=============================================================================
