-------------------------------- MODULE Lrmi --------------------------------
(***************************************************************************)
(* The backend that runs the BIOS in the vm86 mode of the processor:       *)
(* libs/lrmi-0.10/lrmi.c as v86_lrmi.c uses it.  LRMI_init maps memory and *)
(* takes a stack from the arena of RealMem; LRMI_int enters a handler of   *)
(* the BIOS and run_vm86 goes around the system call vm86 until the BIOS   *)
(* returns into the stub of ours, int 255.  What emulate does to registers *)
(* and memory is in LrmiIo; here it only counts which instructions it      *)
(* knows.  The kernel and the BIOS are external: the BIOS does what it     *)
(* likes within the bounds LEN and DEPTH, but it returns from interrupts   *)
(* the way it was called.                                                  *)
(***************************************************************************)
EXTENDS Integers, Sequences

CONSTANTS
  REAL_MEM_BASE, REAL_MEM_SIZE, REAL_MEM_BLOCKS, Requests, Strays,  \* of RealMem
  Vector,  \* the interrupt vectors in use: number |-> [seg, off]
  Ports,   \* the ports the BIOS uses
  LEN,     \* instructions of a handler, at most; handlers start at a multiple of 16
  DEPTH    \* interrupts inside one another, at most

VARIABLES
  ready, count, blocks, ret,  \* mem_info and the result, of RealMem
  held,     \* the blocks that tasks allocated and did not free
  maps,     \* what is mapped: the bytes of each area, from its start
  context,  \* ready, and stack: the address that stack_seg:0 stands for
  granted,  \* the calls of v86_init that worked, of ioperm and iopl
  pc,       \* where the process is
  vm,       \* cs, ip and sp of context.vm.regs; an instruction is one byte
  stack,    \* the words of the stack, by sp
  vret,     \* what vm86 returned, and insn: the instruction it stopped at
  masked,   \* all signals are blocked
  pending,  \* the signals that wait for being unblocked
  result,   \* of the last v86_int, or "none"
  frames    \* history: the places the BIOS should come back to, last first

arena == <<ready, count, blocks, ret>>
world == <<arena, held, maps, context, granted>>
call == <<pc, vm, stack, vret, masked, pending, result, frames>>
vars == <<world, call>>

M == INSTANCE RealMem

DEFAULT_STACK_SIZE == 4096
RETURN_TO_32_INT == 255
\* The areas that LRMI_init maps, and how much of each.
Areas == [real |-> REAL_MEM_SIZE, ivt |-> 1282, vram |-> 131072, rom |-> 262144]
Segments_ == DOMAIN Areas
Unmapped == [s \in Segments_ |-> 0]
Stub == [cs |-> 2304, ip |-> 0]                 \* ret_seg:ret_off, 0x0900:0
Top == 3 * (DEPTH + 1)                          \* words of stack that are modelled
DEFAULT_VM86_FLAGS == 12800                     \* IF and IOPL

\* The interrupt of our stub is not one of the BIOS, and its segment is ours.
ASSUME LrmiAssumption ==
  /\ LEN \in Nat /\ DEPTH \in Nat /\ Ports \subseteq Nat
  /\ \A v \in DOMAIN Vector :
       /\ v # RETURN_TO_32_INT
       /\ Vector[v].seg \in Nat \ {Stub.cs} /\ Vector[v].off \in Nat

\* The arena and the sizes of buffers, as RealMem assumes them.
ASSUME MemoryAssumption ==
  /\ REAL_MEM_BASE \in Nat /\ REAL_MEM_BASE > 0
  /\ REAL_MEM_SIZE \in Nat /\ REAL_MEM_SIZE > 0
  /\ REAL_MEM_SIZE < 1048576 /\ REAL_MEM_SIZE % 16 = 0
  /\ REAL_MEM_BLOCKS \in Nat /\ REAL_MEM_BLOCKS > 1
  /\ Requests \subseteq Nat \ {0}

InRom(p) == p.seg >= 40960 /\ p.seg * 16 + p.off < 1048576

Init ==
  /\ M!Init
  /\ held = {} /\ maps = Unmapped /\ context = [ready |-> FALSE, stack |-> 0] /\ granted = {}
  /\ pc = "real"
  /\ vm = [cs |-> 0, ip |-> 0, sp |-> 0]
  /\ stack = [k \in 0 .. Top - 1 |-> 0]
  /\ vret = [type |-> "none", arg |-> 0, insn |-> "none"]
  /\ masked = FALSE /\ pending = {}
  /\ result = "none" /\ frames = <<>>

-----------------------------------------------------------------------------
\* LRMI_init: each mapping may fail, and the code behind it undoes those made
\* before, every time in lines of its own.
Mapped(s, len, next) ==
  /\ maps' = [maps EXCEPT ![s] = len] /\ pc' = next
  /\ UNCHANGED <<held, context, granted>>

\* What munmap leaves of the area s.
munmap(m, s, len) == [m EXCEPT ![s] = IF @ > len THEN @ - len ELSE 0]

\* real_mem_deinit, and the return of 0.
real_mem_deinit(m) ==
  /\ maps' = IF ready THEN munmap(m, "real", REAL_MEM_SIZE) ELSE m
  /\ ready' = FALSE /\ pc' = "failed"
  /\ UNCHANGED <<count, blocks, ret, held, context, granted>>

real_mem_init ==
  /\ pc = "real"
  /\ \/ Mapped("real", REAL_MEM_SIZE, "ivt") /\ M!real_mem_init
     \/ pc' = "failed" /\ UNCHANGED world

map_ivt ==
  /\ pc = "ivt"
  /\ \/ Mapped("ivt", 1282, "vram") /\ UNCHANGED arena
     \/ real_mem_deinit(maps)

map_vram ==
  /\ pc = "vram"
  /\ \/ Mapped("vram", 131072, "rom") /\ UNCHANGED arena
     \/ real_mem_deinit(munmap(maps, "ivt", 1282))

\* Mutant of map_rom: the last way out is a copy of the one before.
map_rom_copied ==
  /\ pc = "rom"
  /\ \/ Mapped("rom", 262144, "stack") /\ UNCHANGED arena
     \/ real_mem_deinit(munmap(maps, "ivt", 1282))

map_rom ==
  /\ pc = "rom"
  /\ \/ Mapped("rom", 262144, "stack") /\ UNCHANGED arena
     \/ real_mem_deinit(munmap(munmap(maps, "ivt", 1282), "vram", 131072))

LRMI_init ==
  \/ real_mem_init \/ map_ivt \/ map_vram \/ map_rom
  \/ /\ pc = "stack"
     /\ M!AllocTake(DEFAULT_STACK_SIZE)
     /\ context' = [ready |-> TRUE, stack |-> ret']
     /\ pc' = "perm"
     /\ UNCHANGED <<held, maps, granted>>

\* The results of ioperm and iopl are not looked at.
v86_init ==
  /\ \/ LRMI_init
     \/ /\ pc = "perm" /\ pc' = "idle"
        /\ granted' \in SUBSET {"ioperm", "iopl"}
        /\ UNCHANGED <<arena, held, maps, context>>
  /\ UNCHANGED <<vm, stack, vret, masked, pending, result, frames>>

\* A task's buffer; a task without one frees 0.
v86_mem_alloc(size) ==
  /\ pc = "idle"
  /\ M!v86_mem_alloc(size)
  /\ held' = IF ret' = 0 THEN held ELSE held \cup {ret'}
  /\ UNCHANGED <<maps, context, granted, call>>
v86_mem_free(m) ==
  /\ pc = "idle" /\ m \in held \cup {0}
  /\ M!v86_mem_free(m)
  /\ held' = held \ {m}
  /\ UNCHANGED <<maps, context, granted, call>>

-----------------------------------------------------------------------------
Place(r) == [cs |-> r.cs, ip |-> r.ip]
pushw(s, sp, w) == [s EXCEPT ![sp - 1] = w]

\* Mutant of Pushed: the offset before the segment.
Pushed_swapped(s, sp, p) ==
  pushw(pushw(pushw(s, sp, DEFAULT_VM86_FLAGS), sp - 1, p.ip), sp - 2, p.cs)

\* Flags, segment and offset of the place to come back to: by LRMI_int, by
\* run_vm86, and by the kernel.
Pushed(s, sp, p) ==
  pushw(pushw(pushw(s, sp, DEFAULT_VM86_FLAGS), sp - 1, p.cs), sp - 2, p.ip)

Interrupt(v, sp, p) ==
  /\ vm' = [cs |-> Vector[v].seg, ip |-> Vector[v].off, sp |-> sp - 3]
  /\ stack' = Pushed(stack, sp, p)
  /\ frames' = <<p>> \o frames

\* set_regs, and a stack of our own: a task's ss and sp are 0.
LRMI_int(v) ==
  /\ pc = "idle" /\ frames = <<>>
  /\ IF InRom(Vector[v])
     THEN Interrupt(v, Top, Stub) /\ pc' = "loop" /\ result' = "none"
     ELSE pc' = "idle" /\ result' = "notrom" /\ UNCHANGED <<vm, stack, frames>>
  /\ UNCHANGED <<vret, masked, pending, world>>

run_vm86_enter ==
  /\ pc = "loop" /\ pc' = "vm86"
  /\ masked' = TRUE
  /\ UNCHANGED <<vm, stack, vret, pending, result, frames, world>>

\* What waited is delivered: SIGTERM ends the process, SIGTSTP only stops it.
run_vm86_leave ==
  /\ pc = "back"
  /\ masked' = FALSE /\ pending' = {}
  /\ pc' = IF "term" \in pending THEN "dead" ELSE "look"
  /\ UNCHANGED <<vm, stack, vret, result, frames, world>>

Ended(r) ==
  /\ pc' = "idle" /\ result' = r /\ frames' = <<>>
  /\ UNCHANGED <<vm, stack, vret, masked, pending, world>>

\* LrmiIo!Known: all but HLT and IN and OUT of a word with the port in the
\* instruction.
Known == {"port", "literal"}

\* Mutant of Emulated: the BIOS is sent back to the instruction.
Emulated_again ==
  /\ vret.type = "UNKNOWN" /\ vret.insn \in Known
  /\ pc' = IF "iopl" \in granted THEN "loop" ELSE "dead"
  /\ UNCHANGED <<vm, stack, vret, masked, pending, result, frames, world>>

\* The process executes a port instruction itself, and dies of SIGSEGV when
\* iopl was not granted.
Emulated ==
  /\ vret.type = "UNKNOWN" /\ vret.insn \in Known
  /\ IF "iopl" \in granted THEN pc' = "loop" /\ vm' = [vm EXCEPT !.ip = @ + 1]
     ELSE pc' = "dead" /\ UNCHANGED vm
  /\ UNCHANGED <<stack, vret, masked, pending, result, frames, world>>

Reflected ==
  /\ vret.type = "INTx" /\ vret.arg # RETURN_TO_32_INT
  /\ Interrupt(vret.arg, vm.sp, Place(vm)) /\ pc' = "loop"
  /\ UNCHANGED <<vret, masked, pending, result, world>>

\* Mutant of Succeeded: every interrupt is taken for the last one.
Succeeded_early == vret.type = "INTx" /\ Ended("ok")

Succeeded == vret.type = "INTx" /\ vret.arg = RETURN_TO_32_INT /\ Ended("ok")

Failed ==
  /\ vret.type # "INTx"
  /\ vret.type = "UNKNOWN" => vret.insn \notin Known
  /\ Ended("failed")

run_vm86_look == pc = "look" /\ (Succeeded \/ Reflected \/ Emulated \/ Failed)

run_vm86 == run_vm86_enter \/ run_vm86_leave \/ run_vm86_look

-----------------------------------------------------------------------------
\* The kernel comes back from vm86.
Back(type, arg, insn) ==
  /\ pc' = "back" /\ vret' = [type |-> type, arg |-> arg, insn |-> insn]
  /\ UNCHANGED <<stack, frames, masked, pending, result, world>>
OnWithin == UNCHANGED <<pc, vret, masked, pending, result, world>>
Stepped == vm' = [vm EXCEPT !.ip = @ + 1]
Inside == pc = "vm86" /\ Place(vm) # Stub
InHandler == Inside /\ vm.ip % 16 < LEN

BiosReturned == pc = "vm86" /\ Place(vm) = Stub /\ Back("INTx", RETURN_TO_32_INT, "int") /\ UNCHANGED vm
BiosInt(v) ==
  /\ InHandler /\ Len(frames) <= DEPTH
  /\ \/ Interrupt(v, vm.sp, [Place(vm) EXCEPT !.ip = @ + 1]) /\ OnWithin
     \/ Stepped /\ Back("INTx", v, "int")
BiosIret ==
  /\ Inside
  /\ vm' = [cs |-> stack[vm.sp + 1], ip |-> stack[vm.sp], sp |-> vm.sp + 3]
  /\ frames' = Tail(frames)
  /\ UNCHANGED stack /\ OnWithin

\* Mutant of Opened: ioperm for the first 128 ports only.
Opened_few(port) == "ioperm" \in granted /\ port < 128

\* ioperm(0, 1024, 1) of v86_init
Opened(port) == "ioperm" \in granted /\ port < 1024
BiosPort(port, form) ==
  /\ InHandler
  /\ form \in {"literal", "wide"} => port < 256
  /\ IF Opened(port) THEN Stepped /\ UNCHANGED <<stack, frames>> /\ OnWithin
     ELSE Back("UNKNOWN", 0, form) /\ UNCHANGED vm
BiosHalt == InHandler /\ Back("UNKNOWN", 0, "hlt") /\ UNCHANGED vm
BiosLost ==
  /\ InHandler /\ ~ InRom([seg |-> vm.cs, off |-> vm.ip])
  /\ pc' = "dead"
  /\ UNCHANGED <<vm, stack, vret, masked, pending, result, frames, world>>
Kernel ==
  \/ BiosReturned \/ BiosIret \/ BiosHalt \/ BiosLost
  \/ \E v \in DOMAIN Vector : BiosInt(v)
  \/ \E port \in Ports, form \in {"port", "literal", "wide"} : BiosPort(port, form)

\* A signal waits while signals are blocked; else it ends the process, or
\* stops it for a while, which ends the system call vm86.
Signal(s) ==
  /\ pc \notin {"dead", "failed"}
  /\ IF masked
     THEN pending' = pending \cup {s} /\ UNCHANGED <<pc, vret>>
     ELSE /\ pc' = IF s = "term" THEN "dead" ELSE IF pc = "vm86" THEN "back" ELSE pc
          /\ vret' = IF pc = "vm86" THEN [type |-> "SIGNAL", arg |-> 0, insn |-> "none"] ELSE vret
          /\ UNCHANGED pending
  /\ UNCHANGED <<vm, stack, masked, result, frames, world>>

Next ==
  \/ v86_init
  \/ \E size \in Requests : v86_mem_alloc(size)
  \/ \E m \in held \cup {0} : v86_mem_free(m)
  \/ \E v \in DOMAIN Vector : LRMI_int(v)
  \/ run_vm86 \/ Kernel
  \/ \E s \in {"term", "stop"} : Signal(s)

\* The process runs when it can, and a BIOS within the bounds comes to an end.
Fairness == WF_vars(run_vm86) /\ WF_vars(Kernel)
Spec == Init /\ [][Next]_vars /\ Fairness

-----------------------------------------------------------------------------
\* LRMI_init maps all it needs or leaves not a byte mapped, whichever mapping
\* fails: each of its ways out, at lrmi.c lines 345, 352 and 360, takes back
\* just what the steps before it did, with their lengths.
AllOrNothing ==
  /\ context.ready => maps = Areas /\ ready
  /\ pc = "failed" => maps = Unmapped /\ ~ ready

\* The stack that LRMI_init took from the arena is a block of its own for
\* good: tasks' buffers come and go around it and never overlap it.
StackKept ==
  context.ready =>
    /\ \E i \in 0 .. count - 1 :
         ~ blocks[i].free /\ blocks[i].addr = context.stack /\ blocks[i].size = DEFAULT_STACK_SIZE
    /\ \A m \in held : m >= context.stack + DEFAULT_STACK_SIZE \/ m < context.stack

\* The words on the stack are the places the BIOS has to come back to, in
\* their order, whether the kernel, run_vm86 or LRMI_int pushed them; the last
\* of them is the stub.
StackHoldsFrames ==
  pc \in {"loop", "vm86", "back", "look"} =>
    /\ vm.sp + 3 * Len(frames) = Top
    /\ \A k \in 1 .. Len(frames) :
         LET at == vm.sp + 3 * (k - 1)
         IN  stack[at + 1] = frames[k].cs /\ stack[at] = frames[k].ip
    /\ frames # <<>> => frames[Len(frames)] = Stub

\* A call is successful when the handler came back to the stub with all its
\* interrupts done, and only then.
OkIsReturned ==
  [][result' = "ok" /\ result # "ok" => Place(vm) = Stub /\ vm.sp = Top /\ frames = <<>>]_vars

\* With the permissions of v86_init a call fails only because of an
\* instruction no process may execute: no port instruction and no signal
\* makes it fail.
FailsOnlyOfHlt ==
  result = "failed" /\ "ioperm" \in granted => vret.type = "UNKNOWN" /\ vret.insn = "hlt"

\* A call comes to an end: the loop of run_vm86 makes progress with every turn.
\* A signal blocked for the time of vm86 is delivered afterwards.
CallEnds ==
  /\ pc = "loop" ~> pc \in {"idle", "dead"}
  /\ pending # {} ~> pending = {} \/ pc = "dead"
=============================================================================
