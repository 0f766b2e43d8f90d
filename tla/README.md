# v86d in TLA+

v86d is the user-space half of the uvesafb framebuffer driver. The kernel
starts it when it needs the video BIOS, posts tasks ("call INT 10h with these
registers and this buffer") over a netlink connector socket, and v86d runs them
in an x86 emulator (`libs/x86emu`, the default) or with the vm86 system call
(`libs/lrmi-0.10`, 32-bit only) and posts the results back. This directory
holds TLA+ models of that program, TLC configurations that check them, and
proofs that TLAPS checks.

## 1. The system

    kernel (uvesafb) <- netlink -> main loop -> v86_task -> v86_int -> X86EMU_exec -> instructions
                                    v86.c     v86_common.c  v86_x86emu.c   decode.c     ops*.c, prim_ops.c
                                                  |              |                          |
                                       buffer in real-mode   stack, halt stub        v_rdb .. v_wrl
                                             memory              |                          |
                                                  +--- v86_mem_alloc/free ---+---- vptr ----+
                                                            v86_mem.c

One process, one thread: the parent forks once and exits, there are no signal
handlers, and everything below `main` is a plain call. What makes the program
hard is elsewhere: two hand-written data structures with packed fields (the
block table of the allocator, the VBE info block), a resource that lives as
long as the daemon and is borrowed by each task (the arena), a machine inside
the machine (interrupt frames on an emulated stack that an untested BIOS
manipulates), and a peer that may post anything at any time and restarts the
daemon when it is gone.

| component | state | operations | what is hard | what makes it correct |
|---|---|---|---|---|
| real-mode memory allocator (`v86_mem.c` 108-205) | `mem_info`: table of 256 blocks with a 20-bit size and a free bit | `real_mem_init/deinit`, `v86_mem_alloc`, `v86_mem_free` | no addresses are stored, splitting and merging shift the table; full table; exact fits; truncation; wrong frees | the table partitions the arena; neighbours are never both free; what is handed out is disjoint and is given back whole |
| real-mode memory map (`v86_mem.c` 10-106, 207-341) | six mappings of `/dev/mem` and `/dev/zero`, the sizes found in the BIOS areas | `v86_mem_init`, `v86_mem_cleanup`, `get_bytes_from_phys`, `vptr`, accessors | each of seven steps may fail; sizes come from memory; the EBDA may start anywhere | all is undone whatever fails; an emulated address reaches the physical byte of that address, in a live mapping |
| VBE info block conversion (`v86_common.c` 4-31, 63-120) | the block, `fsize` and `cbuf` | mode list, four strings | five items share the free half of the block; three places each may be in | each pointer of the reply finds the item the BIOS meant; nothing behind the buffer changes |
| task execution (`v86_common.c` 33-155) | registers, buffer | `v86_task` | failures leave by goto | buffers are freed on every way; the reply holds the request's data or the answer's, never a mixture |
| daemon main loop (`v86.c`) | socket, `need_exit` | `main`, `req_exec`, `netlink_send` | overruns, messages of others, failing poll/recv/send, restarts | every request of the kernel answered, in order and once, until the daemon gives up; keeps reading; leaves when told or overrun |
| emulator glue (`v86_x86emu.c`) | `M.x86`, stack, halt stub | `v86_init`, `v86_int`, `x86emu_do_int`, `v86_cleanup` | C code builds the frame that emulated code takes down | a call starts at the service and ends in the halt stub |
| emulator control loop (`libs/x86emu/decode.c`) | `M.x86.intr`, CS:IP | `X86EMU_exec`, interrupts, fetch and address decoding | pending interrupts and a pending halt between instructions | one interrupt is delivered once; a halt ends its own call only |
| emulated instructions (`ops.c`, `ops2.c`, `prim_ops.c`) | registers, flags, memory, prefixes in `M.x86.mode` | two tables of 256 handlers, some 150 primitives | every form is written out again for each opcode, mod field and width; flags that one instruction hands to the next; words and longs on one stack; counts at 0 and at the width | each does what the processor does, and a program of them what it is written for |
| vm86 backend (`v86_lrmi.c`, `lrmi.c`) | `context`: vm86 registers, arena, stack | `LRMI_init`, `LRMI_int`, `run_vm86`, an emulator of the port instructions the kernel traps | two ways to run code, one of them the kernel's; signals; permissions that may be refused; a stack from the arena of the tasks | same contract as the glue: a call ends, and is successful only when the BIOS came back |
| FPU decoding, debugging, self test, test programs, build | none that matters at run time | | | |

`PROJECT.json` lists every component with its files and status, the hazards
at their lines, and for each definition the lines it translates.

## 2. The modules

| module | models | how it corresponds to the code |
|---|---|---|
| `Heap` | what an allocator promises | chunks handed out, disjoint, given back whole; no table |
| `RealMem` | the allocator | `blocks` is the whole array with its stale entries; one action each for `real_mem_init`, `real_mem_deinit`, an allocation that succeeds or fails, a free that hits or misses. `addr` in a block is auxiliary: the value `r` has when a loop of the code reaches it |
| `V86Mem` | the memory map | `pc` is the place in `v86_mem_init`; each step maps a region or fails, and on failure does the cleanup that the code does there; `vptr` is an operator; a mapping is its length and its place in `/dev/mem` |
| `VbeTask` | the conversion of the VBE info block | one action for each branch for each item, in the order of the code; a byte is named by the item it belongs to and its place there |
| `X86Exec` | one BIOS call under the emulator | `cpu` is `M.x86`; one action for each turn of the loop of `X86EMU_exec`, by the instruction it executes, with the handling of pending interrupts at its start; `v86_int` and the return from it. The BIOS is any program of the instructions that touch interrupts |
| `Service` | what the kernel may expect | requests and answers, and whether the service is open; no process, socket or memory. While it is open no request is left out; requests are lost only when it closes, and it opens again with none |
| `V86d` | the daemon | `pc` is the place in `main` or `v86_task`; uses the actions of `RealMem` through INSTANCE, so every task really allocates and frees; the kernel is an external actor (`Start`, `Post`) |
| `X86Alu` | `prim_ops.c` | one operator for each primitive, with the width as a parameter; operand values and the set of flags in, result and flags out |
| `X86Cpu` | `decode.c` but its loop, `regs.h` | a processor is a record of registers, segments, flags, prefixes, pending interrupts, code and memory; fetching, the register names of a ModRM byte, every addressing mode, `push_word`, `pop_word` |
| `X86Forms` | what a family of handlers has in common | the forms "operand and register", "register and operand", "accumulator and immediate", the groups 80 to 83, C0 to D3, F6 and F7, the jumps on a condition, REP, the port strings |
| `X86OpsLow`, `X86Ops` | `ops.c`, `fpu.c` | an operator for each handler and `x86emu_optab`, by rows; `x86emu_do_int` of the glue, which INT calls |
| `X86Ops2` | `ops2.c` | an operator for each handler and `x86emu_optab2` |
| `X86Machine` | the loop of `X86EMU_exec` over all opcodes | a *job* is a processor with a program and what the program is meant to do; a step is a turn of the loop, a prefix a turn of its own |
| `X86Isa`, `X86Data` | what data instructions promise, and the machine running them | abstract: cells of a byte, operands as sequences of cells, the exact result and its flags; no encodings, prefixes or addressing modes |
| `X86Lifo`, `X86Calls` | what the stack promises, and the machine running pushes, frames, calls and interrupts | abstract: a sequence of words; no addresses and no encodings |
| `X86Strings`, `X86Jumps`, `X86Address`, `X86Idioms` | programs of the other kinds and what each is for | string instructions; conditions, loops and jumps of every form; stores through every addressing form; the idioms in which flags go from one instruction to the next |
| `X86Asm` | (external) an assembler | the encodings of the programs above |
| `LrmiIo` | `emulate` and `em_*` of `lrmi.c` | the port instructions that the kernel traps, on the processor of `X86Cpu`, so that both backends can be compared |
| `X86Programs` | both backends running the programs | puts the modules above together; its properties are theirs, by subject |
| `X86Numbers` | long numbers, decimal numbers, shifts and divisions computed with `X86Alu` | a step is one primitive; the carry of one is the input of the next |
| `Lrmi` | the vm86 backend | `pc` is the place in `v86_init`, `LRMI_int` or `run_vm86`; `maps` is how many bytes of each area are mapped, and each of the ways out of `LRMI_init` has its own calls of `munmap`, with the lengths of the code; the kernel, the BIOS and signals are external actors; the arena is `RealMem` through INSTANCE |
| `MC*` | | values of the constants for TLC |
| `RealMemProofs`, `V86MemProofs`, `VbeTaskProofs`, `X86ExecProofs`, `LrmiProofs`, `V86dProofs`, `X86AluProofs`, `X86NumbersProofs` | | theorems and proofs |

`V86d` composes the main loop, task execution and the allocator. A BIOS call
appears in it as the things it may do (`BiosReturns`, `BiosCrashes`,
`BiosHangs`; good or bad result), which is what `X86Exec`, `VbeTask` and
`V86Mem`, or `Lrmi` for the other backend, show of a call. `X86Exec` and
`X86Machine` model the same loop at two depths: `X86Exec` has every interleaving
of interrupts for every small BIOS, `X86Machine` every opcode for the programs
given to it. Names in the modules are those of the code where TLA+ allows it. A
definition whose comment begins with "Mutant of" is a plausible slip in the
definition it names; no model uses it, and `PROJECT.json` ("mutants") says which
property is violated when it is put in that definition's place.

**Widths.** `BYTE` is a parameter of all modules of the emulator, a word is two of
them and a long four, so that a long, and the product of two, fits TLC's
integers: 6 bits to run programs (opcodes, ModRM bytes and prefixes stay those
of the code; an item of code is a number, whatever its size), 4 bits to compute. What
the code writes as a constant of a width (0xFF, 0x8000, a count taken modulo 32)
is written in terms of the width. `RADIX` is the ten of the decimal adjustments.

## 3. What TLC checks

| run | question | bounds, and why they are enough | states |
|---|---|---|---|
| `real_mem` | Is the table sound after every sequence of operations, wrong frees included, and does it implement `Heap`? | arena as in `v86.h`; 5 entries instead of 256, so the table fills, splits in the middle and merges on both sides; requests of 8192, 17 and 120000 bytes: two stacks, a size to round, one that fits an almost empty arena only; frees of 0, of the end and of an address inside a block | 193,692 |
| `v86_mem` | Is all undone, and does every accepted address reach its byte? | seven values of the EBDA word (0, page 0, second page, inside the arena, usual, unaligned, 0xffff), four sizes, three ROM sizes; addresses at the first and last byte of every region | 747 |
| `vbe_task` | Does the kernel find what the BIOS left? | a block of 16 + 16 bytes instead of 512 + 512; the mode list and each string in the buffer, in ROM with no, some, just enough and too many bytes, or out of reach: every combination | 31,500 |
| `x86_exec` | Do interrupts nest and return, and does the call come back? | every service of three instructions with a handler of two, and every one that divides by zero, called twice, nested four deep; SP starts at 9 in a segment of 15 words, so that it wraps | 128,770 |
| `v86d` | No leak, no shortage, every request answered in order, an end after a dropped message, progress | two lives of the daemon, three messages of seven kinds, a socket for two messages, any of which may be dropped, 5 table entries, so that two leaked blocks are noticed | 334,621 |
| `x86_numbers` | Are results and flags such that the next instruction can build on them? | bytes of 4 bits, digits to base 3, numbers of two bytes: every operand with every count to 20 (a long has 16 bits), every dividend with every divisor, every pair of decimal numbers; binary bytes at the ends of the ranges and around the half carry | 315,645 |
| `x86_programs` | Does a program do what it is written for, opcode by opcode? | bytes of 6 bits; 32,464 programs of one to about ten instructions: each data instruction in each form, with operands at the ends of the range; pushes, frames, calls and interrupts of both sizes nested up to three deep, with SP that wraps; strings that overlap, end early, go backward; every condition with operands that tell signed from unsigned; every addressing form with and without overrides; the ports on both backends, and under vm86 with prefixes repeated and in any order | 234,665 |
| `lrmi` | Does a call under vm86 end as it should, whoever pushes the frames? | a table of 4 entries with the stack and buffers of tasks; handlers of one instruction, interrupts two deep, two handlers in ROM and one below; ports on both sides of 256 and of 1024; each mapping failing, every choice of permissions, two signals | 250,653 |

Bounds are constants of the modules: `MaxPosts`, `MaxStarts`, `SocketSize`
(V86d), `MaxCalls`, `MaxDepth` (X86Exec), `REAL_MEM_BLOCKS` (RealMem), `Limbs`,
`MaxCount` (X86Numbers), `LEN`, `DEPTH` (Lrmi), `JobKinds`, `Jobs` (X86Machine). The
deadlock check is off where the system really stops: a daemon that is down and
may not be started again, a conversion that is done, a call that has returned.

Most properties are named for what they say; those worth a word:

* `HeapSpec` (RealMem) maps the used blocks of the table to the chunks of `Heap`.
* `TaskGetsBuffer` (V86d): after any history no task is ever refused its
  buffer, although `v86_task` has that path. It rests on `Coalesced`: the
  mutant that omits the merge in `v86_mem_free` breaks it.
* `ServiceSpec` (V86d) implements `Service` with `Waiting`, the socket's queue
  with the message in hand before it, for `pending`, and `Open` for `open`: the socket
  is bound, nothing was dropped and the daemon has not left, or is about to leave, the
  loop of `main`. An
  answer counts whether `send` works or not, since `netlink_send` only logs a
  failure. A daemon that went on after a failed poll would take messages from a
  closed service; one that skipped a request would have to answer it first.
* `DropEnds` (V86d): the receive buffer is finite, and `recv` then fails with ENOBUFS.
  The kernel may drop a message at any time, with room in the socket or not;
  whenever it did, this daemon goes away, so that the next one can be started.
* `StackHoldsFrames` (X86Exec, Lrmi) compares the words on the emulated stack
  with a history variable that knows what was interrupted.
* `RoomEnds` (VbeTask) relates `fsize` and `cbuf`, of which one says what a
  pointer is set to and the other where the bytes go.
* `IsaSpec` (X86Programs) maps the registers, segments and memory of the
  processor to the cells of `X86Isa`: whatever the encoding, every instruction
  changes the cells of its destination to the exact result and no other cell.
* `LifoSpec` (X86Programs) maps the bytes between SP and the base of the stack to
  the words of `X86Lifo`, and CS:IP to the number of the next instruction.
* `LongNumbers` and `DecimalNumbers` (X86Numbers) are loop invariants: the limbs
  computed so far with the carry are the sum of the limbs used so far.
* `CountIsSteps` (X86Numbers) compares a shift by a count with that many by one. By
  0, all flags stay, but for OF, which SHL, SHR, SHLD and SHRD clear (`prim_ops.c`); a
  processor would leave it.
* `AllOrNothing` (Lrmi): `maps` is in bytes, so a `munmap` that one of the ways out
  forgets, repeats or calls with another length is noticed.
* `StackKept` (Lrmi): the stack that `LRMI_init` takes from the arena stays apart
  from every buffer a task gets.

**Findings.** Four runs are expected to end in a violation: each checks one
sentence, comment or message of the repository that the code contradicts.

| run | what the text says | what the code does |
|---|---|---|
| `v86_mem_unread` | "Video BIOS not found" unless the signature was read | the result of the read is ignored (`v86_mem.c` 288), the signature may be left over |
| `vbe_task_old` | an address with `t < bufend` is "in the buffer" | so is a null pointer of a VBE 1.x BIOS; its offset wraps |
| `x86_divide` | an interrupt is raised "to be handled before the execution of the next instruction" | a divide error stays pending and is handled before every instruction from then on |
| `x86_programs_ports` | REP INS and REP OUTS go on "until CX is ZERO" | of longs one is moved and CX set to 0 (`prim_ops.c` 2625 and 2690) |

**Divergences without a run.** The model does what the code does; the programs
and numbers of the passing runs leave out the following, in which the code is
not the processor that it emulates, and the comments of the modules name them
where they matter. The lines are of `libs/x86emu`.

* `mul_long`, `div_long`, `idiv_long` (`prim_ops.c` 2317, 2571, 2448): without
  `__HAS_LONG_LONG__`, which nothing defines, the middle part of a product loses
  its carry, a quotient that leaves a rest as large as the divisor is let
  through, and the sign of a signed quotient is bit 28. `DivisionUndoesProduct` is
  about bytes for that reason, and because `idiv_word` (2371) is undefined in C for the
  smallest dividend over -1, and for a quotient whose `abs` does not exist, where the
  model raises a divide error.
* The word of flags that PUSHF and interrupts push (`v86_x86emu.c` 35, `ops.c` 7577)
  has all bits of `R_EFLG`; the model's has the named flags and the bit that is
  always on, without IOPL and the reserved bits, on which nothing depends.
* `imul_word` (`prim_ops.c` 2185) compares DX with 0xFF, so a negative product
  that fits sets CF and OF.
* SETNL (`ops2.c` 269) stores what SETL does.
* `[EBP + disp]` of a 32-bit address uses DS, `[EDX + disp32]` SS (`decode.c`
  951, 1047, 1034), and a SIB byte with base EBP takes ESP (757).

And of other files: the comment at `v86_mem.c` 11 gives `mem_real` up to
0x09ffff, while it ends at 0x2ffff; a ROM string that fills the room in
`v86_common.c` 21 has its NUL one byte behind the block, where `testvbe.c` looks
for it (`BehindUntouched` says that it is only that byte); `LRMI_int` refuses a
handler below 0xa0000 (`lrmi.c` 1056-1063), while `run_vm86` reflects an interrupt
to wherever its vector points (852).

**Fairness.** `X86Exec` assumes `WF_vars(Return \/ Instruction)`: the emulator is
a loop in one process that the system keeps scheduling. `Terminates` holds for
programs without loops, which is a restriction on the BIOS in `MCX86Exec` and
not on the emulator. `V86d` assumes `WF_vars(Progress)` for the same reason;
nothing is assumed of the kernel, and no failure is ever forced. `Progress`
does not contain `BiosHangs`, but a call may hang, and `KeepsReading` says so.
`Lrmi` assumes weak fairness of `run_vm86`, the process, and of `Kernel`, the BIOS
within its bounds; signals are never forced.

**Assumptions on the environment.** The kernel passes `buf_len = sizeof(struct
vbe_ib)` with `TF_VBEIB` (it does, and `v86_task` would convert past a
smaller buffer); of that the proofs use that the length is not 0
(`BlockAssumption`). The buffer of a message fits the arena beside the stack and
the halt stub (`RoomAssumption`; `main` receives into 16 KB, the arena has 128 KB).
A VBE 2.0 BIOS keeps what it stores in the block in the first half of it, each
item apart from the others and with its end mark (`LayoutAssumption`). Memory of other processes does not
interfere. `V86d` and `V86Mem` are built with the x86emu backend, `Lrmi` with the
other one. Under vm86, a BIOS returns from interrupts with the stack as it got it.

## 4. What is proved

Each proof module gives the inductive invariant, shows that `Init` implies it and
that each step keeps it, one step for each action, and derives the theorems.
They hold for all values of the constants that the named ASSUMEs of the module
admit; the runs evaluate those.

* `RealMemProofs`, for every arena below 2^20 bytes that is a multiple of 16,
  every table of at least two entries, and all positive requests:
  `TypeCorrect`, `TilesHolds`, `CoalescedHolds`, `SpareTailHolds`, `NoLeakHolds`
  and `ImplementsHeap`. `Tiles` is not inductive: that a merged block's size
  fits 20 bits needs every block to lie in the arena, which adjacency alone
  gives only by induction over the table, so `Ordered` (any two blocks are in
  order) is carried along; that a free leaves no free neighbours needs that
  there were none before. `IInv` is the types, `Sound` (`Layout`, `Ordered`,
  `Aligned`) and `Apart`. The refinement follows from lemmas on what a split and
  a merge do to the set of used blocks.
* `V86MemProofs`, for every page size and all contents of the BIOS areas:
  `TypeCorrect` (the sizes stay in their bounds), `BalancedHolds`,
  `ResolvesHolds` and `WindowsApartHolds`. `Balanced` speaks of the end only; what
  makes it true on the way is `Owned`: the length of each mapping is at every
  step the one `v86_mem_cleanup` would compute from the sizes of that moment.
  That in turn holds because a region is mapped after its size is final
  (`InTurn`), and that the EBDA is never at 0, where `get_bytes_from_phys` leaves
  the offset alone (`DiffFits`). `Resolves` and `WindowsApart` need to know where
  each mapping begins as well: `Placed`, of which the fixed regions are a
  lemma on the constants of `v86.h` and the EBDA follows from how its page and
  its offset are computed.
* `VbeTaskProofs`, for every buffer size and every block that a BIOS may leave
  (`LayoutAssumption`): `RoomEndsHolds`, `ModesDeliveredHolds`,
  `StringsDeliveredHolds` and `BehindUntouchedHolds`. The last three speak of the
  end of the conversion. On the way, `DInv` says of each item where it is by then:
  one that was converted is where its pointer says, whole or up to the end of
  the room, and below `cbuf` (`ModesThere`, `StringsThere`); one that was not is in
  the first half as the BIOS left it (`Untouched`), since copies start at that half's
  end and never go back. That the end mark of a list fits, which the code does
  not look at, follows from the room being even at that time.
* `X86ExecProofs`, for every program, every table of vectors and every depth of
  nesting whose frames fit the stack segment (`BoundAssumption`):
  `StackHoldsFramesHolds` and `CleanReturnHolds`. `IInv` is the types, `Flow` (the
  history ends in the halt stub and is above it all BIOS; once it is empty, the
  processor is in the stub with interrupts enabled) and `Framed`: SP is three words
  for each frame below where the call began, modulo the segment, and those words are
  what the history remembers. That a push leaves the older frames alone is
  arithmetic modulo the segment, in lemmas apart. `CleanReturn` also needs that
  a call which executed nothing yet is still in the BIOS.
* `LrmiProofs`, for every arena, set of vectors, length of a handler and depth of
  nesting: `AllOrNothingHolds` from `MInv`, how many bytes of each area are mapped
  at each place of `LRMI_init`, which is what the `munmap`s behind that place take; `StackHoldsFramesHolds` and `OkIsReturnedHolds` from `FInv`, that the
  places to come back to are on the stack in the order of the history and only
  the last is the stub; `FailsOnlyOfHltHolds` from `HInv`, that what stopped vm86 is
  known when it is looked at; `StackKeptHolds` from `MemInv`, the allocator's invariant
  with the stack as one of its used blocks: an allocation adds a chunk apart from
  those there are, and a free removes the one it names (`AllocAdds`, `FreeRemoves` of
  `RealMemProofs`), which is never the stack because tasks free what they got.
* `V86dProofs`, for every set of messages, size of the socket, arena and number of
  messages and lives: `TypeCorrect`, `HeapAtRestHolds`, `TaskGetsBufferHolds`,
  `ListensWhenForkedHolds` and `ImplementsService`. The theory of the allocator is used through `P == INSTANCE
  RealMemProofs` with the sizes the daemon asks for; lemmas show that its
  operations are the ones `V86d` takes from `RealMem`. `IInv` is the types, the
  allocator's invariant, `Asked` (during a task the message is one the kernel
  asked to be answered: a message of another process may have a buffer of length
  0, which the allocator is not made for) and `Honest` (a buffer holds the
  request until a call succeeded). `Held` adds what is allocated at each place
  of `main` and `v86_task`; during a task the buffer's address is neither the
  stack's nor the stub's, so that freeing it takes that chunk alone
  (`FreeTakesChunk`). `Placed` says where the two chunks that stay are: the first
  blocks of the table, in order. With `Coalesced`, the rest of the arena is then one
  free block whenever a task asks for its buffer, and `RoomAssumption` makes it large
  enough. `Bound` says that nothing before `Fork` ends the parent.
  For the refinement, `Send` is an `Answer`, a message that is to be ignored is a
  `PassOver`, `Bind` opens the service, and it closes when a message is dropped, when
  the daemon leaves the loop, or with the process; what is still done then,
  the task in hand, is the only message it may deal with.

* `X86AluProofs` and `X86NumbersProofs`, for every even width of a byte, every radix
  that fits a nibble, all operands, any number of limbs and any count up to `MaxCount`:
  `DivisionUndoesProductHolds`, `LongNumbersHolds`, `DecimalNumbersHolds` and
  `CountIsStepsHolds`. The provers know nothing of powers but
  what `PowerAssumption` and `LimbAssumption` say, true arithmetic that TLC evaluates.
  The lemmas of `X86AluProofs` say of each primitive what value it leaves and which
  flag, as equations without bits: value and carry of `adc` are the sum of the
  operands, quotient and remainder of `idiv` are of the dividend, also where the signs
  differ, and there is a quotient exactly when its magnitude has room (`QuotientRoom`). The carry of `sbb` is the top bit of a
  chain of bits, and `BorrowAt` proves that bit *i* of the chain is the borrow out
  of the lower *i* + 1 bits; the AF it also gives is what `daa`, `das`, `aaa` and `aas`
  decide by (`DaaGives`, `DasGives`, `DigitsAdded`, `DigitsSubtracted`).
  For `DivisionUndoesProduct`, `UInv` says what the registers hold between two
  instructions. For long numbers, the value of *k* limbs is a function defined by
  recursion, of which `SummedExists` proves that it exists for any number of limbs, by
  the least counterexample instead of induction (`Smallest`). An instruction changes one
  limb, hence the sums from there on by its weight (`UptoChanged`), and so one limb
  and its carry being right makes the number right (`SumGrows`, `HalfGrows`). `LInv` and
  `DInv` are the loop invariants: these sums, that all limbs are bytes, packed
  bytes or digits, and after the last limb that OF and SF are those of the whole
  numbers (`SignedNumber`, `SignedEnd`).
  For `CountIsSteps` every instruction gets a closed form in the number of places:
  `Rolled` and `Rored` cut a number at a place and put the lower part above the rest
  (`Turned`), `RolledThrough` and `RoredThrough` do that to the number with the carry
  above it, `ShiftedLeft`, `ShiftedRight` and `ShiftedSigned` let the bits that
  come in follow those that move. One lemma says that the code's masks and splits compute the
  form at once (`RolGives` .. `SarGives`), another that the form of *k* places
  moved by one more is the form of *k* + 1 (`RolledNext` .. `ShiftedSignedNext`). `SInv`
  then is the loop invariant: after *n* steps the operand is the form of *n* places and
  the carry the bit that went last; for a double shift also that what is left to come
  in is the rest of the other operand; and for a shift of zeros by more than the width
  that nothing is left. It was checked by TLC before it was proved. The exception for RCL
  of a long by 32 is one the proof needs: `RclTurns` has it as a hypothesis.

Only model-checked: liveness (`Terminates`, `KeepsReading`, `DropEnds`, `Leaves`, `CallEnds`),
which is out of this prover's reach; and the properties of `X86Programs`: the programs
and the tables of opcodes are finite data that TLC runs through, by recursive
definitions whose value for every input would need induction over data.

## 5. What is not modelled

* The bytes of the mapped regions and the accessors `v_rdb` .. `v_wrl`, which read
  and write them through `vptr`; the memory of the emulated processor is a
  function.
* `rconv_*`, which copy registers one by one between the kernel's task and the
  backends, and `v86_dump_regs`.
* Of `lrmi.c`: `LRMI_call`, which v86d never calls, the branches for BSD, and
  `debug_info`, which prints.
* The range checks and the trace output of the emulator (`debug.c`, `CHK_*`,
  `DECODE_PRINTF`), compiled to nothing; `sys.c`, whose functions the glue replaces;
  `fpu.c` with `X86_FPU_PRESENT`, which nothing defines; the self test
  (`validate.c`) and the VBE test programs; building and installing.

## 6. Plan

Done: the allocator, the memory map, the conversion, the emulator loop, the
daemon with its proofs; then the instructions, both backends and the comparison
of their ports; then the proofs for the conversion, the emulator loop, and the
arena under both backends.
Then the primitives behind `X86Numbers`, and with them its divisions, its long and its
decimal numbers, for any number of limbs.
Last, the closed forms of the rotations and shifts, and with them `CountIsSteps`.
Left: the instructions one at a time as theorems. `X86Data` and `X86Isa` are large
operators over a record of registers; a proof for them needs a lemma like those of
`X86AluProofs` for every form of operand first.
