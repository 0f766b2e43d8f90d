---------------------------- MODULE X86Programs ----------------------------
(***************************************************************************)
(* Programs of all kinds on the backend they are for: x86emu runs a whole  *)
(* program, opcode by opcode (X86Machine); the vm86 backend gets the one   *)
(* port instruction that the kernel trapped (LrmiIo).  The modules of the  *)
(* kinds say what a program of theirs is and what it promises; here is     *)
(* what all of that comes to.                                              *)
(***************************************************************************)
EXTENDS X86Asm

Data == INSTANCE X86Data
Calls == INSTANCE X86Calls
Strings == INSTANCE X86Strings
Jumps == INSTANCE X86Jumps
Address == INSTANCE X86Address
Idioms == INSTANCE X86Idioms
Vm86 == INSTANCE LrmiIo

Emulate == Vm86!Emulate

Next == X86EMU_exec \/ Return \/ Emulate \/ Returned

Spec == Init /\ [][Next]_machine

-----------------------------------------------------------------------------
\* Data instructions, in every encoding, are those of the abstract X86Isa: each
\* takes the numbers in its operands, leaves the result in its destination and
\* what it was in the flags, and changes no other byte of the registers, the
\* segments and the memory (the families of forms in ops.c and ops2.c).
IsaSpec == Data!IsaSpec

\* Pushes, frames, calls and interrupts that nest keep the abstract stack of
\* X86Lifo: SP, its wrap, the order of the words and the widths cancel out, and
\* every call and every interrupt returns to the instruction behind it (push_*,
\* pop_* and the control transfers of ops.c, x86emu_do_int and pushw of
\* v86_x86emu.c).
LifoSpec == Calls!LifoSpec

\* String instructions: CX, SI and DI tell how far it came, every element
\* arrives and no other byte changes, and a comparison leaves what the last
\* pair of elements was like; forward and backward, with strings that overlap
\* or end early, on the emulator and, of the ports, under vm86.  As many
\* elements go through a port as CX said.
StringsDone ==
  Strings!CountersAgree /\ Strings!CopiesAll /\ Strings!ComparesLast /\ Strings!PortsUntilZero

\* Where a program goes: jumps and sets on a condition are right about the two
\* numbers compared, signed or unsigned; loops take the turns that their count
\* and condition give them; and every kind of jump, forward or back, arrives
\* (cmp_* of prim_ops.c, jump_*, loop* and jcxz of ops.c, long_jump and
\* set_byte of ops2.c).  It comes to its own HLT: there is no encoding of a data
\* instruction that the emulator does not know, and what was pushed is popped.
FlowFollowed ==
  /\ Data!Completed /\ Calls!Balanced
  /\ Jumps!JumpsAsRelated /\ Jumps!SetsAsNamed /\ Jumps!LoopsAsCounted /\ Jumps!HopsArrive

\* Stores through every addressing form arrive at the byte meant and nowhere
\* else, and the prefixes of one do not reach the next (decode_rm00_address to
\* decode_rm10_address, decode_sib_address and get_data_segment of decode.c).
StoresArrive == Address!StoresArrive /\ Address!CleanBetween

\* What one instruction hands to the next in an idiom: rotations take each
\* other back, double shifts shift a pair, flags come back from the stack and
\* from AH, decimal digits carry, XLAT and LEA use the place they name, and
\* what is to do nothing does nothing, the coprocessor escapes among it.
IdiomsHold ==
  /\ Idioms!BitsBack /\ Idioms!PairsShift /\ Idioms!FlagsBack
  /\ Idioms!DecimalSums /\ Idioms!DecimalProducts
  /\ Idioms!TextsTranslated /\ Idioms!PointersLead /\ Idioms!NothingElse

\* A port instruction that the kernel trapped is behind IP as a whole, prefixes
\* and port too, and has moved as many bytes as it is wide; and when x86emu is
\* through with the same instruction the registers, the memory and the ports
\* are the same: a BIOS sees the same devices on both backends (emulate and
\* em_* of lrmi.c, the port opcodes of ops.c).
PortsEmulated == Vm86!PastInstruction /\ Vm86!PortsMoved /\ Vm86!BackendsAgree

\* "in until CX is ZERO", "out until CX is ZERO" (libs/x86emu/prim_ops.c lines
\* 2601 and 2667): as many elements go through a port as CX said, in order.
PortsUntilZero == Strings!PortsUntilZero
=============================================================================
