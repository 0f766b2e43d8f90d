------------------------------- MODULE X86Lifo -------------------------------
(***************************************************************************)
(* What the instructions of the stack promise: a stack is a sequence of    *)
(* words, of which a long is two, its low word on top.  What was pushed    *)
(* last is popped first; calls and interrupts leave on it where to go on.  *)
(* Here are no SP that wraps, no addresses and no encodings.  SP only      *)
(* shows in what it tells: how many words are on the stack.                *)
(***************************************************************************)
EXTENDS Integers, Sequences, SequencesExt

CONSTANTS
  WORD,          \* bits of a word
  FlagsWord(_),  \* a set of flags as a number
  FlagsOf(_)     \* the flags of a number

VARIABLES
  program,       \* asm its instructions, place where they start, cs their
                 \* segment, and base the SP of an empty stack
  at,            \* the number of the instruction that is next
  stack,         \* its words, the top first
  reg,           \* the general registers but ESP, by number
  seg,           \* the segment registers, by number
  flags          \* the flags that are on

vars == <<program, at, stack, reg, seg, flags>>

EBP == 5
ESP == 4
Low(v) == v % 2^WORD
Words(w, v) == IF w = WORD THEN <<Low(v)>> ELSE <<Low(v), v \div 2^WORD>>
Joined(w, s) == IF w = WORD THEN s[1] ELSE s[1] + s[2] * 2^WORD
Count(w) == w \div WORD
Drop(s, n) == SubSeq(s, n + 1, Len(s))
Sp(s) == Low(program.base - 2 * Len(s))

\* The word at an offset of the stack segment.
WordAt(s, off) == s[(Low(off - Sp(s)) \div 2) + 1]

\* A register of width w, and one that gets a value.
Get(w, n) == IF n = ESP THEN Sp(stack) ELSE reg[n] % 2^w
Got(r, w, n, v) == [r EXCEPT ![n] = @ - (@ % 2^w) + v]
Low16(r, v) == Got(r, WORD, EBP, v)

After(i) == program.place[i + 1]
GoesOn == at' = at + 1
Same(x) == UNCHANGED x

-----------------------------------------------------------------------------
push(i) ==
  /\ stack' = Words(i.w, CASE i.kind = "reg" -> Get(i.w, i.n)
                           [] i.kind = "seg" -> seg[i.n]
                           [] i.kind = "imm" -> i.n
                           [] i.kind = "flags" -> FlagsWord(flags)) \o stack
  /\ GoesOn /\ Same(<<reg, seg, flags>>)

pop(i) ==
  LET v == Joined(i.w, stack)
  IN  /\ stack' = Drop(stack, Count(i.w))
      /\ reg' = IF i.kind = "reg" THEN Got(reg, i.w, i.n, v) ELSE reg
      /\ seg' = IF i.kind = "seg" THEN [seg EXCEPT ![i.n] = v] ELSE seg
      /\ flags' = IF i.kind = "flags" THEN FlagsOf(v) ELSE flags
      /\ GoesOn

\* The eight registers, the last one on top, and ESP as it was before.
pusha(i) ==
  LET all == [k \in 1 .. 8 |-> Words(i.w, Get(i.w, 8 - k))]
  IN  /\ stack' = FoldLeft(LAMBDA x, y : x \o y, <<>>, all) \o stack
      /\ GoesOn /\ Same(<<reg, seg, flags>>)
popa(i) ==
  /\ stack' = Drop(stack, 8 * Count(i.w))
  /\ reg' = [n \in DOMAIN reg |->
       reg[n] - (reg[n] % 2^i.w) + Joined(i.w, Drop(stack, (7 - n) * Count(i.w)))]
  /\ GoesOn /\ Same(<<seg, flags>>)

\* A call leaves where it goes on, a far one with the segment below that, an
\* interrupt with the flags below the segment.
call(i) == stack' = <<After(at)>> \o stack /\ at' = i.to /\ Same(<<reg, seg, flags>>)
callf(i) ==
  stack' = <<After(at), program.cs>> \o stack /\ at' = i.to /\ Same(<<reg, seg, flags>>)
int(i) ==
  /\ stack' = <<After(at), program.cs, FlagsWord(flags)>> \o stack
  /\ at' = i.to /\ flags' = flags \ {"TF"} /\ Same(<<reg, seg>>)

\* A return goes there and takes the arguments off.
Back == program.place[at'] = stack[1]
ret(i) == Back /\ stack' = Drop(stack, 1 + i.words) /\ Same(<<reg, seg, flags>>)
retf(i) == Back /\ stack' = Drop(stack, 2 + i.words) /\ Same(<<reg, seg, flags>>)
iret(i) == Back /\ stack' = Drop(stack, 3) /\ flags' = FlagsOf(stack[3]) /\ Same(<<reg, seg>>)

\* A frame: the old BP, the frames outside, the new frame, and room.
enter(i) ==
  LET frame == Sp(<<0>> \o stack)
      bp == Get(WORD, EBP)
      outer == [k \in 1 .. i.level - 1 |-> WordAt(stack, bp - 2 * (i.level - k))]
      display == IF i.level = 0 THEN <<>> ELSE <<frame>> \o outer
      kept == display \o <<bp>> \o stack
  IN  /\ Len(stack') = Len(kept) + i.words
      /\ Drop(stack', i.words) = kept
      /\ reg' = Low16(reg, frame)
      /\ GoesOn /\ Same(<<seg, flags>>)
leave(i) ==
  LET outer == Drop(stack, Low(Get(WORD, EBP) - Sp(stack)) \div 2)
  IN  /\ reg' = Low16(reg, outer[1]) /\ stack' = Drop(outer, 1)
      /\ GoesOn /\ Same(<<seg, flags>>)

\* A register is used for something else.
set(i) ==
  reg' = Got(reg, WORD, i.n, i.v) /\ GoesOn /\ Same(<<stack, seg, flags>>)
nop(i) == GoesOn /\ Same(<<stack, reg, seg, flags>>)

Step ==
  /\ at \in DOMAIN program.asm /\ UNCHANGED program
  /\ \E i \in {program.asm[at]} :
       CASE i.op = "push" -> push(i)    [] i.op = "pop" -> pop(i)
         [] i.op = "pusha" -> pusha(i)  [] i.op = "popa" -> popa(i)
         [] i.op = "call" -> call(i)    [] i.op = "ret" -> ret(i)
         [] i.op = "callf" -> callf(i)  [] i.op = "retf" -> retf(i)
         [] i.op = "int" -> int(i)      [] i.op = "iret" -> iret(i)
         [] i.op = "enter" -> enter(i)  [] i.op = "leave" -> leave(i)
         [] i.op = "set" -> set(i)      [] i.op \in {"nop", "hlt"} -> nop(i)

Spec == stack = <<>> /\ [][Step]_vars
=============================================================================
