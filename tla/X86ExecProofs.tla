--------------------------- MODULE X86ExecProofs ---------------------------
(***************************************************************************)
(* Proofs about a BIOS call under the emulator, for every BIOS, every      *)
(* table of vectors, every stack and any number of calls: the stack holds  *)
(* the frames of what was interrupted, and a call that comes back has run  *)
(* the BIOS and, if it came back to the stub, left nothing behind.         *)
(***************************************************************************)
EXTENDS X86Exec, SequenceTheorems, TLAPS

-----------------------------------------------------------------------------
(***************************************************************************)
(* Places on the stack.  SP wraps, so that a place is counted from the     *)
(* start of the segment without wrapping, below 0 where SP has wrapped,    *)
(* and At is the word of the segment that it is.                           *)
(***************************************************************************)
At(a) == a % SEGMENT
Reach == STACK - SEGMENT .. STACK

\* What % does within one segment below and one above.
LEMMA Wraps ==
  ASSUME NEW a \in Int, 0 - SEGMENT <= a, a < 2 * SEGMENT
  PROVE  a % SEGMENT = IF a < 0 THEN a + SEGMENT ELSE IF a < SEGMENT THEN a ELSE a - SEGMENT
<1>1. SEGMENT \in Nat \ {0}
    BY StackAssumption
<1>2. CASE a < 0
    BY <1>1, <1>2
<1>3. CASE 0 <= a /\ a < SEGMENT
    BY <1>1, <1>3
<1>4. CASE SEGMENT <= a
    BY <1>1, <1>4
<1> QED BY <1>1, <1>2, <1>3, <1>4

\* Places of the stack are words of the segment,
LEMMA AtIs ==
  ASSUME NEW a \in Reach
  PROVE  At(a) = (IF a < 0 THEN a + SEGMENT ELSE a) /\ At(a) \in 0 .. SEGMENT - 1
<1>1. a \in Int /\ 0 - SEGMENT <= a /\ a < SEGMENT /\ SEGMENT \in Nat
    BY StackAssumption DEF Reach
<1>2. a % SEGMENT = IF a < 0 THEN a + SEGMENT ELSE a
    BY <1>1, Wraps
<1> QED BY <1>1, <1>2 DEF At

\* different ones different words unless they are a segment apart,
LEMMA AtApart ==
  ASSUME NEW a \in Reach, NEW b \in Reach, At(a) = At(b), a < STACK, b < STACK
  PROVE  (a = b) \/ (a = b + SEGMENT) \/ (b = a + SEGMENT)
BY AtIs, StackAssumption DEF Reach

\* and SP moves from one to the next.
LEMMA AtMoves ==
  ASSUME NEW a \in Reach
  PROVE  /\ a - 1 \in Reach => (At(a) + SEGMENT - 1) % SEGMENT = At(a - 1)
         /\ a + 3 \in Reach => (At(a) + 3) % SEGMENT = At(a + 3)
         /\ \A i \in 0 .. 2 : a + i \in Reach => (At(a) + i) % SEGMENT = At(a + i)
<1>1. At(a) \in 0 .. SEGMENT - 1 /\ SEGMENT \in Nat /\ SEGMENT > 3
    BY AtIs, StackAssumption
<1>2. a - 1 \in Reach => (At(a) + SEGMENT - 1) % SEGMENT = At(a - 1)
  <2> SUFFICES ASSUME a - 1 \in Reach PROVE (At(a) + SEGMENT - 1) % SEGMENT = At(a - 1)
      OBVIOUS
  <2>1. (At(a) + SEGMENT - 1) % SEGMENT
          = IF At(a) + SEGMENT - 1 < SEGMENT THEN At(a) + SEGMENT - 1 ELSE At(a) - 1
      BY <1>1, Wraps
  <2> QED BY <1>1, <2>1, AtIs, StackAssumption DEF Reach
<1>3. ASSUME NEW i \in 0 .. 3, a + i \in Reach
      PROVE  (At(a) + i) % SEGMENT = At(a + i)
  <2>1. (At(a) + i) % SEGMENT
          = IF At(a) + i < SEGMENT THEN At(a) + i ELSE At(a) + i - SEGMENT
      BY <1>1, Wraps
  <2> QED BY <1>1, <1>3, <2>1, AtIs, StackAssumption DEF Reach
<1> QED BY <1>2, <1>3

-----------------------------------------------------------------------------
(***************************************************************************)
(* The processor and its frames.                                           *)
(***************************************************************************)
Words == [0 .. SEGMENT - 1 -> Int]
Intrs == SUBSET {"halted", "synch"}
Cpus == [cs : Int, ip : Int, sp : 0 .. SEGMENT - 1, iflag : Int, intr : Intrs, stack : Words]
Places == [cs : Int, ip : Int, iflag : Int]

\* The word i of the frame k, counted from the outermost.
Slot(k, i) == At(STACK - 3 * k + i)
Saved(c, k) ==
  [ip |-> c.stack[Slot(k, 0)], cs |-> c.stack[Slot(k, 1)], iflag |-> c.stack[Slot(k, 2)]]

\* The stack of c is the frames fs.
Framed(c, fs) ==
  /\ c.sp = At(STACK - 3 * Len(fs))
  /\ \A k \in 1 .. Len(fs) : fs[k] = Saved(c, k)

\* A push writes the word below SP and leaves those above.
LEMMA PushWrites ==
  ASSUME NEW c \in Cpus, NEW w \in Int
  PROVE  /\ push(c, w) \in Cpus
         /\ push(c, w).cs = c.cs /\ push(c, w).ip = c.ip /\ push(c, w).iflag = c.iflag
         /\ push(c, w).intr = c.intr
         /\ \A a \in Reach : c.sp = At(a) /\ a - 1 \in Reach =>
              /\ push(c, w).sp = At(a - 1)
              /\ push(c, w).stack = [c.stack EXCEPT ![At(a - 1)] = w]
<1> DEFINE sp == (c.sp + SEGMENT - 1) % SEGMENT
<1>1. sp \in 0 .. SEGMENT - 1
    BY StackAssumption DEF Cpus
<1>2. \A a \in Reach : c.sp = At(a) /\ a - 1 \in Reach => sp = At(a - 1)
    BY AtMoves
<1> HIDE DEF sp
<1>3. push(c, w) = [c EXCEPT !.sp = sp, !.stack = [c.stack EXCEPT ![sp] = w]]
    BY DEF push, sp, Cpus
<1>4. [c.stack EXCEPT ![sp] = w] \in Words
    BY <1>1 DEF Cpus, Words
<1> QED BY <1>1, <1>2, <1>3, <1>4 DEF Cpus

\* Three pushes put a frame on top of the others, unless that goes all around.
LEMMA FrameOn ==
  ASSUME NEW c \in Cpus, NEW f \in Int, NEW s \in Int, NEW o \in Int
  PROVE  LET d == push(push(push(c, f), s), o) IN
         /\ d \in Cpus
         /\ d.cs = c.cs /\ d.ip = c.ip /\ d.iflag = c.iflag /\ d.intr = c.intr
         /\ \A fs \in Seq(Places) :
              Framed(c, fs) /\ 3 * (Len(fs) + 1) <= SEGMENT =>
                Framed(d, Append(fs, [cs |-> s, ip |-> o, iflag |-> f]))
<1> DEFINE c1 == push(c, f)
           c2 == push(c1, s)
           d == push(c2, o)
<1>1. c1 \in Cpus /\ c2 \in Cpus /\ d \in Cpus
    BY PushWrites
<1>2. d.cs = c.cs /\ d.ip = c.ip /\ d.iflag = c.iflag /\ d.intr = c.intr
  <2>1. c1.cs = c.cs /\ c1.ip = c.ip /\ c1.iflag = c.iflag /\ c1.intr = c.intr
      BY PushWrites
  <2>2. c2.cs = c1.cs /\ c2.ip = c1.ip /\ c2.iflag = c1.iflag /\ c2.intr = c1.intr
      BY <1>1, PushWrites
  <2>3. d.cs = c2.cs /\ d.ip = c2.ip /\ d.iflag = c2.iflag /\ d.intr = c2.intr
      BY <1>1, PushWrites
  <2> HIDE DEF c1, c2, d
  <2> QED BY <2>1, <2>2, <2>3
<1>3. ASSUME NEW fs \in Seq(Places), Framed(c, fs), 3 * (Len(fs) + 1) <= SEGMENT
      PROVE  Framed(d, Append(fs, [cs |-> s, ip |-> o, iflag |-> f]))
  <2> DEFINE n == Len(fs)
             top == STACK - 3 * n
             new == [cs |-> s, ip |-> o, iflag |-> f]
  <2>1. /\ n \in Nat /\ top \in Int
        /\ top \in Reach /\ top - 1 \in Reach /\ top - 2 \in Reach /\ top - 3 \in Reach
      BY <1>3, StackAssumption DEF Reach
  <2>2. c.sp = At(top)
      BY <1>3 DEF Framed
  <2>3. c1.sp = At(top - 1) /\ c1.stack = [c.stack EXCEPT ![At(top - 1)] = f]
    <3>1. \A a \in Reach : c.sp = At(a) /\ a - 1 \in Reach =>
            c1.sp = At(a - 1) /\ c1.stack = [c.stack EXCEPT ![At(a - 1)] = f]
        BY PushWrites
    <3> HIDE DEF top, c1
    <3> QED BY <2>1, <2>2, <3>1
  <2>4. c2.sp = At(top - 2) /\ c2.stack = [c1.stack EXCEPT ![At(top - 2)] = s]
    <3>1. \A a \in Reach : c1.sp = At(a) /\ a - 1 \in Reach =>
            c2.sp = At(a - 1) /\ c2.stack = [c1.stack EXCEPT ![At(a - 1)] = s]
        BY <1>1, PushWrites
    <3> HIDE DEF top
    <3>2. (top - 1) - 1 = top - 2
        BY <2>1
    <3> HIDE DEF c1, c2
    <3> QED BY <2>1, <2>3, <3>1, <3>2
  <2>5. d.sp = At(top - 3) /\ d.stack = [c2.stack EXCEPT ![At(top - 3)] = o]
    <3>1. \A a \in Reach : c2.sp = At(a) /\ a - 1 \in Reach =>
            d.sp = At(a - 1) /\ d.stack = [c2.stack EXCEPT ![At(a - 1)] = o]
        BY <1>1, PushWrites
    <3> HIDE DEF top
    <3>2. (top - 2) - 1 = top - 3
        BY <2>1
    <3> HIDE DEF c2, d
    <3> QED BY <2>1, <2>4, <3>1, <3>2
  <2>6. c.stack \in Words /\ c1.stack \in Words /\ c2.stack \in Words
      BY <1>1 DEF Cpus
  <2> HIDE DEF c1, c2, d
  <2>7. \A a \in top .. STACK - 1 : At(a) \in 0 .. SEGMENT - 1 /\ d.stack[At(a)] = c.stack[At(a)]
    <3> SUFFICES ASSUME NEW a \in top .. STACK - 1
                 PROVE  At(a) \in 0 .. SEGMENT - 1 /\ d.stack[At(a)] = c.stack[At(a)]
        OBVIOUS
    <3>1. a \in Reach
        BY <2>1, StackAssumption DEF Reach
    <3>2. ASSUME NEW b \in {top - 1, top - 2, top - 3}
          PROVE  At(a) # At(b) /\ At(b) \in 0 .. SEGMENT - 1
      <4>1. b \in Reach /\ b < top /\ top <= STACK
        <5> HIDE DEF top
        <5> QED BY <2>1 DEF Reach
      <4>2. b >= STACK - SEGMENT /\ b \in Int
          BY <4>1, StackAssumption DEF Reach
      <4>3. a \in Int /\ top <= a /\ a < STACK
        <5> HIDE DEF top
        <5> QED BY <2>1, StackAssumption
      <4>4. ~ (a = b) /\ ~ (a = b + SEGMENT) /\ ~ (b = a + SEGMENT)
        <5> HIDE DEF top
        <5> QED BY <2>1, <4>1, <4>2, <4>3, StackAssumption
      <4>5. b < STACK
        <5> HIDE DEF top
        <5> QED BY <2>1, <4>1, <4>2, StackAssumption
      <4>6. At(a) # At(b)
        <5> HIDE DEF top
        <5> QED BY <3>1, <4>1, <4>3, <4>4, <4>5, AtApart
      <4> QED BY <4>1, <4>6, AtIs
    <3>3. At(a) \in 0 .. SEGMENT - 1
        BY <3>1, AtIs
    <3>4. /\ At(a) # At(top - 1) /\ At(a) # At(top - 2) /\ At(a) # At(top - 3)
          /\ At(top - 1) \in 0 .. SEGMENT - 1 /\ At(top - 2) \in 0 .. SEGMENT - 1
          /\ At(top - 3) \in 0 .. SEGMENT - 1
        BY <3>2
    <3> HIDE DEF top
    <3> QED BY <2>3, <2>4, <2>5, <2>6, <3>3, <3>4 DEF Words
  <2>8. d.stack[At(top - 1)] = f /\ d.stack[At(top - 2)] = s /\ d.stack[At(top - 3)] = o
    <3>1. At(top - 1) # At(top - 2) /\ At(top - 1) # At(top - 3) /\ At(top - 2) # At(top - 3)
        BY <2>1, AtApart, StackAssumption DEF Reach
    <3>2. At(top - 1) \in 0 .. SEGMENT - 1 /\ At(top - 2) \in 0 .. SEGMENT - 1 /\ At(top - 3) \in 0 .. SEGMENT - 1
        BY <2>1, AtIs
    <3> QED BY <2>3, <2>4, <2>5, <2>6, <3>1, <3>2 DEF Words
  <2>9. new \in Places /\ Len(Append(fs, new)) = n + 1
      BY DEF Places
  <2>10. d.sp = At(STACK - 3 * (n + 1))
    <3>1. STACK - 3 * (n + 1) = top - 3
        BY <2>1, StackAssumption
    <3> QED BY <2>5, <3>1
  <2>11. ASSUME NEW k \in 1 .. n + 1 PROVE Append(fs, new)[k] = Saved(d, k)
    <3>1. CASE k = n + 1
      <4>1. STACK - 3 * k = top - 3 /\ top - 3 + 0 = top - 3 /\ top - 3 + 1 = top - 2 /\ top - 3 + 2 = top - 1
          BY <2>1, <3>1, StackAssumption
      <4>2. Slot(k, 0) = At(top - 3) /\ Slot(k, 1) = At(top - 2) /\ Slot(k, 2) = At(top - 1)
          BY <4>1 DEF Slot
      <4>3. Append(fs, new)[k] = new
          BY <2>9, <3>1
      <4> QED BY <2>8, <4>2, <4>3 DEF Saved
    <3>2. CASE k \in 1 .. n
      <4>1. \A i \in 0 .. 2 : STACK - 3 * k + i \in top .. STACK - 1
          BY <2>1, <3>2, StackAssumption
      <4>2. Saved(d, k) = Saved(c, k)
          BY <2>7, <4>1 DEF Saved, Slot
      <4>3. Append(fs, new)[k] = fs[k]
          BY <2>9, <3>2
      <4> QED BY <1>3, <3>2, <4>2, <4>3 DEF Framed
    <3> QED BY <2>1, <3>1, <3>2
  <2> QED BY <2>9, <2>10, <2>11 DEF Framed
<1> QED BY <1>1, <1>2, <1>3

\* What registers hold does not matter to the frames.
LEMMA FramedSame ==
  ASSUME NEW c, NEW d, d.sp = c.sp, d.stack = c.stack, NEW fs, Framed(c, fs)
  PROVE  Framed(d, fs)
BY DEF Framed, Saved

\* Registers are loaded one by one.
Loaded(c, cs, ip, sp, iflag, intr) ==
  [c EXCEPT !.cs = cs, !.ip = ip, !.sp = sp, !.iflag = iflag, !.intr = intr]

\* They keep their ranges.
LEMMA RegistersSet ==
  ASSUME NEW c \in Cpus, NEW cs \in Int, NEW ip \in Int, NEW sp \in 0 .. SEGMENT - 1,
         NEW iflag \in Int, NEW intr \in Intrs
  PROVE  LET d == Loaded(c, cs, ip, sp, iflag, intr)
         IN  d \in Cpus /\ d.cs = cs /\ d.intr = intr /\ d.sp = sp
<1> DEFINE c1 == [c EXCEPT !.cs = cs]
           c2 == [c1 EXCEPT !.ip = ip]
           c3 == [c2 EXCEPT !.sp = sp]
           c4 == [c3 EXCEPT !.iflag = iflag]
           c5 == [c4 EXCEPT !.intr = intr]
<1>1. c1 \in Cpus /\ c1.cs = cs
    BY DEF Cpus
<1>2. c2 \in Cpus /\ c2.cs = c1.cs
  <2> HIDE DEF c1
  <2> QED BY <1>1 DEF Cpus
<1>3. c3 \in Cpus /\ c3.cs = c2.cs /\ c3.sp = sp
  <2> HIDE DEF c2
  <2> QED BY <1>2 DEF Cpus
<1>4. c4 \in Cpus /\ c4.cs = c3.cs /\ c4.sp = c3.sp
  <2> HIDE DEF c3
  <2> QED BY <1>3 DEF Cpus
<1>5. c5 \in Cpus /\ c5.cs = c4.cs /\ c5.sp = c4.sp /\ c5.intr = intr
  <2> HIDE DEF c4
  <2> QED BY <1>4 DEF Cpus
<1>6. c5 = Loaded(c, cs, ip, sp, iflag, intr)
    BY DEF Loaded
<1> HIDE DEF c1, c2, c3, c4, c5
<1> QED BY <1>1, <1>2, <1>3, <1>4, <1>5, <1>6

\* An interrupt puts the place it interrupts on the stack, and goes to the BIOS.
LEMMA Interrupts ==
  ASSUME NEW c \in Cpus, NEW num \in DOMAIN Vectors
  PROVE  /\ x86emu_do_int(c, num) \in Cpus
         /\ x86emu_do_int(c, num).cs = BIOS
         /\ x86emu_do_int(c, num).intr = c.intr
         /\ Place(c) \in Places
         /\ \A fs \in Seq(Places) :
              Framed(c, fs) /\ 3 * (Len(fs) + 1) <= SEGMENT =>
                Framed(x86emu_do_int(c, num), Append(fs, Place(c)))
<1> DEFINE d == push(push(push(c, c.iflag), c.cs), c.ip)
<1>1. c.iflag \in Int /\ c.cs \in Int /\ c.ip \in Int
    BY DEF Cpus
<1>2. /\ d \in Cpus /\ d.intr = c.intr
      /\ \A fs \in Seq(Places) :
           Framed(c, fs) /\ 3 * (Len(fs) + 1) <= SEGMENT => Framed(d, Append(fs, Place(c)))
    BY <1>1, FrameOn DEF Place
<1>3. x86emu_do_int(c, num) = [d EXCEPT !.cs = BIOS, !.ip = Vectors[num]]
    BY DEF x86emu_do_int
<1>4. Vectors[num] \in Int /\ BIOS \in Int
    BY VectorAssumption DEF BIOS
<1> HIDE DEF d
<1>5. /\ x86emu_do_int(c, num) \in Cpus
      /\ x86emu_do_int(c, num).cs = BIOS /\ x86emu_do_int(c, num).intr = d.intr
      /\ x86emu_do_int(c, num).sp = d.sp /\ x86emu_do_int(c, num).stack = d.stack
    BY <1>2, <1>3, <1>4 DEF Cpus
<1>6. Place(c) \in Places
    BY <1>1 DEF Place, Places
<1> QED BY <1>2, <1>5, <1>6, FramedSame

\* An IRET takes the last frame off and goes to its place.
LEMMA Returns ==
  ASSUME NEW c \in Cpus, NEW fs \in Seq(Places), fs # <<>>, 3 * Len(fs) <= SEGMENT,
         Framed(c, fs)
  PROVE  /\ x86emuOp_iret(c) \in Cpus
         /\ x86emuOp_iret(c).intr = c.intr
         /\ Place(x86emuOp_iret(c)) = fs[Len(fs)]
         /\ Framed(x86emuOp_iret(c), SubSeq(fs, 1, Len(fs) - 1))
<1> DEFINE n == Len(fs)
           top == STACK - 3 * n
           d == x86emuOp_iret(c)
<1>1. n \in Nat /\ n >= 1 /\ 3 * n <= SEGMENT
    BY EmptySeq, LenProperties
<1>2. top \in Reach /\ top + 1 \in Reach /\ top + 2 \in Reach /\ top + 3 \in Reach /\ top \in Int
    BY <1>1, StackAssumption DEF Reach
<1>3. c.sp = At(top) /\ fs[n] = Saved(c, n)
    BY <1>1 DEF Framed
<1>4. Word(c, 0) = c.stack[At(top + 0)] /\ Word(c, 1) = c.stack[At(top + 1)]
      /\ Word(c, 2) = c.stack[At(top + 2)] /\ (c.sp + 3) % SEGMENT = At(top + 3)
  <2>1. top + 0 = top
      BY <1>2
  <2> HIDE DEF top
  <2> QED BY <1>2, <1>3, <2>1, AtMoves DEF Word
<1>5. At(top + 0) \in 0 .. SEGMENT - 1 /\ At(top + 1) \in 0 .. SEGMENT - 1
      /\ At(top + 2) \in 0 .. SEGMENT - 1 /\ At(top + 3) \in 0 .. SEGMENT - 1
  <2>1. top + 0 = top
      BY <1>2
  <2> HIDE DEF top
  <2> QED BY <1>2, <2>1, AtIs
<1>6. Word(c, 0) \in Int /\ Word(c, 1) \in Int /\ Word(c, 2) \in Int
    BY <1>4, <1>5 DEF Cpus, Words
<1>7. d = [c EXCEPT !.ip = Word(c, 0), !.cs = Word(c, 1), !.iflag = Word(c, 2), !.sp = At(top + 3)]
    BY <1>4 DEF x86emuOp_iret
<1> HIDE DEF d
<1>8. /\ d \in Cpus /\ d.intr = c.intr /\ d.sp = At(top + 3) /\ d.stack = c.stack
      /\ d.ip = Word(c, 0) /\ d.cs = Word(c, 1) /\ d.iflag = Word(c, 2)
    BY <1>5, <1>6, <1>7 DEF Cpus
<1>9. Place(d) = fs[n]
    BY <1>3, <1>4, <1>8 DEF Place, Saved, Slot
<1>10. Framed(d, SubSeq(fs, 1, n - 1))
  <2>1. Len(SubSeq(fs, 1, n - 1)) = n - 1 /\ \A k \in 1 .. n - 1 : SubSeq(fs, 1, n - 1)[k] = fs[k]
    <3>1. /\ SubSeq(fs, 1, n - 1) \in Seq(Places)
          /\ Len(SubSeq(fs, 1, n - 1)) = IF 1 <= n - 1 THEN (n - 1) - 1 + 1 ELSE 0
          /\ \A k \in 1 .. (n - 1) - 1 + 1 : SubSeq(fs, 1, n - 1)[k] = fs[1 + k - 1]
        BY <1>1, SubSeqProperties
    <3>2. ASSUME NEW k \in 1 .. n - 1
          PROVE  k \in 1 .. (n - 1) - 1 + 1 /\ 1 + k - 1 = k
        BY <1>1
    <3> DEFINE m == Len(SubSeq(fs, 1, n - 1))
    <3>3. m = n - 1
      <4>1. m = IF 1 <= n - 1 THEN (n - 1) - 1 + 1 ELSE 0
          BY <3>1
      <4> HIDE DEF m, n
      <4> QED BY <1>1, <4>1
    <3> HIDE DEF n
    <3> QED BY <3>1, <3>2, <3>3
  <2>2. STACK - 3 * (n - 1) = top + 3
      BY <1>1, StackAssumption
  <2>3. \A k \in 1 .. n - 1 : fs[k] = Saved(d, k)
      BY <1>1, <1>8 DEF Framed, Saved
  <2> QED BY <1>8, <2>1, <2>2, <2>3 DEF Framed
<1> QED BY <1>8, <1>9, <1>10 DEF d

-----------------------------------------------------------------------------
(***************************************************************************)
(* The invariant.  The processor is in the BIOS as long as there are       *)
(* frames; the outermost is the stub, where the processor is when there    *)
(* are none, with interrupts enabled, and where it halts.                  *)
(***************************************************************************)
Stub == [cs |-> HALT, ip |-> 0, iflag |-> 1]

Flow(c, fs) ==
  /\ fs # <<>> => c.cs = BIOS /\ fs[1] = Stub /\ \A k \in 2 .. Len(fs) : fs[k].cs = BIOS
  /\ fs = <<>> => c.cs = HALT /\ c.iflag = 1 /\ (c.ip = 0 \/ "halted" \in c.intr)

Types ==
  /\ program \in Programs /\ cpu \in Cpus /\ running \in BOOLEAN /\ calls \in Nat
  /\ frames \in Seq(Places)

IInv ==
  /\ Types
  /\ running => calls > 0
  /\ calls > 0 =>
       /\ Flow(cpu, frames)
       /\ 3 * Len(frames) <= SEGMENT => Framed(cpu, frames)
       /\ fetched = 1 \/ (running /\ cpu.cs = BIOS /\ "halted" \notin cpu.intr)

\* At the start nothing was called yet.
LEMMA IInvInit == Init => IInv
<1> SUFFICES ASSUME Init PROVE IInv
    OBVIOUS
<1>1. [i \in 0 .. SEGMENT - 1 |-> 0] \in Words
    BY DEF Words
<1>2. STACK \in 0 .. SEGMENT - 1
    BY StackAssumption
<1>3. cpu \in Cpus
    BY <1>1, <1>2 DEF Init, Cpus, Intrs
<1>4. frames \in Seq(Places)
    BY DEF Init
<1>5. running \in BOOLEAN /\ ~ running
    BY Zenon DEF Init
<1>6. calls = 0 /\ program \in Programs
    BY DEF Init
<1> QED BY <1>3, <1>4, <1>5, <1>6 DEF IInv, Types

\* A call starts with the frame of the stub on an empty stack.
LEMMA CallKeeps == IInv /\ v86_int => IInv'
<1> SUFFICES ASSUME IInv, v86_int PROVE IInv'
    OBVIOUS
<1> DEFINE c == [cpu EXCEPT !.cs = BIOS, !.ip = Vectors[16], !.sp = STACK, !.iflag = 1, !.intr = {}]
<1>1. Vectors[16] \in Int
    BY VectorAssumption
<1>2. /\ c \in Cpus /\ c.cs = BIOS /\ c.intr = {} /\ c.sp = STACK
  <2>1. cpu \in Cpus /\ BIOS \in Int /\ STACK \in 0 .. SEGMENT - 1 /\ {} \in Intrs /\ 1 \in Int
      BY StackAssumption DEF IInv, Types, BIOS, Intrs
  <2> DEFINE d == Loaded(cpu, BIOS, Vectors[16], STACK, 1, {})
  <2>2. c = d
      BY DEF Loaded
  <2> HIDE DEF c
  <2>3. d \in Cpus /\ d.cs = BIOS /\ d.intr = {} /\ d.sp = STACK
      BY <1>1, <2>1, RegistersSet
  <2> HIDE DEF d
  <2> QED BY <2>2, <2>3
<1>3. cpu' = push(push(push(c, 1), HALT), 0)
    BY DEF v86_int, Started
<1> HIDE DEF c
<1>4. At(STACK - 3 * 0) = STACK
  <2>1. STACK - 3 * 0 = STACK /\ STACK \in Reach
      BY StackAssumption DEF Reach
  <2> QED BY <2>1, AtIs, StackAssumption
<1>5. Framed(c, <<>>)
    BY <1>2, <1>4 DEF Framed
<1>6. <<>> \in Seq(Places) /\ Len(<<>>) = 0 /\ 3 * (0 + 1) <= SEGMENT /\ HALT \in Int
    BY StackAssumption DEF HALT
<1>7. /\ cpu' \in Cpus /\ cpu'.cs = BIOS /\ cpu'.intr = {}
      /\ Framed(cpu', Append(<<>>, Stub))
  <2> DEFINE d == push(push(push(c, 1), HALT), 0)
  <2>1. /\ d \in Cpus /\ d.cs = c.cs /\ d.intr = c.intr
        /\ \A fs \in Seq(Places) :
             Framed(c, fs) /\ 3 * (Len(fs) + 1) <= SEGMENT => Framed(d, Append(fs, Stub))
      BY <1>2, <1>6, FrameOn DEF Stub
  <2> HIDE DEF d
  <2>2. Framed(d, Append(<<>>, Stub))
      BY <1>5, <1>6, <2>1
  <2>3. cpu' = d
      BY <1>3 DEF d
  <2> QED BY <1>2, <2>1, <2>2, <2>3
<1>8. frames' = <<Stub>> /\ Append(<<>>, Stub) = <<Stub>> /\ Stub \in Places
    BY DEF v86_int, Stub, Places, HALT
<1>9. frames' \in Seq(Places) /\ frames' # <<>> /\ frames'[1] = Stub /\ Len(frames') = 1
    BY <1>8
<1>10. Flow(cpu', frames')
    BY <1>7, <1>9 DEF Flow
<1>11. Framed(cpu', frames')
    BY <1>7, <1>8
<1>12. running' /\ calls' \in Nat /\ calls' > 0 /\ program' \in Programs
    BY DEF v86_int, IInv, Types
<1> QED BY <1>7, <1>9, <1>10, <1>11, <1>12 DEF IInv, Types

-----------------------------------------------------------------------------
(***************************************************************************)
(* A turn of the loop.                                                     *)
(***************************************************************************)
\* What an interrupt puts on the frames: the stub, if it comes there.
LEMMA FlowOn ==
  ASSUME NEW c, NEW d, NEW fs \in Seq(Places), Place(c) \in Places,
         Flow(c, fs), "halted" \notin c.intr, d.cs = BIOS
  PROVE  Flow(d, Append(fs, Place(c)))
<1> DEFINE n == Len(fs)
           new == Append(fs, Place(c))
<1>1. n \in Nat /\ Len(new) = n + 1 /\ new[n + 1] = Place(c) /\ \A k \in 1 .. n : new[k] = fs[k]
    BY AppendProperties
<1>2. new # <<>>
    BY AppendProperties
<1>3. CASE fs = <<>>
  <2>1. n = 0 /\ Place(c) = Stub
      BY <1>3 DEF Flow, Place, Stub
  <2>2. new[1] = Stub /\ Len(new) = 1
      BY <1>1, <2>1
  <2> QED BY <1>2, <2>2 DEF Flow
<1>4. CASE fs # <<>>
  <2>1. n >= 1 /\ fs[1] = Stub /\ c.cs = BIOS /\ \A k \in 2 .. n : fs[k].cs = BIOS
      BY <1>1, <1>4, EmptySeq DEF Flow
  <2>2. Place(c).cs = BIOS
      BY <2>1 DEF Place
  <2>3. new[1] = Stub
    <3> HIDE DEF n, new
    <3> QED BY <1>1, <2>1
  <2>4. \A k \in 2 .. n + 1 : new[k].cs = BIOS
    <3> HIDE DEF n, new
    <3> QED BY <1>1, <2>1, <2>2
  <2>5. \A k \in 2 .. Len(new) : new[k].cs = BIOS
      BY <1>1, <2>4
  <2> QED BY <1>2, <2>3, <2>5 DEF Flow
<1> QED BY <1>3, <1>4

\* A pending divide error is handled on the same frames, and one more.
LEMMA HandledKeeps ==
  ASSUME IInv, running, "halted" \notin cpu.intr, Len(frames) <= MaxDepth
  PROVE  /\ Handled \in Cpus /\ HandledFrames \in Seq(Places)
         /\ Handled.intr = cpu.intr
         /\ 3 * Len(HandledFrames) <= SEGMENT
         /\ Framed(Handled, HandledFrames) /\ Flow(Handled, HandledFrames)
         /\ fetched = 1 \/ Handled.cs = BIOS
<1>1. cpu \in Cpus /\ frames \in Seq(Places) /\ Len(frames) \in Nat
    BY LenProperties DEF IInv, Types
<1>2. 3 * (Len(frames) + 1) <= SEGMENT /\ 3 * Len(frames) <= SEGMENT
    BY <1>1, BoundAssumption, StackAssumption
<1>3. Flow(cpu, frames) /\ Framed(cpu, frames) /\ (fetched = 1 \/ cpu.cs = BIOS)
    BY <1>2 DEF IInv
<1>4. CASE Pending
  <2>1. Handled = x86emu_do_int(cpu, 0) /\ HandledFrames = Append(frames, Place(cpu))
      BY <1>4 DEF Handled, HandledFrames
  <2>2. 0 \in DOMAIN Vectors
      BY VectorAssumption
  <2>3. /\ x86emu_do_int(cpu, 0) \in Cpus /\ x86emu_do_int(cpu, 0).cs = BIOS
        /\ x86emu_do_int(cpu, 0).intr = cpu.intr
        /\ Place(cpu) \in Places
        /\ Framed(x86emu_do_int(cpu, 0), Append(frames, Place(cpu)))
      BY <1>1, <1>2, <1>3, <2>2, Interrupts
  <2>4. Flow(x86emu_do_int(cpu, 0), Append(frames, Place(cpu)))
      BY <1>1, <1>3, <2>3, FlowOn
  <2>5. Append(frames, Place(cpu)) \in Seq(Places)
        /\ Len(Append(frames, Place(cpu))) = Len(frames) + 1
      BY <1>1, <2>3, AppendProperties
  <2> QED BY <1>2, <2>1, <2>3, <2>4, <2>5
<1>5. CASE ~ Pending
    BY <1>1, <1>2, <1>3, <1>5 DEF Handled, HandledFrames
<1> QED BY <1>4, <1>5

\* A turn that starts well ends well if its instruction keeps the frames.
LEMMA TurnKeeps ==
  ASSUME IInv, NEW op, Turn(op),
         cpu' \in Cpus, frames' \in Seq(Places), Flow(cpu', frames'),
         3 * Len(frames') <= SEGMENT => Framed(cpu', frames')
  PROVE  IInv'
<1>1. running /\ "halted" \notin cpu.intr /\ Len(frames) <= MaxDepth
    BY DEF Turn
<1>2. fetched = 1 \/ Handled.cs = BIOS
    BY <1>1, HandledKeeps
<1>3. fetched' = 1
    BY <1>2 DEF Turn
<1>4. /\ program' \in Programs /\ running' \in BOOLEAN /\ calls' \in Nat
      /\ running' => calls' > 0
    BY DEF IInv, Types, Turn
<1> QED BY <1>3, <1>4 DEF IInv, Types

\* What the turn has before the instruction is executed.
LEMMA TurnHas ==
  ASSUME IInv, NEW op, Turn(op)
  PROVE  /\ Handled \in Cpus /\ HandledFrames \in Seq(Places) /\ Fetched \in Cpus
         /\ Handled.intr = cpu.intr /\ "halted" \notin cpu.intr
         /\ 3 * Len(HandledFrames) <= SEGMENT
         /\ Flow(Handled, HandledFrames)
         /\ Framed(Fetched, HandledFrames)
         /\ Fetched.cs = Handled.cs /\ Fetched.iflag = Handled.iflag /\ Fetched.intr = Handled.intr
         /\ op \notin {"hlt", "illegal"} =>
              /\ Handled.cs = BIOS /\ HandledFrames # <<>>
              /\ Flow(Fetched, HandledFrames)
<1>1. running /\ "halted" \notin cpu.intr /\ Len(frames) <= MaxDepth /\ op = Fetch(Handled)
    BY DEF Turn
<1>2. /\ Handled \in Cpus /\ HandledFrames \in Seq(Places) /\ Handled.intr = cpu.intr
      /\ 3 * Len(HandledFrames) <= SEGMENT
      /\ Framed(Handled, HandledFrames) /\ Flow(Handled, HandledFrames)
    BY <1>1, HandledKeeps
<1>3. /\ Fetched \in Cpus
      /\ Fetched.cs = Handled.cs /\ Fetched.iflag = Handled.iflag /\ Fetched.intr = Handled.intr
      /\ Fetched.sp = Handled.sp /\ Fetched.stack = Handled.stack
    BY <1>2 DEF Fetched, Cpus
<1>4. Framed(Fetched, HandledFrames)
    BY <1>2, <1>3, FramedSame
<1>5. ASSUME op \notin {"hlt", "illegal"}
      PROVE  Handled.cs = BIOS /\ HandledFrames # <<>> /\ Flow(Fetched, HandledFrames)
  <2>1. Handled.cs = BIOS
      BY <1>1, <1>5 DEF Fetch
  <2>2. HandledFrames # <<>>
      BY <1>2, <2>1 DEF Flow, BIOS, HALT
  <2>3. Flow(Fetched, HandledFrames)
      BY <1>2, <1>3, <2>1, <2>2 DEF Flow
  <2> QED BY <2>1, <2>2, <2>3
<1> QED BY <1>1, <1>2, <1>3, <1>4, <1>5

\* An instruction that only sets flags in the BIOS.
LEMMA PlainKeeps ==
  ASSUME IInv, NEW op, Turn(op), op \notin {"hlt", "illegal"}, frames' = HandledFrames,
         cpu' \in Cpus, cpu'.cs = Fetched.cs, cpu'.sp = Fetched.sp, cpu'.stack = Fetched.stack
  PROVE  IInv'
<1>1. /\ HandledFrames \in Seq(Places) /\ Framed(Fetched, HandledFrames)
      /\ HandledFrames # <<>> /\ Flow(Fetched, HandledFrames)
    BY TurnHas
<1>2. Flow(cpu', frames')
    BY <1>1 DEF Flow
<1>3. Framed(cpu', frames')
    BY <1>1, FramedSame
<1> QED BY <1>1, <1>2, <1>3, TurnKeeps

\* INT, from the BIOS into the BIOS.
LEMMA IntKeeps == IInv /\ x86emuOp_int_IMM => IInv'
<1> SUFFICES ASSUME IInv, x86emuOp_int_IMM PROVE IInv'
    OBVIOUS
<1>1. /\ Turn("int") /\ cpu' = x86emu_do_int(Fetched, 1)
      /\ frames' = Append(HandledFrames, Place(Fetched))
    BY DEF x86emuOp_int_IMM
<1>2. /\ Fetched \in Cpus /\ HandledFrames \in Seq(Places)
      /\ Framed(Fetched, HandledFrames) /\ Flow(Fetched, HandledFrames)
      /\ Fetched.intr = cpu.intr /\ "halted" \notin cpu.intr
    BY <1>1, TurnHas
<1>3. 1 \in DOMAIN Vectors
    BY VectorAssumption
<1>4. /\ cpu' \in Cpus /\ cpu'.cs = BIOS /\ Place(Fetched) \in Places
      /\ 3 * (Len(HandledFrames) + 1) <= SEGMENT => Framed(cpu', frames')
    BY <1>1, <1>2, <1>3, Interrupts
<1>5. frames' \in Seq(Places) /\ Len(frames') = Len(HandledFrames) + 1
    BY <1>1, <1>2, <1>4, AppendProperties
<1>6. Flow(cpu', frames')
    BY <1>1, <1>2, <1>4, FlowOn
<1> QED BY <1>1, <1>4, <1>5, <1>6, TurnKeeps

\* IRET, back into the BIOS or to the stub.
LEMMA IretKeeps == IInv /\ Iret => IInv'
<1> SUFFICES ASSUME IInv, Iret PROVE IInv'
    OBVIOUS
<1> DEFINE fs == HandledFrames
           n == Len(fs)
<1>1. Turn("iret") /\ cpu' = x86emuOp_iret(Fetched) /\ frames' = SubSeq(fs, 1, n - 1)
    BY DEF Iret
<1>2. /\ Fetched \in Cpus /\ fs \in Seq(Places) /\ fs # <<>> /\ 3 * n <= SEGMENT
      /\ Framed(Fetched, fs) /\ Flow(Fetched, fs)
    BY <1>1, TurnHas
<1>3. /\ cpu' \in Cpus /\ Place(cpu') = fs[n] /\ Framed(cpu', frames')
    BY <1>1, <1>2, Returns
<1>4. n \in Nat /\ n >= 1
    BY <1>2, EmptySeq, LenProperties
<1> HIDE DEF fs
<1>5. /\ frames' \in Seq(Places)
      /\ Len(frames') = IF 1 <= n - 1 THEN (n - 1) - 1 + 1 ELSE 0
      /\ \A k \in 1 .. (n - 1) - 1 + 1 : frames'[k] = fs[1 + k - 1]
    BY <1>1, <1>2, <1>4, SubSeqProperties
<1>6. cpu'.cs = fs[n].cs /\ cpu'.ip = fs[n].ip /\ cpu'.iflag = fs[n].iflag
    BY <1>3 DEF Place
<1>7. fs[1] = Stub /\ \A k \in 2 .. n : fs[k].cs = BIOS
    BY <1>2 DEF Flow
<1> HIDE DEF n
<1>8. Flow(cpu', frames')
  <2>1. CASE n = 1
    <3>1. Len(frames') = 0
        BY <1>5, <2>1
    <3>2. frames' = <<>>
        BY <1>5, <3>1, EmptySeq
    <3> QED BY <1>6, <1>7, <2>1, <3>2 DEF Flow, Stub
  <2>2. CASE n >= 2
    <3>1. Len(frames') = n - 1 /\ \A k \in 1 .. n - 1 : frames'[k] = fs[k]
        BY <1>4, <1>5, <2>2
    <3>2. frames' # <<>> /\ frames'[1] = Stub /\ \A k \in 2 .. n - 1 : frames'[k].cs = BIOS
        BY <1>4, <1>7, <2>2, <3>1
    <3>3. cpu'.cs = BIOS
        BY <1>4, <1>6, <1>7, <2>2
    <3> QED BY <3>1, <3>2, <3>3 DEF Flow
  <2> QED BY <1>4, <2>1, <2>2
<1> QED BY <1>1, <1>3, <1>5, <1>8, TurnKeeps

\* HLT in the stub, or a halt anywhere else.
LEMMA HaltKeeps == IInv /\ Halt => IInv'
<1> SUFFICES ASSUME IInv, Halt PROVE IInv'
    OBVIOUS
<1>1. PICK op \in {"hlt", "illegal"} : Turn(op)
    BY DEF Halt
<1>2. cpu' = HALT_SYS(Fetched) /\ frames' = HandledFrames
    BY DEF Halt
<1>3. /\ Fetched \in Cpus /\ HandledFrames \in Seq(Places)
      /\ Framed(Fetched, HandledFrames) /\ Flow(Handled, HandledFrames)
      /\ Fetched.cs = Handled.cs /\ Fetched.iflag = Handled.iflag
    BY <1>1, TurnHas
<1>4. /\ cpu' \in Cpus /\ cpu'.cs = Fetched.cs /\ cpu'.iflag = Fetched.iflag
      /\ cpu'.sp = Fetched.sp /\ cpu'.stack = Fetched.stack /\ "halted" \in cpu'.intr
    BY <1>2, <1>3 DEF HALT_SYS, Cpus, Intrs
<1>5. Flow(cpu', frames')
    BY <1>2, <1>3, <1>4 DEF Flow
<1>6. Framed(cpu', frames')
    BY <1>2, <1>3, <1>4, FramedSame
<1> QED BY <1>1, <1>2, <1>3, <1>4, <1>5, <1>6, TurnKeeps

\* Every step keeps the invariant.
LEMMA IInvStep == IInv /\ [Next]_vars => IInv'
<1> SUFFICES ASSUME IInv, [Next]_vars PROVE IInv'
    OBVIOUS
<1>1. CASE v86_int
    BY <1>1, CallKeeps
<1>2. CASE Return
  <2>1. "halted" \in cpu.intr /\ fetched = 1 /\ calls > 0
      BY <1>2 DEF Return, IInv
  <2>2. /\ running' \in BOOLEAN /\ ~ running'
        /\ UNCHANGED <<program, cpu, calls, frames, fetched>>
      BY <1>2, Zenon DEF Return
  <2> QED BY <2>1, <2>2 DEF IInv, Types
<1>3. CASE Nop
  <2>1. Turn("nop") /\ cpu' = Fetched /\ frames' = HandledFrames
      BY <1>3 DEF Nop
  <2> QED BY <2>1, TurnHas, PlainKeeps
<1>4. CASE x86emuOp_cli
  <2>1. Turn("cli") /\ cpu' = [Fetched EXCEPT !.iflag = 0] /\ frames' = HandledFrames
      BY <1>4 DEF x86emuOp_cli
  <2>2. Fetched \in Cpus
      BY <2>1, TurnHas
  <2>3. cpu' \in Cpus /\ cpu'.cs = Fetched.cs /\ cpu'.sp = Fetched.sp /\ cpu'.stack = Fetched.stack
      BY <2>1, <2>2 DEF Cpus
  <2> QED BY <2>1, <2>3, PlainKeeps
<1>5. CASE x86emuOp_sti
  <2>1. Turn("sti") /\ cpu' = [Fetched EXCEPT !.iflag = 1] /\ frames' = HandledFrames
      BY <1>5 DEF x86emuOp_sti
  <2>2. Fetched \in Cpus
      BY <2>1, TurnHas
  <2>3. cpu' \in Cpus /\ cpu'.cs = Fetched.cs /\ cpu'.sp = Fetched.sp /\ cpu'.stack = Fetched.stack
      BY <2>1, <2>2 DEF Cpus
  <2> QED BY <2>1, <2>3, PlainKeeps
<1>6. CASE x86emuOp_int_IMM
    BY <1>6, IntKeeps
<1>7. CASE Iret
    BY <1>7, IretKeeps
<1>8. CASE Halt
    BY <1>8, HaltKeeps
<1>9. CASE DivideError
  <2>1. /\ Turn("div") /\ frames' = HandledFrames
        /\ cpu' = [Fetched EXCEPT !.intr = @ \cup {"synch"}]
      BY <1>9 DEF DivideError
  <2>2. Fetched \in Cpus
      BY <2>1, TurnHas
  <2>3. cpu' \in Cpus /\ cpu'.cs = Fetched.cs /\ cpu'.sp = Fetched.sp /\ cpu'.stack = Fetched.stack
      BY <2>1, <2>2 DEF Cpus, Intrs
  <2> QED BY <2>1, <2>3, PlainKeeps
<1>10. CASE UNCHANGED vars
    BY <1>10 DEF vars, IInv, Types, Flow, Framed, Saved
<1> QED BY <1>1, <1>2, <1>3, <1>4, <1>5, <1>6, <1>7, <1>8, <1>9, <1>10 DEF Next, Instruction

\* So it holds in every state.
LEMMA IInvAlways == Spec => []IInv
BY IInvInit, IInvStep, PTL DEF Spec

-----------------------------------------------------------------------------
(***************************************************************************)
(* What follows for a BIOS call.                                           *)
(***************************************************************************)
\* The invariant says so of the machine words, addressed as Framed does.
LEMMA StackFollows == IInv => StackHoldsFrames
<1> SUFFICES ASSUME IInv PROVE StackHoldsFrames
    OBVIOUS
<1> SUFFICES ASSUME running, Len(frames) * 3 <= SEGMENT
             PROVE  /\ cpu.sp = (STACK - 3 * Len(frames)) % SEGMENT
                    /\ \A k \in 1 .. Len(frames) :
                         frames[k] = [ip |-> cpu.stack[(((STACK - 3 * k) % SEGMENT) + 0) % SEGMENT],
                                      cs |-> cpu.stack[(((STACK - 3 * k) % SEGMENT) + 1) % SEGMENT],
                                      iflag |-> cpu.stack[(((STACK - 3 * k) % SEGMENT) + 2) % SEGMENT]]
    BY DEF StackHoldsFrames
<1>1. frames \in Seq(Places) /\ Len(frames) \in Nat
    BY LenProperties DEF IInv, Types
<1>2. Framed(cpu, frames)
    BY <1>1, StackAssumption DEF IInv
<1>3. ASSUME NEW k \in 1 .. Len(frames)
      PROVE  \A i \in 0 .. 2 : (((STACK - 3 * k) % SEGMENT) + i) % SEGMENT = Slot(k, i)
  <2> DEFINE a == STACK - 3 * k
  <2>1. a \in Reach /\ \A i \in 0 .. 2 : a + i \in Reach
      BY <1>1, StackAssumption DEF Reach
  <2> HIDE DEF a
  <2>2. \A i \in 0 .. 2 : (At(a) + i) % SEGMENT = At(a + i)
      BY <2>1, AtMoves
  <2> QED BY <2>2 DEF a, At, Slot
<1>4. ASSUME NEW k \in 1 .. Len(frames)
      PROVE  frames[k] = [ip |-> cpu.stack[(((STACK - 3 * k) % SEGMENT) + 0) % SEGMENT],
                          cs |-> cpu.stack[(((STACK - 3 * k) % SEGMENT) + 1) % SEGMENT],
                          iflag |-> cpu.stack[(((STACK - 3 * k) % SEGMENT) + 2) % SEGMENT]]
  <2>1. frames[k] = Saved(cpu, k)
      BY <1>2 DEF Framed
  <2>2. /\ (((STACK - 3 * k) % SEGMENT) + 0) % SEGMENT = Slot(k, 0)
        /\ (((STACK - 3 * k) % SEGMENT) + 1) % SEGMENT = Slot(k, 1)
        /\ (((STACK - 3 * k) % SEGMENT) + 2) % SEGMENT = Slot(k, 2)
      BY <1>3
  <2> QED BY <2>1, <2>2 DEF Saved
<1> QED BY <1>2, <1>4 DEF Framed, At

\* Whatever the BIOS and however its handlers nest, the words between SP and
\* the top of the stack are the frames of what was interrupted and not resumed
\* yet, also where SP has wrapped: an IRET finds what its INT pushed.
THEOREM StackHoldsFramesHolds == Spec => []StackHoldsFrames
    BY IInvAlways, StackFollows, PTL

\* The invariant says so of a call that has ended.
LEMMA ReturnFollows == IInv => CleanReturn
<1> SUFFICES ASSUME IInv PROVE CleanReturn
    OBVIOUS
<1> SUFFICES ASSUME ~ running, calls > 0
             PROVE  fetched = 1 /\ (cpu.cs = HALT => cpu.sp = STACK /\ cpu.iflag = 1 /\ frames = <<>>)
    BY DEF CleanReturn
<1>1. fetched = 1 /\ Flow(cpu, frames)
    BY DEF IInv
<1>2. ASSUME cpu.cs = HALT
      PROVE  cpu.sp = STACK /\ cpu.iflag = 1 /\ frames = <<>>
  <2>1. frames = <<>> /\ cpu.iflag = 1
      BY <1>1, <1>2 DEF Flow, BIOS, HALT
  <2>2. Len(frames) = 0 /\ STACK - 3 * 0 = STACK /\ STACK \in Reach /\ 3 * 0 <= SEGMENT
      BY <2>1, StackAssumption DEF Reach
  <2>3. Framed(cpu, frames)
      BY <2>2 DEF IInv
  <2> QED BY <2>1, <2>2, <2>3, AtIs, StackAssumption DEF Framed
<1> QED BY <1>1, <1>2

\* A call that has come back has run the BIOS; one that came back to the stub
\* has emptied the stack and enabled interrupts, however the handlers left IF.
THEOREM CleanReturnHolds == Spec => []CleanReturn
    BY IInvAlways, ReturnFollows, PTL
=============================================================================
