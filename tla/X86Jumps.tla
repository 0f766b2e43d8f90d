------------------------------ MODULE X86Jumps ------------------------------
(***************************************************************************)
(* The machine runs comparisons with a jump or a set behind them, loops,   *)
(* and chains of jumps of every kind.  What a program went through it      *)
(* tells at a port: cpu.io is its trace.                                   *)
(***************************************************************************)
EXTENDS X86Asm

-----------------------------------------------------------------------------
\* Comparisons.  The kinds of a job: "short" and "near" jumps, and "set", of
\* condition number k, behind CMP AX, u of width w with v in AX.
Compared(c, kind, w, v, u, k) ==
  LET cmp_ == (IF w = LONG THEN <<\h66>> ELSE <<>>)
                \o <<IF w = BYTE THEN \h3c ELSE \h3d>> \o Number(w, u)
      no == Tell(0) \o <<\hf4>>
      code == CASE kind = "short" -> <<\h70 + k>> \o Number(BYTE, Len(no)) \o no \o Tell(1)
                [] kind = "near" -> <<15, \h80 + k>> \o Number(WORD, Len(no)) \o no \o Tell(1)
                [] kind = "set" -> <<15, \h90 + k>> \o RM(R(BYTE, EAX), 0) \o OutAL
  IN  [c |-> Loaded(SetReg(c, w, EAX, v), cmp_ \o code),
       on |-> "x86emu", kind |-> kind, w |-> w, v |-> v, u |-> u, k |-> k]

\* What a condition says of the two numbers; the odd ones say the opposite.
Relation(w, v, u, k) ==
  LET exact == Signed(w, v) - Signed(w, u)
      cut == (v - u) % 2^w
      even == 2 * (k \div 2)
      holds == CASE even = 0 -> exact \notin -(2^(w - 1)) .. 2^(w - 1) - 1
                 [] even = 2 -> v < u
                 [] even = 4 -> v = u
                 [] even = 6 -> v <= u
                 [] even = 8 -> cut >= 2^(w - 1)
                 [] even = 10 -> Cardinality(Bits(BYTE, cut % 2^BYTE)) % 2 = 0
                 [] even = 12 -> Signed(w, v) < Signed(w, u)
                 [] even = 14 -> Signed(w, v) <= Signed(w, u)
  IN  holds # (k % 2 = 1)

\* A jump on a condition goes where the condition, said of the two numbers
\* that were compared, is true: what CMP leaves in the flags and what the
\* jump reads there fit together, for signed and unsigned numbers of every
\* width (cmp of prim_ops.c, jump_near_* of ops.c, long_jump of ops2.c).
JumpsAsRelated ==
  Done /\ job.kind \in {"short", "near"} =>
    Trace = <<IF Relation(job.w, job.v, job.u, job.k) THEN 1 ELSE 0>>

\* The sixteen sets, by their names "SETO" to "SETNLE"
\* (libs/x86emu/ops2.c lines 217 to 277), store what their names say.
SetsAsNamed ==
  Done /\ job.kind = "set" =>
    Trace = <<IF Relation(job.w, job.v, job.u, job.k) THEN 1 ELSE 0>>

-----------------------------------------------------------------------------
\* Loops: CX turns of a body that does tells, OutAL or nothing, raises AL and
\* compares it with stop; entered through JCXZ where guarded.
LoopCode == [loopne |-> \he0, loope |-> \he1, loop |-> \he2]
Looping(c, op, n, stop, guarded, tells) ==
  LET body == tells \o <<\hfe>> \o RM(R(BYTE, EAX), 0) \o <<\h3c, stop>>
      turn == body \o <<LoopCode[op]>> \o Number(BYTE, 2^BYTE - Len(body) - 2)
      code == (IF guarded THEN <<\he3, Len(turn)>> ELSE <<>>) \o turn
  IN  [c |-> Loaded(SetReg(SetReg(c, WORD, ECX, n), BYTE, EAX, 0), code),
       on |-> "x86emu", kind |-> "loop", op |-> op, n |-> n, stop |-> stop, guarded |-> guarded]

\* The turns a loop has: CX of them, of 0 as many as a word counts or none
\* where JCXZ guards; LOOPNE ends at the turn that meets stop, LOOPE at the
\* first that does not.
Turns ==
  LET all == IF job.n # 0 THEN job.n ELSE IF job.guarded THEN 0 ELSE 2^WORD
      Ends(t) == CASE job.op = "loop" -> FALSE
                   [] job.op = "loope" -> t % 2^BYTE # job.stop
                   [] job.op = "loopne" -> t % 2^BYTE = job.stop
      ends == {t \in 1 .. all : Ends(t)}
  IN  IF ends = {} THEN all ELSE Min(ends)

\* A loop takes the turns its count and its condition give it, each one
\* before the next; CX tells how many are left (loop, loope, loopne, jcxz).
LoopsAsCounted ==
  job.kind = "loop" =>
    /\ \A k \in DOMAIN cpu.io : cpu.io[k][3] = (k - 1) % 2^BYTE
    /\ Done => /\ Len(cpu.io) = Turns
               /\ Word(cpu, ECX) = (job.n - Turns) % 2^WORD

-----------------------------------------------------------------------------
\* Chains: parts that tell their numbers, in any order in memory, each of
\* which jumps to the part of the next number in a way of its own.
Hops == {"short", "near", "near_long", "far", "reg", "memory", "far_memory"}

HopSize(hop) ==
  CASE hop = "short" -> 2 [] hop = "near" -> 3 [] hop = "near_long" -> 6 [] hop = "far" -> 5
    [] hop = "reg" -> 5 [] hop \in {"memory", "far_memory"} -> 4

\* Part number n stands at order[n]; the last tells and halts.  The pointers
\* of jumps through memory are at the offsets 8 * n of the data segment.
Chained(c, hops, order) ==
  LET last == Len(order)
      Long(n) == Len(Tell(n)) + (IF n = last THEN 1 ELSE HopSize(hops[n]))
      AtPlace(k) == CHOOSE n \in 1 .. last : order[n] = k
      place[k \in 1 .. last + 1] == IF k = 1 THEN 2 ELSE place[k - 1] + Long(AtPlace(k - 1))
      cs == c.seg["CS"]
      Hop(n) ==
        LET to == place[order[n + 1]]
            next == place[order[n] + 1]
        IN  CASE hops[n] = "short" -> <<\heb>> \o Number(BYTE, (to - next) % 2^BYTE)
              [] hops[n] = "near" -> <<\he9>> \o Number(WORD, (to - next) % 2^WORD)
              [] hops[n] = "near_long" -> <<\h66, \he9>> \o Number(LONG, (to - next) % 2^LONG)
              [] hops[n] = "far" -> <<\hea>> \o Number(WORD, to) \o Number(WORD, cs)
              [] hops[n] = "reg" -> <<\hbb>> \o Number(WORD, to) \o <<\hff>> \o RM(R(WORD, EBX), 4)
              [] hops[n] = "memory" -> <<\hff>> \o RM([off |-> 8 * n], 4)
              [] hops[n] = "far_memory" -> <<\hff>> \o RM([off |-> 8 * n], 5)
      Part(n) == Tell(n) \o (IF n = last THEN <<\hf4>> ELSE Hop(n))
      Pointed(d, n) ==
        LET at == Linear(c, c.seg["DS"], 8 * n)
        IN  Store(Store(d, WORD, at, place[order[n + 1]]), WORD, at + Bytes(WORD), cs)
  IN  [c |-> Loaded(FoldLeft(Pointed, c, [n \in 1 .. last - 1 |-> n]),
               <<\heb>> \o Number(BYTE, place[order[1]] - 2)
                 \o Joined([k \in 1 .. last |-> Part(AtPlace(k))])),
       on |-> "x86emu", kind |-> "chain", last |-> last]

\* Jumps of all kinds, forward and back, arrive at the part they are meant
\* for: relative ones count from the next instruction, and far ones may come
\* in CS (jump_* of ops.c and opcFF_word_RM).
HopsArrive ==
  job.kind = "chain" =>
    /\ \A k \in DOMAIN cpu.io : cpu.io[k][3] = k
    /\ Done => Len(cpu.io) = job.last
=============================================================================
