----------------------------- MODULE MCX86Data -----------------------------
(* Bytes of six bits, so that a long fits TLC's integers.  The data segment *)
(* starts at DS * PARA; one operand lies in it, at Off.                     *)
EXTENDS X86Data, LrmiIo

Off == 5
Segs == [s \in SEGOVR |-> CASE s = "CS" -> 4 [] s = "DS" -> 1 [] OTHER -> 9]
Background == [n \in EAX .. EDI |-> (n + 1) * 1118481]

Ends(w) == {0, 1, 2^(w - 1) - 1, 2^(w - 1), 2^w - 1}
Few(w) == {2^(w - 1), 2^w - 3}
Widths == {BYTE, WORD, LONG}

\* A processor with the numbers v and u in the operands x and y, and the flags f.
Holding(x, v, y, u, f) ==
  LET Into(c, o, n) ==
        IF IsImm(o) THEN c
        ELSE IF IsSeg(o) THEN IF n = 0 THEN c ELSE [c EXCEPT !.seg[SegName[o.segment + 1]] = n]
        ELSE IF o = Accumulator(WORD) THEN SetPair(c, WORD, n % 2^WORD, n \div 2^WORD)
        ELSE IF IsReg(o) THEN SetReg(c, WidthOf(o), o.reg, n)
        ELSE Store(c, WidthOf(o), Linear(c, c.seg["DS"], o.off), n)
      base == Rest(Background, Segs, f, [a \in 0 .. 31 |-> (5 * a) % 2^BYTE])
  IN  Into(Into(base, y, u), x, v)

Anything == I(0)       \* stands for an immediate of the number at hand
Or(y, u) == IF y = Anything THEN I(u) ELSE y

\* One instruction, in all its encodings, on operands with these numbers: the
\* cases are tuples of op, x, v, y, u, f.
Run(op, x, v, y, u, f) ==
  LET i == [op |-> op, dst |-> x, src |-> Or(y, u)]
      c == Holding(x, v, y, u, f)
  IN  {Job(c, <<i>>, <<code>>) : code \in Encodings(i)}

Places(w) == {R(w, EAX), R(w, EDI), M(w, 1, Off)}
Sources(w) == {R(w, EBX), M(w, 1, Off), Anything}
Pairs(w) == {p \in Places(w) \X Sources(w) : ~ (IsMem(p[1]) /\ IsMem(p[2]))}

FlagSets == {{}, {"CF", "AF", "ZF", "OF", "DF"}}
Binaries(w) ==
  {<<op, p[1], v, p[2], u, f>> :
    op \in DOMAIN OpNumber \cup {"mov", "test"}, v \in Few(w), u \in Few(w), f \in FlagSets,
    p \in Pairs(w)}
Exchanges(w) ==
  {<<"xchg", p[1], 5, p[2], 7, {}>> : p \in {p \in Pairs(w) : IsReg(p[2])}}
Singles(w) ==
  {<<op, x, v, Anything, 0, f>> :
    op \in {"inc", "dec", "not", "neg"}, x \in Places(w), v \in Ends(w), f \in FlagSets}
Shifted_(w) ==
  {<<op, x, v, y, n, {}>> :
    op \in DOMAIN ShiftNumber, x \in Places(w) \ {R(w, ECX)}, v \in Few(w),
    y \in {R(BYTE, ECX), Anything}, n \in {1, BYTE - 1}}
Widened(v, w) ==
  {<<op, R(w, ESI), 1, y, n, {}>> :
    op \in {"movzx", "movsx"}, y \in {R(v, EBX), M(v, 1, Off)}, n \in Ends(v)}
Bitwise_(w) ==
  {<<op, x, v, y, n, f>> :
    op \in DOMAIN TestNumber, x \in Places(w), v \in Few(w), y \in {R(w, EBX), Anything},
    n \in {0, 1, w - 1}, f \in FlagSets}
Scans(w) ==
  {<<op, R(w, EDX), 1, y, v, {}>> :
    op \in {"bsf", "bsr"}, y \in {R(w, EBX), M(w, 1, Off)}, v \in {0} \cup Few(w)}
Swaps == {<<"bswap", R(LONG, EDI), 66051, R(LONG, EDI), 66051, {}>>}

Segments_ ==
  {<<"mov_seg", x, 77, S(n), 0, {}>> : x \in {R(WORD, EBP), M(WORD, 1, Off)}, n \in 0 .. 5}
    \cup {<<"mov_seg", S(n), 0, x, 77, {}>> :
            x \in {R(WORD, EBP), M(WORD, 1, Off)}, n \in {0, 2, 3, 4, 5}}
Spreads ==
  {<<"cbw", R(2 * v, EAX), n, R(v, EAX), n, {"CF"}>> : v \in {BYTE, WORD}, n \in {5, 31, 32, 63}}
    \cup {<<"cwd", Accumulator(WORD), n, R(WORD, EAX), n, {"CF"}>> : n \in {5, 31, 32, 63}}
\* Of times no product that is negative, or between the signed and the unsigned
\* range: the flags of these are not those of the processor.
Products_(w) ==
  {<<op, Accumulator(w), d, y, s, {"CF"}>> :
    op \in {"mul", "imul"}, d \in {3, 30, 63}, s \in {1, 2, 30}, y \in {R(w, EBX), M(w, 1, Off)}}
  \cup {<<op, Accumulator(w), d, y, s, {"CF"}>> :
    op \in {"div", "idiv"}, d \in {0, 77, 200}, s \in {7, 30}, y \in {R(w, EBX), M(w, 1, Off)}}
Times_ ==
  {<<"times", R(WORD, ESI), p[1], y, p[2], {}>> :
     p \in {<<3, 5>>, <<70, 5>>, <<70, 63>>, <<2^WORD - 2, 2^WORD - 1>>},
     y \in {R(WORD, EBX), M(WORD, 1, Off), Anything}}

Cases ==
  <<UNION {Binaries(w) : w \in Widths},
    UNION {Exchanges(w) \cup Singles(w) \cup Shifted_(w) : w \in Widths},
    Widened(BYTE, WORD) \cup Widened(BYTE, LONG) \cup Widened(WORD, LONG),
    UNION {Bitwise_(w) \cup Scans(w) : w \in {WORD, LONG}},
    UNION {Products_(w) : w \in {BYTE, WORD}},
    Swaps \cup Segments_ \cup Spreads \cup Times_>>

Far(n) ==
  LET i == [op |-> "lseg", dst |-> Pair(R(WORD, EDI), S(n)), src |-> M(LONG, 1, Off), segment |-> n]
  IN  {Job(Holding(M(LONG, 1, Off), 12345, Anything, 0, {}), <<i>>, <<code>>) : code \in Encodings(i)}

\* A sum of two limbs: the carry of one instruction is taken by the next.
Chain(w, v, u) ==
  LET low == [op |-> "add", dst |-> R(w, EDX), src |-> I(u)]
      high == [op |-> "adc", dst |-> M(w, 1, Off), src |-> R(w, EAX)]
      c == Holding(R(w, EDX), v, M(w, 1, Off), 2^w - 1, {})
  IN  {Job(c, <<low, high>>, <<a, b>>) : a \in Encodings(low), b \in Encodings(high)}

InstructionJobs ==
  [k \in DOMAIN Cases |-> UNION {Run(t[1], t[2], t[3], t[4], t[5], t[6]) : t \in Cases[k]}]
    \o <<UNION {Far(n) : n \in {0, 2, 3, 4, 5}},
         UNION {UNION {Chain(w, v, u) : v \in Ends(w), u \in Few(w)} : w \in Widths}>>

-----------------------------------------------------------------------------
(* Strings.  Counts of up to three elements; source and target apart, one  *)
(* element ahead of each other, and the same, and over the end of the       *)
(* segment.  The bytes of memory repeat, so that comparisons end early,     *)
(* late and not at all.                                                     *)
Ops == DOMAIN Opcode
StringSegs == [s \in SEGOVR |-> CASE s = "CS" -> 700 [] s = "DS" -> 2 [] s = "FS" -> 3 [] OTHER -> 2]
Patterns ==
  {[x \in 0 .. 95 |-> IF x % 5 = 4 THEN 9 ELSE 7],
   [x \in 0 .. 95 |-> IF x < 60 THEN 7 ELSE 8],
   [x \in 0 .. 95 |-> x % 64]}

Prepared(si, di, n, back, mem, al) ==
  Rest([k \in EAX .. EDI |->
          CASE k = EAX -> al [] k = ECX -> n [] k = EDX -> 33 [] k = ESI -> si [] k = EDI -> di
            [] OTHER -> 66051 * (k + 1)],
       StringSegs, IF back THEN {"DF", "ZF"} ELSE {"CF", "ZF"}, mem)

\* Of one width: 0 to 3 elements, at offsets a multiple of it apart.  Under
\* x86emu OUTS takes its source from ES, and the ports move one long of several.
Strings_(ops, w, counts, reps, from(_, _)) ==
  LET b == Bytes(w)
      far == <<16, 48>>
      places == {far, <<16, 16 + b>>, <<16 + b, 16>>, <<16, 16>>, <<2^WORD - b, 32>>}
  IN  {Stringed(Prepared(p[1], p[2], n, back, mem, 7), op, w, rep, over, from(op, over)) :
         op \in ops, p \in places, n \in counts, back \in BOOLEAN, mem \in Patterns,
         rep \in reps, over \in {"DS"}}
      \cup
      {Stringed(Prepared(far[1], far[2], n, back, mem, 7), op, w, rep, "FS", from(op, "FS")) :
         op \in ops, n \in counts, back \in BOOLEAN, mem \in Patterns, rep \in reps}

Ports ==
  {Ported(Prepared(16, 48, 3, back, [x \in 0 .. 95 |-> x % 64], al), op, w, literal, port) :
     op \in {"in", "out"}, w \in {BYTE, WORD, LONG}, literal \in BOOLEAN, port \in {0, 9, 33},
     back \in BOOLEAN, al \in {7, 2^LONG - 5}}

OnEmulator(op, over) == IF op = "outs" THEN "ES" ELSE over
Reps == {"none", "repe", "repne"}
Emulated ==
  <<Strings_(Ops, BYTE, 0 .. 3, Reps, OnEmulator),
    Strings_(Ops, WORD, {0, 1, 3}, Reps, OnEmulator),
    Strings_(Ops \ {"ins", "outs"}, LONG, {0, 2}, Reps, OnEmulator), Ports>>

\* The ports at full width.
LongPorts == <<Strings_({"ins", "outs"}, LONG, 0 .. 3, {"none", "repe"}, OnEmulator)>>

\* Prefixes more than once and in any order: of the segments the last counts,
\* and two for the size take each other back.
Prefixed == \* <<prefixes, width, repetition, segment>>
  {<<<<Override["FS"], Override["SS"]>>, WORD, "none", "SS">>,
   <<<<Override["FS"], \hf3, \h66, Override["DS"]>>, LONG, "repe", "DS">>,
   <<<<\h66, Override["FS"], \h66>>, WORD, "none", "FS">>,
   <<<<\h66, \hf3, Override["CS"], \h66, Override["FS"], \h66>>, LONG, "repe", "FS">>,
   <<<<\hf3, Override["GS"], \hf3, Override["FS"]>>, BYTE, "repe", "FS">>}
Repeated ==
  {LET c == Prepared(16, 48, n, back, mem, 7)
       item == Opcode[op] + (IF p[2] = BYTE THEN 0 ELSE 1)
   IN  [Stringed(c, op, p[2], p[3], "DS", p[4]) EXCEPT !.c = Loaded(c, Append(p[1], item))] :
     op \in {"ins", "outs"}, p \in Prefixed, n \in {1, 3}, back \in BOOLEAN, mem \in Patterns}

AsNamed(op, over) == over
HighHalves(c) == [c EXCEPT !.r[ESI] = @ + 2^LONG \div 2, !.r[EDI] = @ + 2^LONG \div 2]
Trapped ==
  <<UNION {Strings_({"ins", "outs"}, w, 0 .. 3, {"none", "repe"}, AsNamed) : w \in {BYTE, WORD, LONG}},
    {Stringed(HighHalves(Prepared(16, 48, n, FALSE, mem, 7)), op, BYTE, "repe", "SS", "SS") :
            op \in {"ins", "outs"}, n \in 0 .. 3, mem \in Patterns}, Repeated, Ports>>
=============================================================================
