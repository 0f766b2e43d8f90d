----------------------------- MODULE MCX86Other -----------------------------
(* Programs of other kinds: stores through every form of address, and       *)
(* idioms.  Bytes of six bits, so a nibble of three and digits of base five. *)
EXTENDS X86Address, X86Idioms

(* Addresses.  Words wrap at 4096, longs at 16777216.  The registers      *)
(* are such that sums of two wrap, and that no two sums are the same.       *)
AddressSegs ==
  [s \in SEGOVR |-> CASE s = "CS" -> 700 [] s = "SS" -> 3000 [] s = "DS" -> 1 [] s = "ES" -> 1200
                      [] s = "FS" -> 1900 [] s = "GS" -> 2500]
AddressBase == Rest([n \in EAX .. EDI |-> (5000000 * (n + 1) + 3001 * n) % 2^LONG], AddressSegs, {}, [a \in {} |-> 0])

Place(wide, mod, rm, sib, disp) == [wide |-> wide, mod |-> mod, rm |-> rm, sib |-> sib, disp |-> disp]
Sib(s, i, b) == [scale |-> s, index |-> i, base |-> b]
NoSib == Sib(0, 0, 0)
Disps == {5, -7}

Near == {Place(FALSE, mod, rm, NoSib, d) : mod \in 0 .. 2, rm \in 0 .. 7, d \in Disps}
Wide_ == {Place(TRUE, mod, rm, NoSib, d) : mod \in 0 .. 2, rm \in (0 .. 7) \ {4}, d \in Disps}
Sibs == {Place(TRUE, mod, 4, Sib(s, i, b), d) :
           mod \in 0 .. 2, s \in 0 .. 3, i \in 0 .. 7, b \in 0 .. 7, d \in {-7}}

\* What the code does otherwise, and the manual not: a wide displacement to EBP
\* is not taken on the stack and one to EDX is (libs/x86emu/decode.c lines 951,
\* 1034 and 1047), and the base printed as EBP is ESP (line 757).
WideFrames == {p \in Wide_ : p.mod # 0 /\ (p.rm = EBP \/ (p.mod = 2 /\ p.rm = EDX))}
OddBases == {p \in Sibs : p.mod # 0 /\ p.sib.base = EBP}

\* The prefixes, in any order, of a store to p.
Prefixed(p, more) ==
  LET all == more \cup (IF p.wide THEN {"addr"} ELSE {})
  IN  {s \in [1 .. Cardinality(all) -> all] : \A a \in all : \E k \in DOMAIN s : s[k] = a}
Stores(places, mores, v) ==
  UNION {{[p |-> p, pre |-> pre, v |-> v] : pre \in UNION {Prefixed(p, more) : more \in mores}} :
           p \in places}

First == Stores((Near \cup Wide_ \cup Sibs) \ (WideFrames \cup OddBases), {{}}, 9)
Overridden ==
  Stores((Near \cup Wide_) \ WideFrames, {{"ES"}, {"CS", "data"}, {"SS"}, {"DS"}, {"FS"}, {"GS", "data"}}, 10)
Second ==
  Stores({Place(FALSE, 1, 6, NoSib, 8)}, {{}}, 11) \cup Stores({Place(TRUE, 0, 1, NoSib, 0)}, {{"ES"}}, 11)

AddressJobs == <<{Storing(AddressBase, p) : p \in (UNION {First, Overridden}) \X Second}>>

-----------------------------------------------------------------------------
\* Idioms.
IdiomSegs == [s \in SEGOVR |-> CASE s = "CS" -> 700 [] s = "DS" -> 5 [] s = "SS" -> 300 [] OTHER -> 900]
Of(flags) ==
  Rest([n \in EAX .. EDI |-> (5000011 * (n + 1)) % 2^LONG], IdiomSegs, flags,
       [x \in 5 * PARA + 40 .. 5 * PARA + 45 |-> (11 * x) % 2^BYTE])
IdiomBase == Of({"CF", "OF"})

Operands(w) == {R(w, EBP), M(w, 5, 40)}
WayPairs(n) ==
  {<<"imm", "cl">>, <<"cl", "imm">>} \cup IF n = 1 THEN {<<"one", "imm">>, <<"cl", "one">>} ELSE {}
Rotates ==
  UNION {{Rotating(Of(f), w, x, k, n, ways) :
            f \in {{}, {"CF"}}, x \in Operands(w), ways \in WayPairs(n),
            k \in IF w = LONG /\ n % (LONG + 1) = LONG THEN {0, 1} ELSE 0 .. 3} :
           w \in {BYTE, WORD, LONG}, n \in (0 .. LONG + 2) \cup {2^BYTE - 1}}
Pairs ==
  UNION {{PairShifted(IdiomBase, w, x, ESI, n, left, ways) :
            x \in Operands(w), left \in BOOLEAN, ways \in {u \in WayPairs(n) : u[1] # "one"}} :
           w \in {WORD, LONG}, n \in 0 .. WORD - 1}
         \cup {PairShifted(IdiomBase, LONG, x, ESI, n, left, <<"cl", "imm">>) :
                 x \in Operands(LONG), left \in BOOLEAN, n \in WORD .. LONG - 1}

Wreckers ==
  {<<\hf5>>, <<\hf8>>, <<\hf9>>, <<\hfc>>, <<\hfd>>, <<\hfa>>, <<\hfb>>, <<\h3c, 7>>, <<\h04, 33>>}
Brackets ==
  <<{Bracketed(Of(f), how, w, <<a, b>>) :
     f \in {{}, {"CF", "ZF", "DF"}, {"PF", "AF", "SF", "OF", "IF"}, FlagNames \ {"TF"}},
     how \in {"pushf"}, w \in {WORD, LONG}, a \in Wreckers, b \in Wreckers},
    {Bracketed(Of(f), "lahf", WORD, <<a, b>>) :
     f \in SUBSET {"CF", "PF", "AF", "ZF", "SF"}, a \in Wreckers, b \in {<<\hf5>>, <<\h04, 33>>}}>>

PackedDigits == {0, 4, 9, 20, 24}
Sums ==
  <<{Summed(IdiomBase, less, TRUE, <<a, b>>, <<u, v>>) :
     less \in BOOLEAN, a \in PackedDigits, b \in PackedDigits, u \in PackedDigits, v \in PackedDigits},
    {Summed(IdiomBase, less, FALSE, <<a, b>>, <<u, v>>) :
     less \in BOOLEAN, a \in 0 .. 4, b \in 0 .. 4, u \in 0 .. 4, v \in 0 .. 4}>>
Products_ ==
  {Multiplied_(IdiomBase, x, y) : x \in 0 .. 4, y \in 0 .. 4}
  \cup {Divided_(IdiomBase, h, l, y) : h \in 0 .. 4, l \in 0 .. 4, y \in 1 .. 4}

Texts ==
  {Translating(IdiomBase, 100, table, over, text) :
     table \in {30, 2^WORD - 20}, over \in {"ES", "SS", "FS", "CS"},
     text \in {<<1>>, <<5, 63, 0>>, <<40, 19, 20, 21>>}}

Modes16 == {[mod |-> mod, rl |-> rl] : mod \in 0 .. 2, rl \in 0 .. 7}
Pointers ==
  {Pointed_(IdiomBase, m, CASE m.mod = 1 -> <<61>> [] m.mod = 2 -> Number(WORD, 900) [] OTHER -> <<>>,
            over, v) :
     m \in {x \in Modes16 : ~ (x.mod = 0 /\ x.rl = 6)}, over \in {"ES", "SS", "FS"}, v \in {9, 17}}

Forms16 ==
  {<<[mod |-> m.mod, rh |-> h, rl |-> m.rl]>>
     \o (CASE m.mod = 1 -> <<7>> [] m.mod = 2 \/ (m.mod = 0 /\ m.rl = 6) -> <<7, \h1f>> [] OTHER -> <<>>) :
     m \in [mod : 0 .. 3, rl : 0 .. 7], h \in {0, 3, 7}}
Alones ==
  {Alone(IdiomBase, <<\hd8 + k>> \o form, {}) : k \in 1 .. 7, form \in Forms16}
  \cup {Alone(IdiomBase, <<\h66, \h67, \h26, op>>, {}) : op \in {\h90, \h9b, \hf0}}
  \cup {Alone(IdiomBase, <<15, \h31>>, {EAX, EDX})}
  \cup {Alone(SetReg(IdiomBase, LONG, EAX, leaf), <<15, \ha2>>, EAX .. EBX) : leaf \in 0 .. 2}

IdiomJobs == <<Rotates, Pairs>> \o Brackets \o Sums \o <<Products_, Texts, Pointers, Alones>>
=============================================================================
