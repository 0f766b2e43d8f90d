------------------------------- MODULE X86Alu -------------------------------
(***************************************************************************)
(* The primitive operations of the emulated processor                      *)
(* (libs/x86emu/prim_ops.c): what each one returns and which flags it      *)
(* leaves.  The code has a byte, a word and a long version of nearly every *)
(* one; here it is one operator of the width w, and where a version        *)
(* differs the operator says so.                                           *)
(*                                                                         *)
(* An operator takes the width, the set f of the flags that are on and the *)
(* operands, and returns the flags and, unless the instruction only        *)
(* compares, the value to store.  A shift by more bits than a C type has   *)
(* is undefined in C; the build is for x86, which takes the count modulo   *)
(* the 32 bits of a long.                                                  *)
(***************************************************************************)
EXTENDS Integers, FiniteSets, FiniteSetsExt

CONSTANTS
  BYTE,          \* bits of a byte, 8 in the code
  RADIX          \* ten, the base of the decimal adjustments

WORD == 2 * BYTE
LONG == 4 * BYTE
NIBBLE == BYTE \div 2

ASSUME WidthAssumption ==
  /\ BYTE \in Nat /\ RADIX \in Nat /\ BYTE % 2 = 0
  /\ 0 < RADIX /\ RADIX <= 2^NIBBLE

\* Arithmetic that holds of all powers of 2: the provers know nothing of them
\* but this.
ASSUME PowerAssumption ==
  /\ BYTE > 0 /\ 2^1 = 2
  /\ \A a \in 0 .. LONG :
       2^a \in Nat \ {0} /\ \A b \in 0 .. LONG - a : 2^(a + b) = 2^a * 2^b

-----------------------------------------------------------------------------
\* Numbers as the sets of their bits.
Bit(x, i) == (x \div 2^i) % 2 = 1
Bits(w, x) == {i \in 0 .. w - 1 : Bit(x, i)}
Value(S) == SumSet({2^i : i \in S})
Sign(w, x) == Bit(x, w - 1)
Signed(w, x) == IF Sign(w, x) THEN x - 2^w ELSE x
Shifted(w, x, n) == (x % 2^(w - n)) * 2^n

\* x extended from w bits to v by its sign.
Extended(w, v, x) == Signed(w, x) % 2^v

Flag(name, on) == IF on THEN {name} ELSE {}
One(f, name) == IF name \in f THEN 1 ELSE 0
Set(f, touched, on) == (f \ touched) \cup on
ARITH == {"CF", "PF", "AF", "ZF", "SF", "OF"}
ZSP == {"ZF", "SF", "PF"}

\* XOR2 of the two topmost bits of a chain.
XOR2(w, S) == (w - 1 \in S) # (w - 2 \in S)

\* Zero, sign and the parity of the low byte.
ResultFlags(w, r) ==
  Flag("ZF", r = 0) \cup Flag("SF", Sign(w, r))
    \cup Flag("PF", Cardinality(Bits(BYTE, r)) % 2 = 0)

\* The carries of d + s and the borrows of d - s, bit by bit, from the result.
CarryChain(w, d, s, r) ==
  (Bits(w, s) \cap Bits(w, d)) \cup ((Bits(w, s) \cup Bits(w, d)) \ Bits(w, r))
BorrowChain(w, d, s, r) ==
  (Bits(w, r) \ (Bits(w, d) \ Bits(w, s))) \cup (Bits(w, s) \ Bits(w, d))

\* A result and the six flags of it: the carry out, and the chain that tells of
\* the carries inside.
Result(w, f, r, cf, chain) ==
  [val |-> r,
   f |-> Set(f, ARITH, ResultFlags(w, r) \cup Flag("CF", cf)
              \cup Flag("OF", XOR2(w, chain)) \cup Flag("AF", NIBBLE - 1 \in chain))]

-----------------------------------------------------------------------------
\* Mutant of adc: the carry out is the carry into the top bit.
adc_inner(w, f, d, s) ==
  LET r == (d + s + One(f, "CF")) % 2^w
      cc == CarryChain(w, d, s, r)
  IN  Result(w, f, r, w - 2 \in cc, cc)

adc(w, f, d, s) ==
  LET sum == d + s + One(f, "CF")
      r == sum % 2^w
  IN  Result(w, f, r, sum >= 2^w, CarryChain(w, d, s, r))

add(w, f, d, s) == adc(w, f \ {"CF"}, d, s)

sbb(w, f, d, s) ==
  LET r == (d - s - One(f, "CF")) % 2^w
      bc == BorrowChain(w, d, s, r)
  IN  Result(w, f, r, w - 1 \in bc, bc)

sub(w, f, d, s) == sbb(w, f \ {"CF"}, d, s)
cmp(w, f, d, s) == [f |-> sub(w, f, d, s).f]

\* INC and DEC leave the carry alone.
inc(w, f, d) ==
  LET a == add(w, f, d, 1)
  IN  [a EXCEPT !.f = Set(@, {"CF"}, f \cap {"CF"})]
dec(w, f, d) ==
  LET a == sub(w, f, d, 1)
  IN  [a EXCEPT !.f = Set(@, {"CF"}, f \cap {"CF"})]

\* The borrows of 0 - s are the bits of the result and of s.
neg(w, f, s) ==
  LET r == (- s) % 2^w IN Result(w, f, r, s # 0, Bits(w, r) \cup Bits(w, s))

not(w, f, s) == [val |-> 2^w - 1 - s, f |-> f]

\* The logical operations clear carry and overflow, all but TEST AF as well.
Logic(w, f, r) == [val |-> r, f |-> Set(f, ARITH, ResultFlags(w, r))]
and(w, f, d, s) == Logic(w, f, Value(Bits(w, d) \cap Bits(w, s)))
or(w, f, d, s) == Logic(w, f, Value(Bits(w, d) \cup Bits(w, s)))
xor(w, f, d, s) ==
  Logic(w, f, Value((Bits(w, d) \cup Bits(w, s)) \ (Bits(w, d) \cap Bits(w, s))))
test(w, f, d, s) ==
  [f |-> Set(f, ARITH \ {"AF"}, and(w, f, d, s).f)]

-----------------------------------------------------------------------------
\* Rotations and shifts by s, 0 .. 255.

\* Mutant of rcl: the high bits come down one place too little.
rcl_short(w, f, d, s) ==
  LET n == s % (w + 1) IN
  IF n = 0 THEN [val |-> d, f |-> f]
  ELSE [val |-> Shifted(w, d, n) + ((d \div 2^(w - n)) % 2^(n - 1))
                  + One(f, "CF") * 2^(n - 1),
        f |-> Set(f, {"CF", "OF"}, Flag("CF", Bit(d, w - n)))]

\* Through the carry: w + 1 bits go round.  rcl_long shifts by all 32 bits
\* when n = 32, which on x86 does not shift.
rcl(w, f, d, s) ==
  LET n == s % (w + 1) IN
  IF n = 0 THEN [val |-> d, f |-> f]
  ELSE LET cf == Flag("CF", Bit(d, w - n))
           high == IF n = LONG THEN d ELSE Shifted(w, d, n)
           low == ((d \div 2^(w + 1 - n)) % 2^(n - 1)) + One(f, "CF") * 2^(n - 1)
           r == IF n = LONG THEN Value(Bits(w, high) \cup Bits(w, low)) ELSE high + low
       IN  [val |-> r,
            f |-> Set(f, {"CF", "OF"}, cf \cup
                    Flag("OF", n = 1 /\ ("CF" \in cf) # Sign(w, r)))]

rcr(w, f, d, s) ==
  LET n == s % (w + 1) IN
  IF n = 0 THEN [val |-> d, f |-> f]
  ELSE [val |-> d \div 2^n + (IF n = 1 THEN 0 ELSE Shifted(w, d, w + 1 - n))
                  + One(f, "CF") * 2^(w - n),
        f |-> LET cf == Set(f, {"CF"}, Flag("CF", Bit(d, n - 1)))
              IN  IF n = 1
                  THEN Set(cf, {"OF"}, Flag("OF", ("CF" \in f) # Sign(w, d)))
                  ELSE cf]

rol(w, f, d, s) ==
  LET n == s % w
      r == Shifted(w, d, n) + d \div 2^(w - n)
      cf == Flag("CF", Bit(r, 0))
  IN  [val |-> r,
       f |-> IF s = 0 THEN f
             ELSE IF n = 0 THEN Set(f, {"CF"}, cf)
             ELSE Set(f, {"CF", "OF"},
                      cf \cup Flag("OF", s = 1 /\ Bit(r, 0) # Sign(w, r)))]

ror(w, f, d, s) ==
  LET n == s % w
      r == IF n = 0 THEN d ELSE Shifted(w, d, w - n) + d \div 2^n
      cf == Flag("CF", Sign(w, r))
  IN  [val |-> r,
       f |-> IF s = 0 THEN f
             ELSE IF n = 0 THEN Set(f, {"CF"}, cf)
             ELSE Set(f, {"CF", "OF"},
                      cf \cup Flag("OF", s = 1 /\ XOR2(w, Bits(w, r))))]

\* The bit the code looks at after d << (s - 1) when s is at least the width.
LastOut(w, d, s) ==
  LET n == (s - 1) % LONG IN n <= w - 1 /\ Bit(d, w - 1 - n)

\* Nothing is left: zero, and what is known of it.
ShiftedOut(f, cf, pf) == [val |-> 0, f |-> Set(f, ARITH \ {"AF"}, cf \cup pf \cup {"ZF"})]

\* SHLD; SHL fills with zeros.
shld(w, f, d, fill, s) ==
  IF s >= w THEN ShiftedOut(f, Flag("CF", LastOut(w, d, s)), {"PF"})
  ELSE IF s = 0 THEN [val |-> d, f |-> f \ {"OF"}]
  ELSE LET r == Shifted(w, d, s) + fill \div 2^(w - s)
           cf == Flag("CF", Bit(d, w - s))
       IN  [val |-> r,
            f |-> Set(f, ARITH \ {"AF"}, ResultFlags(w, r) \cup cf \cup
                    Flag("OF", s = 1 /\ Sign(w, r) # ("CF" \in cf)))]
shl(w, f, d, s) == shld(w, f, d, 0, s)

\* SHRD, and SHR, which fills with zeros; shr_byte alone looks for the carry.
shrd(w, f, d, fill, s) ==
  IF s >= w THEN ShiftedOut(f, {}, {})
  ELSE IF s = 0 THEN [val |-> d, f |-> f \ {"OF"}]
  ELSE LET r == d \div 2^s + Shifted(w, fill, w - s)
       IN  [val |-> r,
            f |-> Set(f, ARITH \ {"AF"}, ResultFlags(w, r)
                    \cup Flag("CF", Bit(d, s - 1))
                    \cup Flag("OF", s = 1 /\ XOR2(w, Bits(w, r))))]
shr(w, f, d, s) ==
  IF w = BYTE /\ s >= w
  THEN ShiftedOut(f, Flag("CF", Bit(d, (s - 1) % LONG)), {"PF"})
  ELSE shrd(w, f, d, 0, s)

\* The count is taken modulo the width, so the branch that fills never runs.
sar(w, f, d, s) ==
  LET n == s % w IN
  IF n = 0 THEN [val |-> d, f |-> f]
  ELSE LET r == (Signed(w, d) \div 2^n) % 2^w
       IN  [val |-> r,
            f |-> Set(f, ZSP \cup {"CF"},
                      ResultFlags(w, r) \cup Flag("CF", Bit(d, n - 1)))]

-----------------------------------------------------------------------------
\* Decimal adjustments: a nibble is a digit.
NINE == RADIX - 1
SIX == 2^NIBBLE - RADIX
Digit(x) == x % 2^NIBBLE

\* AAA adds to the two bytes of AX at once, AAS subtracts from them.
AsciiAdjusted(f, d, delta) ==
  LET fix == Digit(d) > NINE \/ "AF" \in f
      x == (IF fix THEN d + delta * (SIX + 2^BYTE) ELSE d) % 2^WORD
      r == (x \div 2^BYTE) * 2^BYTE + Digit(x)
  IN  [val |-> r,
       f |-> Set(f, ZSP \cup {"AF", "CF"}, (ResultFlags(WORD, r) \ {"SF"})
                 \cup (IF fix THEN {"AF", "CF"} ELSE {}))]

aaa(f, d) == AsciiAdjusted(f, d, 1)
aas(f, d) == AsciiAdjusted(f, d, -1)

aad(f, d) ==
  LET r == ((d % 2^BYTE) + RADIX * (d \div 2^BYTE)) % 2^BYTE
  IN  [val |-> r, f |-> Set(f, ARITH, ResultFlags(BYTE, r))]

\* AAM takes ZF from the whole of AX.
aam(f, d) ==
  LET r == (d % RADIX) + (d \div RADIX) * 2^BYTE
  IN  [val |-> r,
       f |-> Set(f, ARITH, (ResultFlags(BYTE, r % 2^BYTE) \ {"ZF"}) \cup Flag("ZF", r = 0))]

\* Mutant of daa: the carry of the addition is forgotten.
daa_fresh(f, d) ==
  LET low == Digit(d) > NINE \/ "AF" \in f
      x == IF low THEN d + SIX ELSE d
      high == x \div 2^NIBBLE > NINE
      r == (IF high THEN x + SIX * 2^NIBBLE ELSE x) % 2^BYTE
  IN  [val |-> r,
       f |-> Set(f, ZSP \cup {"AF", "CF"}, ResultFlags(BYTE, r)
                 \cup Flag("AF", low) \cup Flag("CF", high))]

\* The second digit is looked at after the first was adjusted.
daa(f, d) ==
  LET low == Digit(d) > NINE \/ "AF" \in f
      x == IF low THEN d + SIX ELSE d
      high == x \div 2^NIBBLE > NINE \/ "CF" \in f
      r == (IF high THEN x + SIX * 2^NIBBLE ELSE x) % 2^BYTE
  IN  [val |-> r,
       f |-> Set(f, ZSP \cup {"AF", "CF"}, ResultFlags(BYTE, r)
                 \cup Flag("AF", low) \cup Flag("CF", high))]

\* Mutant of das: the high digit is adjusted for a half borrow.
das_half(f, d) ==
  LET low == Digit(d) > NINE \/ "AF" \in f
      x == (IF low THEN d - SIX ELSE d) % 2^BYTE
      high == x \div 2^NIBBLE > NINE \/ low
      r == (IF high THEN x - SIX * 2^NIBBLE ELSE x) % 2^BYTE
  IN  [val |-> r,
       f |-> Set(f, ZSP \cup {"AF", "CF"}, ResultFlags(BYTE, r)
                 \cup Flag("AF", low) \cup Flag("CF", high))]

das(f, d) ==
  LET low == Digit(d) > NINE \/ "AF" \in f
      x == (IF low THEN d - SIX ELSE d) % 2^BYTE
      high == x \div 2^NIBBLE > NINE \/ "CF" \in f
      r == (IF high THEN x - SIX * 2^NIBBLE ELSE x) % 2^BYTE
  IN  [val |-> r,
       f |-> Set(f, ZSP \cup {"AF", "CF"}, ResultFlags(BYTE, r)
                 \cup Flag("AF", low) \cup Flag("CF", high))]

-----------------------------------------------------------------------------

\* Products and quotients: the low half of the result, in the accumulator,
\* and the high half, in AH, DX or EDX.
Product(f, lo, hi, fits) ==
  [lo |-> lo, hi |-> hi, f |-> Set(f, {"CF", "OF"}, IF fits THEN {} ELSE {"CF", "OF"})]

\* The long products are put together from those of the halves, the sum of
\* the two in the middle in one long.
HalvesProduct(a, b) ==
  LET H == 2^WORD
      low == (a % H) * (b % H)
      middle == ((a \div H) * (b % H) + (a % H) * (b \div H) + low \div H) % 2^LONG
  IN  [lo |-> (middle % H) * H + (low % H),
       hi |-> (a \div H) * (b \div H) + middle \div H]

mul_long(a, b) == HalvesProduct(a, b)
mul(w, f, a, s) ==
  LET p == IF w = LONG THEN mul_long(a, s)
           ELSE [lo |-> (a * s) % 2^w, hi |-> (a * s) \div 2^w]
  IN  Product(f, p.lo, p.hi, p.hi = 0)

Magnitude(w, x) == IF Sign(w, x) THEN 2^w - x ELSE x

\* The product of the magnitudes, negated when the signs differ.
imul_long_direct(a, b) ==
  LET p == HalvesProduct(Magnitude(LONG, a), Magnitude(LONG, b))
  IN  IF Sign(LONG, a) = Sign(LONG, b) THEN p
      ELSE [lo |-> (- p.lo) % 2^LONG,
            hi |-> (2^LONG - 1 - p.hi + (IF p.lo = 0 THEN 1 ELSE 0)) % 2^LONG]

\* All three compare the high half with 0xFF, which is all ones in AH only.
imul(w, f, a, s) ==
  LET product == Signed(w, a) * Signed(w, s)
      p == IF w = LONG THEN imul_long_direct(a, s)
           ELSE [lo |-> product % 2^w, hi |-> (product \div 2^w) % 2^w]
  IN  Product(f, p.lo, p.hi, IF Sign(w, p.lo) THEN p.hi = 2^BYTE - 1 ELSE p.hi = 0)

\* The quotient and the remainder, or a divide error.
Fault == [ok |-> FALSE]

Quotient(w, f, q, r) == [ok |-> TRUE, lo |-> q % 2^w, hi |-> r % 2^w, f |-> f]

\* div_byte touches no flag, div_word these.
WordFlags(f, q, r) ==
  Set(f, {"CF", "SF", "ZF", "PF"}, Flag("ZF", q = 0) \cup (ResultFlags(LONG, r) \cap {"PF"}))
LongFlags(f, r) ==
  Set(f, {"CF", "AF", "SF", "ZF", "PF"}, {"ZF"} \cup (ResultFlags(LONG, r) \cap {"PF"}))

\* The long divisions: s, shifted left by k = start .. 0, is subtracted from
\* h:l where it fits; a quotient of LONG bits, and what is left of h and l.
LongDivision(h, l, s, start) ==
  LET Step(x, k) ==
        LET ls == IF k = LONG THEN 0 ELSE Shifted(LONG, s, k)
            hs == s \div 2^(LONG - k) + (IF x.l >= ls THEN 0 ELSE 1)
        IN  IF x.h < hs THEN [x EXCEPT !.q = (2 * @) % 2^LONG]
            ELSE [h |-> x.h - hs, l |-> (x.l - ls) % 2^LONG, q |-> (2 * x.q + 1) % 2^LONG]
      done[n \in 0 .. start + 1] ==
        IF n = 0 THEN [h |-> h, l |-> l, q |-> 0] ELSE Step(done[n - 1], start + 1 - n)
  IN  done[start + 1]

div_long(f, h, l, s) ==
  LET x == LongDivision(h, l, s, LONG)
  IN  IF s = 0 \/ x.h # 0 \/ x.l > s THEN Fault
      ELSE Quotient(LONG, LongFlags(f, x.l), x.q, x.l)

\* The long division does not know its limit: it takes sign bits off, divides
\* and puts bit 28 in as the sign.
idiv_long(f, h, l, s) ==
  LET TOP == 2^(LONG - 1)
      x == LongDivision(h % TOP, l, s % TOP, LONG - 1)
      sign == IF Bit(h, LONG - 4) # Bit(s, LONG - 4) THEN {LONG - 4} ELSE {}
  IN  IF s = 0 \/ x.h # 0 \/ x.l > s % TOP THEN Fault
      ELSE Quotient(LONG, LongFlags(f, x.l), Value(Bits(LONG, x.q) \cup sign), x.l)

\* The quotient goes through abs(), so as a signed number of 32 bits.
div(w, f, h, l, s) ==
  LET dvd == h * 2^w + l
      q == dvd \div s
      abs == IF Sign(LONG, q) THEN 2^LONG - q ELSE q
  IN  IF w = LONG THEN div_long(f, h, l, s)
      ELSE IF s = 0 \/ abs > 2^w - 1 THEN Fault
      ELSE Quotient(w, IF w = BYTE THEN f ELSE WordFlags(f, q, dvd % s), q, dvd % s)

\* Mutant of idiv: the quotient is rounded down.
idiv_floor(w, f, h, l, s) ==
  LET dvd == Signed(2 * w, h * 2^w + l)
      dvs == Signed(w, s)
      q == IF dvs > 0 THEN dvd \div dvs ELSE (- dvd) \div (- dvs)
  IN  IF s = 0 \/ q > 2^(w - 1) - 1 \/ q < 1 - 2^(w - 1) THEN Fault
      ELSE Quotient(w, f, q, dvd - q * dvs)

\* C rounds to zero; the remainder has the sign of the dividend.
\* Of a word, the smallest dividend over -1 has no defined quotient in C, nor
\* has abs of the smallest number; both stand here for a divide error, and no
\* program or number of the runs comes to them (a dividend of bytes does not).
idiv(w, f, h, l, s) ==
  LET dvd == Signed(2 * w, h * 2^w + l)
      dvs == Signed(w, s)
      abs(x) == IF x < 0 THEN - x ELSE x
      q == (abs(dvd) \div abs(dvs)) * (IF (dvd < 0) = (dvs < 0) THEN 1 ELSE -1)
      r == dvd - q * dvs
  IN  IF w = LONG THEN idiv_long(f, h, l, s)
      ELSE IF s = 0 \/ abs(q) > 2^(w - 1) - 1 THEN Fault
      ELSE Quotient(w, IF w = BYTE THEN f ELSE WordFlags(f, q, r % 2^BYTE), q, r)
=============================================================================
