----------------------------- MODULE X86Numbers -----------------------------
(***************************************************************************)
(* Numbers computed with the primitives of X86Alu, the way a program on    *)
(* the emulated processor does it: numbers of several bytes by one         *)
(* instruction for each byte, which takes the carry the last one left in   *)
(* the flags; shifts by a count beside the same instruction done bit by    *)
(* bit; products and quotients undone by one another.  No single call of a *)
(* primitive shows whether what it leaves is what the next one needs; the  *)
(* loop invariants here do.                                                *)
(***************************************************************************)
EXTENDS X86Alu, Sequences

CONSTANTS
  Limbs,         \* how many bytes a long number has
  Binary,        \* the bytes of binary numbers
  Packed,        \* the bytes of packed decimal numbers, two digits each
  Unpacked,      \* the bytes of unpacked decimal numbers, a digit each
  Widths,        \* of the operands of shifts
  MaxCount,      \* bound: the largest count of a shift
  Factors        \* what is multiplied and divided, and by what

ASSUME NumberAssumption ==
  /\ Limbs \in Nat \ {0}
  /\ Binary \cup Packed \cup Factors \subseteq 0 .. 2^BYTE - 1
  /\ \A x \in Packed : x % 2^NIBBLE < RADIX /\ x \div 2^NIBBLE < RADIX
  /\ Unpacked \subseteq 0 .. RADIX - 1
  /\ Widths \subseteq {BYTE, WORD, LONG}
  /\ MaxCount \in 0 .. 2^8 - 1

\* Arithmetic that holds of all powers, as PowerAssumption in X86Alu.
ASSUME LimbAssumption ==
  /\ \A base \in {2^BYTE, RADIX^2, RADIX} :
       base^0 = 1 /\ \A k \in 1 .. Limbs : base^k \in Nat \ {0} /\ base^k = base^(k - 1) * base
  /\ RADIX^2 = RADIX * RADIX
  /\ \A k \in 0 .. Limbs : 2^(BYTE * k) = (2^BYTE)^k
  /\ 2^(BYTE * Limbs - 1) \in Nat /\ 2 * 2^(BYTE * Limbs - 1) = 2^(BYTE * Limbs)

VARIABLES
  op, w,         \* what is computed, and the width of an instruction
  given,         \* the operands, and the flags at the start
  have,          \* what has become of them
  f,             \* the flags
  n              \* instructions done

vars == <<op, w, given, have, f, n>>

Carrying == {"add", "sub", "twice", "half"}
Decimals == {"daa", "das", "aaa", "aas"}
Rotations == {"rol", "ror", "rcl", "rcr"}
Doubles == {"shld", "shrd"}
Shifts == Rotations \cup {"shl", "shr", "sar"} \cup Doubles
Undoing == {"div", "idiv", "mul", "imul", "aam"}

Numbers(S) == [1 .. Limbs -> S]
Zero == [k \in 1 .. Limbs |-> 0]

-----------------------------------------------------------------------------
\* Long numbers: given has the operands a and b and have the result, as far
\* as it is computed, all lowest byte first.
Operands ==
  CASE op \in Carrying -> Numbers(Binary)
    [] op \in {"daa", "das"} -> Numbers(Packed)
    [] op \in {"aaa", "aas"} -> Numbers(Unpacked)

InitLong ==
  /\ op \in Carrying \cup Decimals /\ w = BYTE
  /\ \E a \in Operands, b \in (IF op \in {"twice", "half"} THEN {Zero} ELSE Operands) :
       given = [a |-> a, b |-> b]
  /\ have = Zero /\ f = {}

\* The byte the next instruction works on: right shifts start at the top.
At == IF op = "half" THEN Limbs - n ELSE n + 1
A == given.a[At]
B == given.b[At]

Done(x) ==
  /\ have' = [have EXCEPT ![At] = x.val % 2^BYTE]
  /\ f' = x.f
  /\ n' = n + 1
  /\ UNCHANGED <<op, w, given>>

Add == op = "add" /\ n < Limbs /\ Done(adc(BYTE, f, A, B))
Sub == op = "sub" /\ n < Limbs /\ Done(sbb(BYTE, f, A, B))
Twice == op = "twice" /\ n < Limbs /\ Done(rcl(BYTE, f, A, 1))
Half == op = "half" /\ n < Limbs /\ Done(rcr(BYTE, f, A, 1))
AddPacked ==
  /\ op = "daa" /\ n < Limbs
  /\ LET x == adc(BYTE, f, A, B) IN Done(daa(x.f, x.val))
SubPacked ==
  /\ op = "das" /\ n < Limbs
  /\ LET x == sbb(BYTE, f, A, B) IN Done(das(x.f, x.val))
\* AH is whatever it was, here 0, and only AL is stored.
AddUnpacked ==
  /\ op = "aaa" /\ n < Limbs
  /\ LET x == adc(BYTE, f, A, B) IN Done(aaa(x.f, x.val))
SubUnpacked ==
  /\ op = "aas" /\ n < Limbs
  /\ LET x == sbb(BYTE, f, A, B) IN Done(aas(x.f, x.val))

-----------------------------------------------------------------------------
\* Shifts: given is the operand d and the bits fill that a double shift
\* shifts in, have the same after n steps by one.
Shift(o, flags, x, count) ==
  CASE o = "rol" -> rol(w, flags, x.d, count)
    [] o = "ror" -> ror(w, flags, x.d, count)
    [] o = "rcl" -> rcl(w, flags, x.d, count)
    [] o = "rcr" -> rcr(w, flags, x.d, count)
    [] o = "shl" -> shl(w, flags, x.d, count)
    [] o = "shr" -> shr(w, flags, x.d, count)
    [] o = "sar" -> sar(w, flags, x.d, count)
    [] o = "shld" -> shld(w, flags, x.d, x.fill, count)
    [] o = "shrd" -> shrd(w, flags, x.d, x.fill, count)

InitShift ==
  /\ op \in Shifts /\ w \in Widths
  /\ op \in Doubles => w # BYTE
  /\ f \in {{}, ARITH}
  /\ \E d \in 0 .. 2^w - 1,
        fill \in (IF op \in Doubles THEN {0, 1, 2^(w - 1), 2^w - 2} ELSE {0}) :
       /\ given = [d |-> d, fill |-> fill, f |-> f]
       /\ have = [d |-> d, fill |-> fill]

\* One more step by one; a double shift takes its bit from the end of fill
\* that is next.
ShiftByOne ==
  /\ op \in Shifts /\ n < MaxCount
  /\ LET x == Shift(op, f, have, 1)
         rest == IF op = "shld" THEN shl(w, {}, have.fill, 1) ELSE shr(w, {}, have.fill, 1)
     IN  have' = [d |-> x.val, fill |-> rest.val] /\ f' = x.f
  /\ n' = n + 1
  /\ UNCHANGED <<op, w, given>>

-----------------------------------------------------------------------------
\* Products and quotients: given is the register pair hi:lo and the operand s
\* of the instruction, have the pair, and fault a divide error.
InitUndo ==
  /\ op \in Undoing /\ w = BYTE /\ f \in {{}, ARITH}
  /\ given \in [hi : Factors, lo : Factors, s : Factors]
  /\ have = [hi |-> given.hi, lo |-> given.lo, fault |-> FALSE]

Became(hi, lo, fault, flags) ==
  /\ have' = [hi |-> hi, lo |-> lo, fault |-> fault]
  /\ f' = flags /\ n' = n + 1
  /\ UNCHANGED <<op, w, given>>

Divide(q) ==
  IF q.ok THEN Became(q.hi, q.lo, FALSE, q.f) ELSE Became(have.hi, have.lo, TRUE, f)
Div == op = "div" /\ n = 0 /\ Divide(div(w, f, have.hi, have.lo, given.s))
IDiv == op = "idiv" /\ n = 0 /\ Divide(idiv(w, f, have.hi, have.lo, given.s))

\* quotient * s + remainder: MUL, ADD, ADC; a remainder has a sign for IMUL.
MultiplyBack(p, up) ==
  LET low == add(w, p.f, p.lo, have.hi)
      high == adc(w, low.f, p.hi, up)
  IN  Became(high.val, low.val, FALSE, high.f)
UnDiv ==
  /\ op = "div" /\ n = 1 /\ ~ have.fault
  /\ MultiplyBack(mul(w, f, have.lo, given.s), 0)
UnIDiv ==
  /\ op = "idiv" /\ n = 1 /\ ~ have.fault
  /\ MultiplyBack(imul(w, f, have.lo, given.s), IF Sign(w, have.hi) THEN 2^w - 1 ELSE 0)

Multiply(p) == Became(p.hi, p.lo, FALSE, p.f)
Mul == op = "mul" /\ n = 0 /\ Multiply(mul(w, f, have.lo, given.s))
IMul == op = "imul" /\ n = 0 /\ Multiply(imul(w, f, have.lo, given.s))

\* AAM splits AL into AH and AL, AAD puts them together again.
AX(x) == Became(x.val \div 2^BYTE, x.val % 2^BYTE, FALSE, x.f)
Split == op = "aam" /\ n = 0 /\ AX(aam(f, have.lo))
Join == op = "aam" /\ n = 1 /\ AX(aad(f, have.hi * 2^BYTE + have.lo))

-----------------------------------------------------------------------------
Init == n = 0 /\ (InitLong \/ InitShift \/ InitUndo)

Next ==
  \/ Add \/ Sub \/ Twice \/ Half
  \/ AddPacked \/ SubPacked \/ AddUnpacked \/ SubUnpacked
  \/ ShiftByOne
  \/ Div \/ IDiv \/ UnDiv \/ UnIDiv \/ Mul \/ IMul \/ Split \/ Join

Spec == Init /\ [][Next]_vars

-----------------------------------------------------------------------------
\* The number in the limbs done of x, when a limb counts to base.
Number(base, x) ==
  LET upto[k \in 0 .. Limbs] == IF k = 0 THEN 0 ELSE upto[k - 1] + x[k] * base^(k - 1)
  IN  upto[n]

CF == One(f, "CF")

\* r and the carry are the sum or the difference of x and y, so far.
SumOf(base, r, x, y) == Number(base, r) + CF * base^n = Number(base, x) + Number(base, y)
DifferenceOf(base, r, x, y) ==
  Number(base, r) - CF * base^n = Number(base, x) - Number(base, y)

\* The signed sum or difference of the whole numbers.
SignedResult ==
  LET x == Signed(BYTE * Limbs, Number(2^BYTE, given.a))
      y == Signed(BYTE * Limbs, Number(2^BYTE, given.b))
  IN  IF op = "add" THEN x + y ELSE x - y

\* ADC, ADC .. and SBB, SBB ..: what is computed and the carry are the sum and
\* the difference, whatever the bytes; after the last byte OF says whether the
\* signed result has no room, and SF is its sign unless it has.  RCL through
\* all bytes doubles a number, RCR from the top halves it, and the bit that
\* falls out is in the carry (adc_byte, sbb_byte with its chain of bit
\* operations, rcl_byte, rcr_byte).
LongNumbers ==
  /\ op = "add" => SumOf(2^BYTE, have, given.a, given.b)
  /\ op = "sub" => DifferenceOf(2^BYTE, have, given.a, given.b)
  /\ op \in {"add", "sub"} /\ n = Limbs =>
       LET half == 2^(BYTE * Limbs - 1)
       IN  /\ ("OF" \in f) <=> SignedResult \notin - half .. half - 1
           /\ ("SF" \in f) <=> (SignedResult < 0) # ("OF" \in f)
  /\ op = "twice" => Number(2^BYTE, have) + CF * 2^(BYTE * n) = 2 * Number(2^BYTE, given.a)
  /\ op = "half" /\ n = Limbs => 2 * Number(2^BYTE, have) + CF = Number(2^BYTE, given.a)

\* The decimal numbers that packed bytes stand for.
Digits(x) == [k \in 1 .. Limbs |-> (x[k] \div 2^NIBBLE) * RADIX + (x[k] % 2^NIBBLE)]

\* ADC with DAA after it adds packed decimal numbers and SBB with DAS subtracts
\* them, two digits a byte, with AAA and AAS a digit a byte: the carry to the
\* next byte is in the carry flag.  What AAM splits into digits AAD joins
\* (daa_byte, das_byte, aaa_word, aas_word, aam_word, aad_word).
DecimalNumbers ==
  /\ op = "daa" => SumOf(RADIX^2, Digits(have), Digits(given.a), Digits(given.b))
  /\ op = "das" => DifferenceOf(RADIX^2, Digits(have), Digits(given.a), Digits(given.b))
  /\ op = "aaa" => SumOf(RADIX, have, given.a, given.b)
  /\ op = "aas" => DifferenceOf(RADIX, have, given.a, given.b)
  /\ op = "aam" /\ n = 1 => have.lo < RADIX /\ RADIX * have.hi + have.lo = given.lo
  /\ op = "aam" /\ n = 2 => have.lo = given.lo /\ have.hi = 0

AtOnce == Shift(op, given.f, given, n)
Opposite == [rol |-> "ror", ror |-> "rol", rcl |-> "rcr", rcr |-> "rcl"]

\* A count at once is so many steps by one (the masks and splits of rol_* ..
\* shrd_*).  Below the width that goes for the carry too, and for the flags of
\* the result that shifts leave; beyond it the rotations go round as often as
\* it takes, and the shifts leave nothing.  SAR takes its count modulo the
\* width, and RCL of a long by 32 is different, see rcl.  What a rotation does
\* the other one undoes, and OF of a step by one tells that the sign changed.
\* A count of 0 leaves every flag alone, but that shifts that are not SAR clear
\* OF.
CountIsSteps ==
  op \in Shifts =>
    /\ n < w => /\ AtOnce.val = have.d /\ ("CF" \in AtOnce.f) = ("CF" \in f)
                /\ AtOnce.f \cap ZSP = f \cap ZSP
    /\ \/ AtOnce.val = have.d
       \/ op = "sar" \/ given.fill # 0 \/ (op = "rcl" /\ n % (w + 1) = LONG)
    /\ op \in Rotations /\ n < w =>
         Shift(Opposite[op], AtOnce.f, [d |-> AtOnce.val], n).val = given.d
    /\ n = 0 => AtOnce.f = given.f \ (IF op \in Rotations \cup {"sar"} THEN {} ELSE {"OF"})
    /\ n = 1 /\ op # "sar" => (("OF" \in f) <=> Sign(w, given.d) # Sign(w, have.d))

Magnitude_(x) == IF x < 0 THEN - x ELSE x
PairIs(h) == h.lo + h.hi * 2^w

DivisionUndone ==
  LET r == Signed(w, have.hi)
      s == Signed(w, given.s)
  IN  /\ op \in {"div", "idiv"} /\ n = 2 => have.hi = given.hi /\ have.lo = given.lo
      /\ op = "div" /\ n = 1 => have.fault = (given.hi >= given.s)
      /\ op = "div" /\ n = 1 /\ ~ have.fault => have.hi < given.s
      /\ op = "idiv" /\ n = 1 =>
           (have.fault <=> Magnitude_(Signed(2 * w, PairIs(given))) >= Magnitude_(s) * 2^(w - 1))
      /\ op = "idiv" /\ n = 1 /\ ~ have.fault =>
           Magnitude_(r) < Magnitude_(s) /\ (r # 0 => (r < 0) = Sign(w, given.hi))

ProductWhole ==
  LET product == Signed(w, given.lo) * Signed(w, given.s)
  IN  /\ op = "mul" /\ n = 1 =>
           PairIs(have) = given.lo * given.s /\ (("CF" \in f) <=> have.hi # 0)
      /\ op = "imul" /\ n = 1 =>
           Signed(2 * w, PairIs(have)) = product /\ (("CF" \in f) <=> Signed(w, have.lo) # product)
      /\ op \in {"mul", "imul"} /\ n = 1 => (("CF" \in f) <=> "OF" \in f)

\* MUL, ADD and ADC undo DIV, and IMUL, ADD and ADC undo IDIV; a remainder is
\* smaller than the divisor and has the sign of the dividend; a divide error
\* is raised when the quotient, or the magnitude of a signed one, has no room,
\* and only then (div_byte, idiv_byte).  A product is in hi:lo as a whole, with a sign for IMUL, and the
\* carry and the overflow tell whether the lower half alone is not (mul_byte,
\* imul_byte).
DivisionUndoesProduct == DivisionUndone /\ ProductWhole
=============================================================================
