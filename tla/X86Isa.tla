------------------------------- MODULE X86Isa -------------------------------
(***************************************************************************)
(* What data instructions promise: an instruction takes the numbers in its *)
(* operands, computes, and leaves the result in its destination and what   *)
(* it was in the flags.  There are no encodings, prefixes or addressing    *)
(* modes here.  Registers and memory are cells of a byte; an operand is a  *)
(* sequence of cells, its lowest byte first, or an immediate number.       *)
(***************************************************************************)
EXTENDS Integers, Sequences, FiniteSets, FiniteSetsExt

CONSTANTS BYTE, FlagNames

VARIABLES
  todo,          \* the instructions left
  store,         \* the byte in each cell
  flags          \* the flags that are on

vars == <<todo, store, flags>>

Number(s, x) ==
  IF "imm" \in DOMAIN x THEN x.imm
  ELSE MapThenSumSet(LAMBDA k : s[x.cells[k]] * 2^((k - 1) * BYTE), DOMAIN x.cells)
Width(x) == Len(x.cells) * BYTE
Holds(s, x, v) ==
  [k \in DOMAIN s |->
    IF \E i \in DOMAIN x.cells : x.cells[i] = k
    THEN (v \div 2^(((CHOOSE i \in DOMAIN x.cells : x.cells[i] = k) - 1) * BYTE)) % 2^BYTE
    ELSE s[k]]

Positive(w, v) == v % 2^w < 2^(w - 1)
AsSigned(w, v) == IF Positive(w, v) THEN v % 2^w ELSE (v % 2^w) - 2^w
BitsOf(v) == {i \in 0 .. 4 * BYTE - 1 : (v \div 2^i) % 2 = 1}
NumberOf(S) == MapThenSumSet(LAMBDA i : 2^i, S)
Carry == IF "CF" \in flags THEN 1 ELSE 0

-----------------------------------------------------------------------------
\* The exact results, before they are cut to the width; d and s are signed
\* numbers, unsigned ones or the digits below a half carry.
Sums(op, d, s) ==
  CASE op = "add" -> d + s          [] op = "adc" -> d + s + Carry
    [] op = "inc" -> d + 1          [] op = "neg" -> - d
    [] op = "dec" -> d - 1          [] op = "sbb" -> d - s - Carry
    [] op \in {"sub", "cmp"} -> d - s
Arithmetic == {"add", "adc", "inc", "neg", "dec", "sbb", "sub", "cmp"}

Logical == {"and", "or", "xor", "test"}
Logic(op, d, s) ==
  LET D == BitsOf(d)
      S == BitsOf(s)
  IN  NumberOf(CASE op = "or" -> D \cup S
                 [] op = "xor" -> (D \ S) \cup (S \ D)
                 [] OTHER -> D \cap S)

\* Operations that move numbers about and leave the flags alone.
Copying == {"mov", "mov_seg", "lseg", "movzx"}
Spreading == {"movsx", "cbw", "cwd"}
Moving == Copying \cup Spreading \cup {"not", "bswap"}
Move(op, w, v, d, s) ==
  CASE op \in Copying -> s
    [] op = "not" -> 2^w - 1 - d
    [] op \in Spreading -> AsSigned(v, s)
    [] op = "bswap" -> MapThenSumSet(
         LAMBDA k : ((s \div 2^(k * BYTE)) % 2^BYTE) * 2^((3 - k) * BYTE), 0 .. 3)

Shifting == {"shl", "shr", "sar"}
Shift(op, w, d, n) ==
  CASE op = "shl" -> d * 2^n  [] op = "shr" -> d \div 2^n
    [] op = "sar" -> AsSigned(w, d) \div 2^n
LastBit(op, w, d, n) ==
  IF op = "shl" THEN w - n \in BitsOf(d) ELSE n - 1 \in BitsOf(d)

\* Products and quotients of a pair of halves: the destination is the low half
\* with the high half behind it, of a quotient and of its remainder.
Multiplying == {"mul", "imul"}
Dividing == {"div", "idiv"}
Multiplied(op, h, d, s) ==
  IF op = "mul" THEN (d % 2^h) * s ELSE AsSigned(h, d) * AsSigned(h, s)
Divided(op, h, d, s) ==
  LET n == IF op = "div" THEN d ELSE AsSigned(2 * h, d)
      m == IF op = "div" THEN s ELSE AsSigned(h, s)
      size(x) == IF x < 0 THEN - x ELSE x
      q == size(n) \div size(m)
      quotient == IF (n < 0) = (m < 0) THEN q ELSE - q
  IN  (quotient % 2^h) + ((n - quotient * m) % 2^h) * 2^h

Testing == {"bt", "bts", "btr", "btc"}
Scanning == {"bsf", "bsr"}

-----------------------------------------------------------------------------
\* A step has these flags as they are said to be, and the untouched ones as
\* they were; the others, which no manual defines, may be anything.
Flagged(touched, said) ==
  \A n \in FlagNames :
    /\ n \in DOMAIN said => (n \in flags' <=> said[n])
    /\ n \notin touched \cup DOMAIN said => (n \in flags' <=> n \in flags)

\* Zero, sign and parity of a result.
Result(w, r) ==
  [ZF |-> r % 2^w = 0, SF |-> ~ Positive(w, r),
   PF |-> Cardinality(BitsOf(r % 2^BYTE)) % 2 = 0]
With(a, b) == [n \in DOMAIN a \cup DOMAIN b |-> IF n \in DOMAIN b THEN b[n] ELSE a[n]]
But(a, n) == [x \in DOMAIN a \ {n} |-> a[x]]

Compute(i, old) ==
  LET w == Width(i.dst)
      d == Number(old, i.dst)
      s == Number(old, i.src)
      Stored(v) == store' = Holds(old, i.dst, v % 2^w)
  IN  \/ /\ i.op \in Arithmetic
         /\ LET r == Sums(i.op, d, s)
                digit == Sums(i.op, d % 2^(BYTE \div 2), s % 2^(BYTE \div 2))
                signed == Sums(i.op, AsSigned(w, d), AsSigned(w, s))
                said == With(Result(w, r),
                  [OF |-> signed \notin - 2^(w - 1) .. 2^(w - 1) - 1,
                   AF |-> digit \notin 0 .. 2^(BYTE \div 2) - 1,
                   CF |-> r \notin 0 .. 2^w - 1])
            IN  /\ IF i.op = "cmp" THEN UNCHANGED store ELSE Stored(r)
                /\ Flagged({}, IF i.op \in {"inc", "dec"} THEN But(said, "CF") ELSE said)
      \/ /\ i.op \in Logical
         /\ LET r == Logic(i.op, d, s)
            IN  /\ IF i.op = "test" THEN UNCHANGED store ELSE Stored(r)
                /\ Flagged({"AF"}, With(Result(w, r), [CF |-> FALSE, OF |-> FALSE]))
      \/ /\ i.op \in Moving
         /\ Stored(Move(i.op, w, IF i.op \in Spreading THEN Width(i.src) ELSE w, d, s))
         /\ UNCHANGED flags
      \/ /\ i.op = "times"
         /\ LET r == AsSigned(w, d) * AsSigned(w, s)
                wide == r \notin - 2^(w - 1) .. 2^(w - 1) - 1
            IN  Stored(r) /\ Flagged({"PF", "AF", "ZF", "SF"}, [CF |-> wide, OF |-> wide])
      \/ /\ i.op = "xchg"
         /\ store' = Holds(Holds(old, i.dst, s), i.src, d)
         /\ UNCHANGED flags
      \/ /\ i.op \in Shifting
         /\ Stored(Shift(i.op, w, d, s))
         /\ Flagged({"AF", "OF"}, With(Result(w, Shift(i.op, w, d, s)),
                                       [CF |-> LastBit(i.op, w, d, s)]))
      \/ /\ i.op \in Multiplying
         /\ LET h == Width(i.src)
                r == Multiplied(i.op, h, d, s)
                wide == IF i.op = "mul" THEN r >= 2^h ELSE r # AsSigned(h, r)
            IN  Stored(r) /\ Flagged({"PF", "AF", "ZF", "SF"}, [CF |-> wide, OF |-> wide])
      \/ /\ i.op \in Dividing
         /\ Stored(Divided(i.op, Width(i.src), d, s))
         /\ Flagged(FlagNames, [n \in {} |-> FALSE])
      \/ /\ i.op \in Testing
         /\ LET D == BitsOf(d)
                b == {s % w}
            IN  /\ CASE i.op = "bt" -> UNCHANGED store
                     [] i.op = "bts" -> Stored(NumberOf(D \cup b))
                     [] i.op = "btr" -> Stored(NumberOf(D \ b))
                     [] i.op = "btc" -> Stored(NumberOf((D \ b) \cup (b \ D)))
                /\ Flagged({"PF", "AF", "SF", "OF"},
                           [CF |-> b \subseteq D, ZF |-> "ZF" \in flags])
      \/ /\ i.op \in Scanning
         /\ IF s # 0 THEN Stored(IF i.op = "bsf" THEN Min(BitsOf(s)) ELSE Max(BitsOf(s)))
            ELSE \E v \in {0, w} : Stored(v)
         /\ Flagged({"CF", "PF", "AF", "SF", "OF"}, [ZF |-> s = 0])

Step ==
  /\ todo # <<>> /\ todo' = Tail(todo)
  /\ \E old \in {store} : Compute(Head(todo), old)

Spec == [][Step]_vars
=============================================================================
