---------------------------- MODULE X86AluProofs ----------------------------
(***************************************************************************)
(* What the primitives of X86Alu do to bytes of every width: sums with     *)
(* their carry, products and quotients, signed and not.  The programs of   *)
(* X86NumbersProofs are made of these.                                     *)
(***************************************************************************)
EXTENDS X86Alu, TLAPS

Base == 2^BYTE
Top == 2^(BYTE - 1)
Byte == 0 .. Base - 1

LEMMA Powers ==
  /\ BYTE \in Nat /\ BYTE > 0
  /\ Base \in Nat /\ Top \in Nat /\ Top >= 1 /\ Base = 2 * Top
  /\ 2^WORD = Base * Base /\ 2^(WORD - 1) = Top * Base
  /\ 2^(LONG - 1) = (Top * Base) * (Base * Base)
<1>1. BYTE \in Nat /\ BYTE > 0 /\ LONG \in Nat /\ WORD = 2 * BYTE /\ LONG = 4 * BYTE
    BY WidthAssumption, PowerAssumption DEF WORD, LONG
<1> HIDE DEF WORD, LONG
<1>2. \A a, b \in Nat : a + b <= LONG =>
         2^a \in Nat /\ 2^a >= 1 /\ 2^(a + b) = 2^a * 2^b
  <2> SUFFICES ASSUME NEW a \in Nat, NEW b \in Nat, a + b <= LONG
               PROVE  2^a \in Nat /\ 2^a >= 1 /\ 2^(a + b) = 2^a * 2^b
      OBVIOUS
  <2>1. a \in 0 .. LONG /\ b \in 0 .. LONG - a
      BY <1>1
  <2> QED BY <2>1, PowerAssumption
<1>3. 2^1 = 2
    BY PowerAssumption
<1>4. Top \in Nat /\ Top >= 1 /\ 2^((BYTE - 1) + 1) = Top * 2^1
  <2>1. BYTE - 1 \in Nat /\ 1 \in Nat /\ (BYTE - 1) + 1 <= LONG
      BY <1>1
  <2> QED BY <2>1, <1>2 DEF Top
<1>5. Base = 2 * Top
  <2>1. (BYTE - 1) + 1 = BYTE
      BY <1>1
  <2> QED BY <2>1, <1>3, <1>4 DEF Base
<1>6. 2^(BYTE + BYTE) = Base * Base
    BY <1>1, <1>2 DEF Base
<1>7. 2^((BYTE - 1) + BYTE) = Top * Base
    BY <1>1, <1>2 DEF Base, Top
<1>8. WORD = BYTE + BYTE /\ WORD - 1 = (BYTE - 1) + BYTE /\ LONG - 1 = (WORD - 1) + WORD
    BY <1>1
<1>9. 2^((WORD - 1) + WORD) = 2^(WORD - 1) * 2^WORD
    BY <1>1, <1>2
<1> QED BY <1>1, <1>4, <1>5, <1>6, <1>7, <1>8, <1>9

\* Division and its rest, and that there is but one of them.
LEMMA DivMod ==
  ASSUME NEW x \in Int, NEW m \in Nat, m >= 1
  PROVE  x \div m \in Int /\ x % m \in 0 .. m - 1 /\ x = m * (x \div m) + (x % m)
OBVIOUS

LEMMA Splits ==
  ASSUME NEW x \in Int, NEW m \in Nat, m >= 1
  PROVE  \E q \in Int, t \in 0 .. m - 1 : x \div m = q /\ x % m = t /\ x = m * q + t
BY DivMod

LEMMA OneQuotient ==
  ASSUME NEW m \in Nat, m >= 1, NEW p \in Int, NEW q \in Int,
         NEW r \in 0 .. m - 1, NEW t \in 0 .. m - 1, m * p + r = m * q + t
  PROVE  p = q /\ r = t
<1>1. m * (p - q) = t - r
    OBVIOUS
<1>2. CASE p - q >= 1
  <2>1. m * (p - q) >= m
      BY <1>2
  <2> QED BY <1>1, <2>1
<1>3. CASE p - q <= -1
  <2>1. m * (p - q) <= - m
      BY <1>3
  <2> QED BY <1>1, <2>1
<1>4. CASE p = q
    BY <1>1, <1>4
<1> QED BY <1>2, <1>3, <1>4

LEMMA DivUnique ==
  ASSUME NEW m \in Nat, m >= 1, NEW q \in Int, NEW r \in 0 .. m - 1
  PROVE  (m * q + r) \div m = q /\ (m * q + r) % m = r
<1> DEFINE x == m * q + r
<1>1. x \in Int
    OBVIOUS
<1> HIDE DEF x
<1>2. x \div m \in Int /\ x % m \in 0 .. m - 1 /\ x = m * (x \div m) + (x % m)
    BY <1>1, DivMod
<1>3. x = m * q + r
    BY DEF x
<1>4. PICK p \in Int, t \in 0 .. m - 1 : x \div m = p /\ x % m = t /\ x = m * p + t
    BY <1>2
<1>5. m * p + t = m * q + r
    BY <1>3, <1>4
<1>6. p = q /\ t = r
    BY <1>5, OneQuotient
<1> QED BY <1>4, <1>6 DEF x

-----------------------------------------------------------------------------
\* The sign bit of a byte and of a word is that the number is in the upper half.
LEMMA UpperHalf ==
  ASSUME NEW x \in Nat, NEW h \in Nat, h >= 1, x < 2 * h
  PROVE  (x \div h) % 2 = 1 <=> x >= h
<1>1. CASE x >= h
  <2>1. x = h * 1 + (x - h) /\ x - h \in 0 .. h - 1
      BY <1>1
  <2>2. x \div h = 1
    <3>1. (h * 1 + (x - h)) \div h = 1
        BY <2>1, DivUnique
    <3> QED BY <2>1, <3>1
  <2> QED BY <1>1, <2>2
<1>2. CASE x < h
  <2>1. x = h * 0 + x /\ x \in 0 .. h - 1
      BY <1>2
  <2>2. x \div h = 0
    <3>1. (h * 0 + x) \div h = 0
        BY <2>1, DivUnique
    <3> QED BY <2>1, <3>1
  <2> QED BY <1>2, <2>2
<1> QED BY <1>1, <1>2

LEMMA SignOfByte ==
  ASSUME NEW x \in 0 .. Base - 1
  PROVE  /\ Sign(BYTE, x) <=> x >= Top
         /\ Signed(BYTE, x) = IF x >= Top THEN x - Base ELSE x
         /\ Signed(BYTE, x) \in - Top .. Top - 1
<1>1. x < 2 * Top /\ x \in Nat
    BY Powers
<1>2. (x \div Top) % 2 = 1 <=> x >= Top
    BY <1>1, Powers, UpperHalf
<1>3. Sign(BYTE, x) <=> x >= Top
    BY <1>2 DEF Sign, Bit, Top
<1>4. Signed(BYTE, x) = IF x >= Top THEN x - Base ELSE x
    BY <1>3 DEF Signed, Base
<1> QED BY <1>1, <1>3, <1>4, Powers

LEMMA SignOfWord ==
  ASSUME NEW x \in Nat, x < Base * Base
  PROVE  /\ Sign(WORD, x) <=> x >= Top * Base
         /\ Signed(WORD, x) = IF x >= Top * Base THEN x - Base * Base ELSE x
<1> DEFINE h == Top * Base
<1>1. h \in Nat /\ h >= 1 /\ Base * Base = 2 * h
    BY Powers
<1>2. 2^(WORD - 1) = h /\ 2^WORD = 2 * h
    BY <1>1, Powers
<1> HIDE DEF h
<1>3. (x \div h) % 2 = 1 <=> x >= h
    BY <1>1, UpperHalf
<1>4. Sign(WORD, x) <=> x >= h
    BY <1>2, <1>3 DEF Sign, Bit
<1>5. Signed(WORD, x) = IF x >= h THEN x - 2 * h ELSE x
    BY <1>2, <1>4 DEF Signed
<1> QED BY <1>1, <1>4, <1>5 DEF h

\* The quotient of a word is no negative long.
LEMMA NoSignOfLong ==
  ASSUME NEW x \in Nat, x < Base * Base
  PROVE  ~ Sign(LONG, x)
<1> DEFINE h == (Top * Base) * (Base * Base)
<1>1. h \in Nat /\ h >= 1 /\ x < h
  <2>1. Top * Base \in Nat /\ Top * Base >= 1 /\ Base * Base \in Nat
      BY Powers
  <2>2. h >= Base * Base
      BY <2>1
  <2> QED BY <2>1, <2>2
<1>2. 2^(LONG - 1) = h
    BY Powers
<1> HIDE DEF h
<1>3. (x \div h) % 2 = 1 <=> x >= h
    BY <1>1, UpperHalf
<1> QED BY <1>1, <1>2, <1>3 DEF Sign, Bit

\* A sum leaves its carry.
LEMMA AdcGives ==
  ASSUME NEW fl, NEW d \in 0 .. Base - 1, NEW s \in 0 .. Base - 1
  PROVE  LET x == adc(BYTE, fl, d, s)
             sum == d + s + One(fl, "CF")
         IN  /\ x.val = sum % Base /\ x.val \in 0 .. Base - 1
             /\ One(x.f, "CF") = IF sum >= Base THEN 1 ELSE 0
             /\ x.val + Base * One(x.f, "CF") = sum
<1> DEFINE x == adc(BYTE, fl, d, s)
           sum == d + s + One(fl, "CF")
<1>1. One(fl, "CF") \in {0, 1}
    BY DEF One
<1>2. sum \in 0 .. 2 * Base - 1 /\ Base \in Nat /\ Base >= 1
    BY <1>1, Powers
<1>3. x.val = sum % Base
    BY DEF adc, Result, Base
<1>4. "CF" \in x.f <=> sum >= Base
    BY Zenon DEF adc, Result, Base, Set, Flag, ResultFlags, ARITH
<1>5. One(x.f, "CF") = IF sum >= Base THEN 1 ELSE 0
    BY <1>4 DEF One
<1> HIDE DEF x, sum
<1>6. sum % Base = IF sum >= Base THEN sum - Base ELSE sum
    BY <1>2, DivUnique
<1> QED BY <1>2, <1>3, <1>5, <1>6 DEF x, sum

-----------------------------------------------------------------------------
\* A byte of a signed number that fits it stands for that number.
LEMMA SignedRest ==
  ASSUME NEW v \in - Top .. Top - 1
  PROVE  /\ v % Base \in 0 .. Base - 1
         /\ v % Base = IF v < 0 THEN v + Base ELSE v
         /\ Signed(BYTE, v % Base) = v
<1>1. Base \in Nat /\ Base >= 1 /\ Top \in Nat /\ Base = 2 * Top
    BY Powers
<1>2. v % Base = IF v < 0 THEN v + Base ELSE v
  <2>1. CASE v < 0
    <3>1. v = Base * (-1) + (v + Base) /\ v + Base \in 0 .. Base - 1
        BY <1>1, <2>1
    <3>2. (Base * (-1) + (v + Base)) % Base = v + Base
        BY <1>1, <3>1, DivUnique
    <3> QED BY <2>1, <3>1, <3>2
  <2>2. CASE v >= 0
    <3>1. v = Base * 0 + v /\ v \in 0 .. Base - 1
        BY <1>1, <2>2
    <3>2. (Base * 0 + v) % Base = v
        BY <1>1, <3>1, DivUnique
    <3> QED BY <2>2, <3>1, <3>2
  <2> QED BY <1>1, <2>1, <2>2
<1> DEFINE b == v % Base
<1>3. b \in 0 .. Base - 1 /\ b = IF v < 0 THEN v + Base ELSE v
    BY <1>1, <1>2
<1> HIDE DEF b
<1>4. Signed(BYTE, b) = IF b >= Top THEN b - Base ELSE b
    BY <1>3, SignOfByte
<1>5. Signed(BYTE, b) = v
    BY <1>1, <1>3, <1>4
<1> QED BY <1>3, <1>5 DEF b

\* A pair of bytes is known from the number they make, modulo two bytes.
LEMMA PairIsNumber ==
  ASSUME NEW a \in 0 .. Base - 1, NEW b \in 0 .. Base - 1,
         NEW l \in 0 .. Base - 1, NEW h \in 0 .. Base - 1, NEW e \in Int, NEW k \in Int,
         Base * (b + Base * e) + a = Base * (h + Base * k) + l
  PROVE  a = l /\ b = h
<1>1. Base \in Nat /\ Base >= 1
    BY Powers
<1> DEFINE be == Base * e
           bk == Base * k
<1>2. be \in Int /\ bk \in Int
    BY <1>1
<1> HIDE DEF be, bk
<1>3. Base * (b + be) + a = Base * (h + bk) + l
    BY DEF be, bk
<1>4. b + be \in Int /\ h + bk \in Int
    BY <1>2
<1>5. a = l /\ b + be = h + bk
    BY <1>1, <1>3, <1>4, OneQuotient
<1>6. Base * e + b = Base * k + h
    BY <1>1, <1>5 DEF be, bk
<1>7. b = h
    BY <1>1, <1>6, OneQuotient
<1> QED BY <1>5, <1>7

\* ADD and ADC add a pair of bytes to a pair.
LEMMA PairAdded ==
  ASSUME NEW fl, NEW lo \in Byte, NEW hi \in Byte, NEW rem \in Byte, NEW up \in Byte
  PROVE  LET low == add(BYTE, fl, lo, rem)
             high == adc(BYTE, low.f, hi, up)
         IN  /\ low.val \in Byte /\ high.val \in Byte
             /\ \E e \in Int :
                  Base * (high.val + Base * e) + low.val = lo + rem + Base * (hi + up)
<1> DEFINE low == add(BYTE, fl, lo, rem)
           high == adc(BYTE, low.f, hi, up)
           a == low.val
           b == high.val
           c == One(low.f, "CF")
           e == One(high.f, "CF")
<1>1. Base \in Nat /\ Base >= 1
    BY Powers
<1>2. One(fl \ {"CF"}, "CF") = 0
    BY DEF One
<1>3. a \in 0 .. Base - 1 /\ c \in {0, 1} /\ a + Base * c = lo + rem
  <2>1. LET sum == lo + rem + One(fl \ {"CF"}, "CF")
        IN  /\ a \in 0 .. Base - 1
            /\ c = IF sum >= Base THEN 1 ELSE 0
            /\ a + Base * c = sum
      BY AdcGives DEF add, Byte
  <2> QED BY <1>1, <1>2, <2>1 DEF Byte
<1>4. b \in 0 .. Base - 1 /\ e \in {0, 1} /\ b + Base * e = hi + up + c
    BY <1>1, <1>3, AdcGives DEF Byte
<1> HIDE DEF a, b, c, e, low, high
<1>5. Base * (b + Base * e) + a = lo + rem + Base * (hi + up)
  <2>1. Base * (b + Base * e) = Base * (hi + up) + Base * c
      BY <1>1, <1>3, <1>4 DEF Byte
  <2> QED BY <1>1, <1>3, <1>4, <2>1 DEF Byte
<1>6. /\ low.val \in Byte /\ high.val \in Byte
      /\ \E k \in Int : Base * (high.val + Base * k) + low.val = lo + rem + Base * (hi + up)
    BY <1>3, <1>4, <1>5 DEF a, b, Byte
<1> QED BY <1>6 DEF low, high

-----------------------------------------------------------------------------
\* What the instructions leave.
LEMMA BytesAreNoLongs == BYTE # LONG /\ 2 * BYTE = WORD
BY Powers DEF LONG, WORD

LEMMA MulGives ==
  ASSUME NEW fl, NEW a \in 0 .. Base - 1, NEW s \in 0 .. Base - 1
  PROVE  LET p == mul(BYTE, fl, a, s)
         IN  /\ p.lo \in 0 .. Base - 1 /\ p.hi \in 0 .. Base - 1
             /\ p.lo + p.hi * Base = a * s
             /\ "CF" \in p.f <=> p.hi # 0
             /\ "OF" \in p.f <=> p.hi # 0
<1> DEFINE p == mul(BYTE, fl, a, s)
           m == a * s
<1>1. Base \in Nat /\ Base >= 1 /\ m \in Nat
    BY Powers
<1>2. m < Base * Base
  <2>1. m <= (Base - 1) * s /\ (Base - 1) * s <= (Base - 1) * Base
      BY <1>1
  <2> QED BY <1>1, <2>1
<1>3. p.lo = m % Base /\ p.hi = m \div Base
    BY BytesAreNoLongs DEF mul, Product, Base
<1>4. /\ "CF" \in p.f <=> m \div Base # 0
      /\ "OF" \in p.f <=> m \div Base # 0
    BY BytesAreNoLongs DEF mul, Product, Base, Set
<1> HIDE DEF m, p
<1>5. p.lo \in 0 .. Base - 1 /\ p.hi \in Int /\ m = Base * p.hi + p.lo
    BY <1>1, <1>3, DivMod
<1> DEFINE x == p.lo
           y == p.hi
<1>6. x \in 0 .. Base - 1 /\ y \in Int /\ m = Base * y + x
    BY <1>5
<1> HIDE DEF x, y
<1>7. y \in 0 .. Base - 1
  <2>1. CASE y >= Base
    <3>1. Base * y >= Base * Base
        BY <1>1, <1>6, <2>1
    <3> QED BY <1>1, <1>2, <1>6, <3>1
  <2>2. CASE y <= -1
    <3>1. Base * y <= - Base
        BY <1>1, <1>6, <2>2
    <3> QED BY <1>1, <1>6, <3>1
  <2> QED BY <1>1, <1>6, <2>1, <2>2
<1>8. x + y * Base = m
    BY <1>1, <1>6
<1> QED BY <1>3, <1>4, <1>6, <1>7, <1>8 DEF x, y, m, p

LEMMA DivGives ==
  ASSUME NEW fl, NEW h \in 0 .. Base - 1, NEW l \in 0 .. Base - 1, NEW s \in 0 .. Base - 1
  PROVE  LET q == div(BYTE, fl, h, l, s)
         IN  /\ q.ok \in BOOLEAN /\ (q.ok <=> h < s)
             /\ q.ok => /\ q.lo \in 0 .. Base - 1 /\ q.hi \in 0 .. Base - 1 /\ q.hi < s
                        /\ q.lo * s + q.hi = h * Base + l
<1> DEFINE q == div(BYTE, fl, h, l, s)
           d == h * Base + l
<1>1. Base \in Nat /\ Base >= 1 /\ d \in Nat
    BY Powers
<1>2. CASE s = 0
  <2>1. q = Fault
      BY <1>2, BytesAreNoLongs DEF div
  <2>2. q.ok = FALSE /\ ~ (h < s)
      BY <1>1, <1>2, <2>1 DEF Fault
  <2> QED BY <2>2
<1>3. CASE s >= 1
  <2>1. d < Base * Base
    <3>1. h * Base <= (Base - 1) * Base
        BY <1>1
    <3> QED BY <1>1, <3>1
  <2> DEFINE x == d \div s
             r == d % s
  <2>2. x \in Int /\ r \in 0 .. s - 1 /\ d = s * x + r
      BY <1>1, <1>3, DivMod
  <2> HIDE DEF x, r
  <2>3. x \in Nat /\ x <= d
    <3>1. x >= 0
      <4>1. CASE x <= -1
        <5>1. s * x <= - s
            BY <1>3, <2>2, <4>1
        <5> QED BY <1>1, <2>2, <5>1
      <4> QED BY <2>2, <4>1
    <3>2. s * x >= x
        BY <1>3, <2>2, <3>1
    <3> QED BY <1>1, <2>2, <3>1, <3>2
  <2>4. ~ Sign(LONG, x)
      BY <1>1, <2>1, <2>3, NoSignOfLong
  <2>5. q = IF x > Base - 1 THEN Fault ELSE Quotient(BYTE, fl, x, r)
      BY <1>3, <2>4, BytesAreNoLongs DEF div, Base, x, r, d
  <2>6. x > Base - 1 <=> h >= s
    <3>1. CASE h >= s
      <4>1. h * Base >= s * Base
          BY <1>1, <3>1
      <4>2. CASE x <= Base - 1
        <5>1. s * x <= s * (Base - 1)
            BY <1>1, <1>3, <2>3, <4>2
        <5> QED BY <1>1, <1>3, <2>2, <4>1, <5>1
      <4> QED BY <1>1, <2>3, <3>1, <4>2
    <3>2. CASE h < s
      <4>1. h * Base <= (s - 1) * Base
          BY <1>1, <1>3, <3>2
      <4>2. CASE x > Base - 1
        <5>1. s * x >= s * Base
            BY <1>1, <1>3, <2>3, <4>2
        <5> QED BY <1>1, <1>3, <2>2, <4>1, <5>1
      <4> QED BY <1>1, <2>3, <3>2, <4>2
    <3> QED BY <3>1, <3>2
  <2>7. CASE h >= s
    <3>1. q = Fault
        BY <2>5, <2>6, <2>7
    <3> QED BY <2>7, <3>1 DEF Fault
  <2>8. CASE h < s
    <3>1. q = Quotient(BYTE, fl, x, r) /\ x \in 0 .. Base - 1 /\ r \in 0 .. Base - 1 /\ r < s
        BY <1>1, <2>2, <2>3, <2>5, <2>6, <2>8
    <3>2. x % Base = x /\ r % Base = r
        BY <1>1, <3>1
    <3>3. q.ok = TRUE /\ q.lo = x /\ q.hi = r
        BY <3>1, <3>2 DEF Quotient, Base
    <3>4. x * s + r = d
        BY <1>1, <2>2, <3>1
    <3> QED BY <2>8, <3>1, <3>3, <3>4
  <2> QED BY <2>7, <2>8
<1> QED BY <1>2, <1>3

LEMMA IMulGives ==
  ASSUME NEW fl, NEW a \in 0 .. Base - 1, NEW s \in 0 .. Base - 1
  PROVE  LET p == imul(BYTE, fl, a, s)
             product == Signed(BYTE, a) * Signed(BYTE, s)
         IN  /\ p.lo \in 0 .. Base - 1 /\ p.hi \in 0 .. Base - 1
             /\ \E k \in Int : p.lo + p.hi * Base = product + Base * Base * k
             /\ Signed(WORD, p.lo + p.hi * Base) = product
             /\ "CF" \in p.f <=> Signed(BYTE, p.lo) # product
             /\ "OF" \in p.f <=> Signed(BYTE, p.lo) # product
<1> DEFINE p == imul(BYTE, fl, a, s)
           u == Signed(BYTE, a)
           v == Signed(BYTE, s)
           m == u * v
           fits == IF Sign(BYTE, p.lo) THEN p.hi = Base - 1 ELSE p.hi = 0
<1>1. Base \in Nat /\ Base = 2 * Top /\ Top \in Nat /\ Top >= 1
    BY Powers
<1>2. u \in - Top .. Top - 1 /\ v \in - Top .. Top - 1
    BY SignOfByte
<1>3. p.lo = m % Base /\ p.hi = (m \div Base) % Base
    BY BytesAreNoLongs DEF imul, Product, Base
<1>4. /\ "CF" \in p.f <=> ~ fits
      /\ "OF" \in p.f <=> ~ fits
    BY BytesAreNoLongs DEF imul, Product, Base, Set
<1> HIDE DEF p, u, v
<1>5. m \in Int /\ - (Top * Top) <= m /\ m <= Top * Top
  <2>1. CASE u >= 0 /\ v >= 0
    <3>1. u * v <= Top * v /\ Top * v <= Top * Top /\ u * v >= 0
        BY <1>1, <1>2, <2>1
    <3> QED BY <1>1, <1>2, <3>1
  <2>2. CASE u < 0 /\ v < 0
    <3>1. (- u) * (- v) <= Top * (- v) /\ Top * (- v) <= Top * Top /\ (- u) * (- v) >= 0
        BY <1>1, <1>2, <2>2
    <3> QED BY <1>1, <1>2, <3>1
  <2>3. CASE u >= 0 /\ v < 0
    <3>1. u * (- v) <= Top * (- v) /\ Top * (- v) <= Top * Top /\ u * (- v) >= 0
        BY <1>1, <1>2, <2>3
    <3> QED BY <1>1, <1>2, <3>1
  <2>4. CASE u < 0 /\ v >= 0
    <3>1. (- u) * v <= Top * v /\ Top * v <= Top * Top /\ (- u) * v >= 0
        BY <1>1, <1>2, <2>4
    <3> QED BY <1>1, <1>2, <3>1
  <2> QED BY <1>1, <1>2, <2>1, <2>2, <2>3, <2>4
<1> HIDE DEF m
<1>6. PICK q \in Int : m = Base * q + p.lo /\ p.lo \in 0 .. Base - 1 /\ p.hi = q % Base
  <2>1. PICK q \in Int, t \in 0 .. Base - 1 : m \div Base = q /\ m % Base = t /\ m = Base * q + t
      BY <1>1, <1>5, Splits
  <2> QED BY <1>3, <2>1
<1>7. PICK j \in Int : q = Base * j + p.hi /\ p.hi \in 0 .. Base - 1
  <2>1. q \in Int /\ Base \in Nat /\ Base >= 1
      BY <1>1, <1>6
  <2>2. q \div Base \in Int /\ q % Base \in 0 .. Base - 1 /\ q = Base * (q \div Base) + (q % Base)
      BY ONLY <2>1, DivMod
  <2> QED BY <1>6, <2>2
<1> DEFINE x == p.lo
           y == p.hi
           w_ == x + y * Base
<1>8. x \in 0 .. Base - 1 /\ y \in 0 .. Base - 1 /\ m = Base * (Base * j + y) + x
    BY <1>6, <1>7
<1> HIDE DEF fits, x, y
<1>9. w_ \in Nat /\ w_ < Base * Base
  <2>1. y * Base <= (Base - 1) * Base
      BY <1>1, <1>8
  <2> QED BY <1>1, <1>8, <2>1
<1>10. m = w_ + (Base * Base) * j
    BY <1>1, <1>8
<1>11. Base * Base = 2 * (Top * Base) /\ Top * Base = 2 * (Top * Top) /\ Top * Top >= 1
    BY <1>1
<1> HIDE DEF w_
<1> DEFINE H == Top * Base
           T == Top * Top
<1>12. w_ = IF m >= 0 THEN m ELSE m + Base * Base
  <2>0. H \in Nat /\ T \in Nat /\ T >= 1 /\ H = 2 * T /\ Base * Base = 2 * H
        /\ m <= T /\ - T <= m
      BY <1>1, <1>5, <1>11
  <2> HIDE DEF H, T
  <2>1. m = w_ + (2 * H) * j /\ w_ < 2 * H
      BY <1>9, <1>10, <2>0
  <2>2. CASE j >= 1
    <3>1. (2 * H) * j >= 2 * H
        BY <2>0, <2>2
    <3> QED BY <1>5, <1>9, <2>0, <2>1, <3>1
  <2>3. CASE j <= -2
    <3>1. (2 * H) * j <= - (4 * H)
        BY <2>0, <2>3
    <3> QED BY <1>5, <1>9, <2>0, <2>1, <3>1
  <2>4. CASE j = 0
      BY <1>9, <2>0, <2>1, <2>4
  <2>5. CASE j = -1
      BY <1>5, <1>9, <2>0, <2>1, <2>5
  <2> QED BY <2>2, <2>3, <2>4, <2>5
<1>13. Signed(WORD, w_) = m
  <2>1. Signed(WORD, w_) = IF w_ >= Top * Base THEN w_ - Base * Base ELSE w_
      BY <1>9, SignOfWord
  <2>2. CASE m >= 0
      BY <1>1, <1>5, <1>11, <1>12, <2>1, <2>2
  <2>3. CASE m < 0
      BY <1>1, <1>5, <1>11, <1>12, <2>1, <2>3
  <2> QED BY <1>5, <2>2, <2>3
<1>14. fits <=> Signed(BYTE, x) = m
  <2>1. /\ Sign(BYTE, x) <=> x >= Top
        /\ Signed(BYTE, x) = IF x >= Top THEN x - Base ELSE x
      BY <1>8, SignOfByte
  <2>2. w_ = Base * y + x
      BY <1>1, <1>8 DEF w_
  <2>3. CASE x >= Top
    <3>1. fits <=> y = Base - 1
        BY <2>1, <2>3 DEF fits, x, y
    <3>2. ASSUME y = Base - 1 PROVE x - Base = m
      <4>1. w_ = Base * Base - Base + x
          BY <1>1, <1>8, <2>2, <3>2
      <4> QED BY <1>1, <1>5, <1>8, <1>11, <1>12, <4>1
    <3>3. ASSUME x - Base = m PROVE y = Base - 1
      <4>1. Base * y + x = Base * (Base - 1) + x
          BY <1>1, <1>8, <1>12, <2>2, <3>3
      <4> QED BY <1>1, <1>8, <4>1, OneQuotient
    <3> QED BY <2>1, <2>3, <3>1, <3>2, <3>3
  <2>4. CASE x < Top
    <3>1. fits <=> y = 0
        BY <1>1, <1>8, <2>1, <2>4 DEF fits, x, y
    <3>2. ASSUME y = 0 PROVE x = m
      <4>1. w_ = x
          BY <1>1, <1>8, <2>2, <3>2
      <4> QED BY <1>1, <1>5, <1>8, <1>11, <1>12, <2>4, <4>1
    <3>3. ASSUME x = m PROVE y = 0
      <4>1. Base * y + x = Base * 0 + x
          BY <1>1, <1>8, <1>12, <2>2, <3>3
      <4> QED BY <1>1, <1>8, <4>1, OneQuotient
    <3> QED BY <1>1, <1>8, <2>1, <2>4, <3>1, <3>2, <3>3
  <2> QED BY <1>1, <1>8, <2>3, <2>4
<1>15. w_ = m + Base * Base * (- j) /\ - j \in Int
    BY <1>1, <1>5, <1>9, <1>10
<1>16. /\ p.lo + p.hi * Base = w_ /\ p.lo = x
       /\ p.lo \in 0 .. Base - 1 /\ p.hi \in 0 .. Base - 1
    BY <1>8 DEF w_, x, y
<1>17. \E k \in Int : p.lo + p.hi * Base = m + Base * Base * k
    BY <1>15, <1>16
<1>18. ("CF" \in p.f <=> Signed(BYTE, p.lo) # m) /\ ("OF" \in p.f <=> Signed(BYTE, p.lo) # m)
    BY <1>4, <1>14, <1>16
<1>19. Signed(WORD, p.lo + p.hi * Base) = m
    BY <1>13, <1>16
<1> QED BY <1>16, <1>17, <1>18, <1>19 DEF p, m, u, v

abs(x) == IF x < 0 THEN - x ELSE x

\* A quotient has no room when the dividend is as large as the divisor can
\* multiply, whatever their signs.
LEMMA QuotientRoom ==
  ASSUME NEW d \in Int, NEW v \in Int, v # 0, NEW t \in Nat
  PROVE  abs((abs(d) \div abs(v)) * (IF (d < 0) = (v < 0) THEN 1 ELSE -1)) > t - 1
           <=> abs(d) >= abs(v) * t
<1> DEFINE a == abs(d)
           b == abs(v)
           c == a \div b
           e == a % b
<1>1. a \in Nat /\ b \in Nat /\ b >= 1
    BY DEF abs
<1> HIDE DEF a, b
<1>2. c \in Int /\ e \in 0 .. b - 1 /\ a = b * c + e
    BY <1>1, DivMod
<1> HIDE DEF c, e
<1>3. c >= 0
  <2>1. CASE c < 0
    <3>1. b * c <= b * (-1)
        BY <1>1, <1>2, <2>1
    <3> QED BY <1>1, <1>2, <3>1
  <2> QED BY <1>2, <2>1
<1>4. abs(c * (IF (d < 0) = (v < 0) THEN 1 ELSE -1)) = c
    BY <1>2, <1>3 DEF abs
<1>5. CASE c >= t
  <2>1. b * c >= b * t
      BY <1>1, <1>2, <1>5
  <2>2. a >= b * t
      BY <1>1, <1>2, <2>1
  <2> QED BY <1>2, <1>4, <1>5, <2>2 DEF a, b, c
<1>6. CASE c <= t - 1
  <2>1. b * c <= b * (t - 1)
      BY <1>1, <1>2, <1>6
  <2>2. a < b * t
      BY <1>1, <1>2, <2>1
  <2>3. ~ (c > t - 1)
      BY <1>2, <1>6
  <2>4. ~ (a >= b * t)
      BY <1>1, <2>2
  <2> QED BY <1>4, <2>3, <2>4 DEF a, b, c
<1> QED BY <1>2, <1>5, <1>6

LEMMA IDivGives ==
  ASSUME NEW fl, NEW h \in 0 .. Base - 1, NEW l \in 0 .. Base - 1, NEW s \in 0 .. Base - 1
  PROVE  LET x == idiv(BYTE, fl, h, l, s)
             q == Signed(BYTE, x.lo)
             r == Signed(BYTE, x.hi)
             v == Signed(BYTE, s)
         IN  /\ x.ok \in BOOLEAN
             /\ x.ok <=> ~ (abs(Signed(WORD, h * Base + l)) >= abs(v) * Top)
             /\ x.ok => /\ x.lo \in 0 .. Base - 1 /\ x.hi \in 0 .. Base - 1
                        /\ q * v + r = Signed(WORD, h * Base + l)
                        /\ abs(r) < abs(v)
                        /\ r # 0 => (r < 0) = Sign(BYTE, h)
<1> DEFINE x == idiv(BYTE, fl, h, l, s)
           n_ == h * Base + l
           d == Signed(WORD, n_)
           v == Signed(BYTE, s)
           q == (abs(d) \div abs(v)) * (IF (d < 0) = (v < 0) THEN 1 ELSE -1)
           r == d - q * v
<1>1. Base \in Nat /\ Base = 2 * Top /\ Top \in Nat /\ Top >= 1
    BY Powers
<1>2. n_ \in Nat /\ n_ < Base * Base
  <2>1. h * Base <= (Base - 1) * Base
      BY <1>1
  <2> QED BY <1>1, <2>1
<1> HIDE DEF n_
<1>3. d = IF n_ >= Top * Base THEN n_ - Base * Base ELSE n_
    BY <1>2, SignOfWord
<1>4. d \in Int /\ v \in - Top .. Top - 1
    BY <1>1, <1>2, <1>3, SignOfByte
<1>5. d < 0 <=> Sign(BYTE, h)
  <2>1. Sign(BYTE, h) <=> h >= Top
      BY SignOfByte
  <2>2. d < 0 <=> n_ >= Top * Base
      BY <1>1, <1>2, <1>3
  <2>3. CASE h >= Top
    <3>1. h * Base >= Top * Base
        BY <1>1, <2>3
    <3> QED BY <1>1, <2>1, <2>2, <2>3, <3>1 DEF n_
  <2>4. CASE h < Top
    <3>1. h * Base <= (Top - 1) * Base
        BY <1>1, <2>4
    <3> QED BY <1>1, <2>1, <2>2, <2>4, <3>1 DEF n_
  <2> QED BY <1>1, <2>3, <2>4
<1>6. v = 0 <=> s = 0
    BY <1>1, SignOfByte
<1>7. x = IF s = 0 \/ abs(q) > Top - 1 THEN Fault ELSE Quotient(BYTE, fl, q, r)
    BY BytesAreNoLongs DEF idiv, abs, n_, Base, Top
<1>8. (s = 0 \/ abs(q) > Top - 1) <=> abs(d) >= abs(v) * Top
  <2>1. CASE v = 0
    <3>1. abs(d) >= 0 /\ abs(v) * Top = 0
        BY <1>1, <1>4, <2>1 DEF abs
    <3> QED BY <1>6, <2>1, <3>1
  <2>2. CASE v # 0
    <3>1. v \in Int
        BY <1>1, <1>4
    <3>2. abs(q) > Top - 1 <=> abs(d) >= abs(v) * Top
      <4> HIDE DEF d, v
      <4> QED BY <1>1, <1>4, <2>2, <3>1, QuotientRoom
    <3> QED BY <1>6, <2>2, <3>2
  <2> QED BY <2>1, <2>2
<1>9. CASE s = 0 \/ abs(q) > Top - 1
  <2>1. x.ok = FALSE
      BY <1>7, <1>9 DEF Fault
  <2> QED BY <1>9, <1>8, <2>1 DEF d, n_
<1>10. CASE ~ (s = 0 \/ abs(q) > Top - 1)
  <2>1. x = Quotient(BYTE, fl, q, r) /\ v # 0
      BY <1>6, <1>7, <1>10
  <2>2. x.ok = TRUE /\ x.lo = q % Base /\ x.hi = r % Base
      BY <2>1 DEF Quotient, Base
  <2> DEFINE c == abs(d) \div abs(v)
             e == abs(d) % abs(v)
  <2>3. abs(d) \in Nat /\ abs(v) \in Nat /\ abs(v) >= 1 /\ abs(v) <= Top
      BY <1>1, <1>4, <2>1 DEF abs
  <2>4. c \in Int /\ e \in 0 .. abs(v) - 1 /\ abs(d) = abs(v) * c + e
    <3>1. \A i \in Int, k \in Nat : k >= 1 =>
             i \div k \in Int /\ i % k \in 0 .. k - 1 /\ i = k * (i \div k) + (i % k)
        BY DivMod
    <3>2. abs(d) \in Int
        BY <2>3
    <3> HIDE DEF abs, d, v
    <3> QED BY <2>3, <3>1, <3>2, Zenon
  <2>5. q = IF (d < 0) = (v < 0) THEN c ELSE - c
      BY <2>4
  <2> HIDE DEF c, e, d, v, x
  <2>6. q \in Int
      BY <2>4, <2>5
  <2>7. q * v = IF d < 0 THEN - (abs(v) * c) ELSE abs(v) * c
    <3>1. CASE d < 0 /\ v < 0
        BY <1>4, <2>4, <2>5, <3>1 DEF abs
    <3>2. CASE d < 0 /\ ~ (v < 0)
        BY <1>4, <2>4, <2>5, <3>2 DEF abs
    <3>3. CASE ~ (d < 0) /\ v < 0
        BY <1>4, <2>4, <2>5, <3>3 DEF abs
    <3>4. CASE ~ (d < 0) /\ ~ (v < 0)
        BY <1>4, <2>4, <2>5, <3>4 DEF abs
    <3> QED BY <3>1, <3>2, <3>3, <3>4
  <2> HIDE DEF q
  <2>8. r = IF d < 0 THEN - e ELSE e
    <3> DEFINE z == abs(v) * c
    <3>1. z \in Int /\ q * v = (IF d < 0 THEN - z ELSE z) /\ abs(d) = z + e
        BY <2>3, <2>4, <2>7
    <3> HIDE DEF z
    <3> QED BY <1>4, <2>3, <2>4, <3>1 DEF abs
  <2>9. r \in Int /\ q * v + r = d
      BY <1>1, <1>4, <2>6
  <2> HIDE DEF r
  <2>10. /\ r \in - Top .. Top - 1 /\ abs(r) < abs(v) /\ (r # 0 => (r < 0) = (d < 0))
    <3>1. CASE d < 0
        BY <1>1, <2>3, <2>4, <2>8, <3>1 DEF abs
    <3>2. CASE ~ (d < 0)
        BY <1>1, <2>3, <2>4, <2>8, <3>2 DEF abs
    <3> QED BY <3>1, <3>2
  <2>11. q \in - Top .. Top - 1
      BY <1>1, <1>10, <2>6 DEF abs
  <2>12. /\ x.lo \in 0 .. Base - 1 /\ Signed(BYTE, x.lo) = q
         /\ x.hi \in 0 .. Base - 1 /\ Signed(BYTE, x.hi) = r
      BY <2>2, <2>10, <2>11, SignedRest
  <2>13. r # 0 => (r < 0) = Sign(BYTE, h)
      BY <1>5, <2>10 DEF Sign, Bit
  <2>14. x.ok <=> ~ (abs(d) >= abs(v) * Top)
      BY <1>10, <1>8, <2>2 DEF q
  <2> QED BY <2>2, <2>9, <2>10, <2>12, <2>13, <2>14 DEF x, v, d, n_
<1> QED BY <1>9, <1>10

-----------------------------------------------------------------------------
\* The powers below a byte: bit i parts a byte in 2^(i + 1).
LEMMA PowerBelow ==
  ASSUME NEW i \in 0 .. BYTE - 1
  PROVE  /\ 2^i \in Nat /\ 2^i >= 1 /\ 2^(i + 1) = 2 * 2^i
         /\ \E k \in Nat : k >= 1 /\ Base = 2^(i + 1) * k
<1>1. BYTE \in Nat /\ BYTE > 0 /\ LONG \in Nat /\ LONG = 4 * BYTE
    BY WidthAssumption, PowerAssumption DEF LONG
<1> HIDE DEF LONG
<1> DEFINE j == (BYTE - 1) - i
<1>2. i \in 0 .. LONG /\ 1 \in 0 .. LONG - i /\ i + 1 \in 0 .. LONG /\ j \in 0 .. LONG - (i + 1)
    BY <1>1
<1>3. (i + 1) + j = BYTE /\ j \in 0 .. LONG
    BY <1>1
<1> HIDE DEF j
<1>4. 2^i \in Nat \ {0} /\ 2^(i + 1) = 2^i * 2^1
    BY <1>2, PowerAssumption
<1>5. 2^j \in Nat \ {0} /\ 2^((i + 1) + j) = 2^(i + 1) * 2^j
    BY <1>2, <1>3, PowerAssumption
<1>6. 2^1 = 2
    BY PowerAssumption
<1>7. Base = 2^(i + 1) * 2^j
    BY <1>3, <1>5 DEF Base
<1>8. 2^(i + 1) = 2 * 2^i /\ 2^i >= 1 /\ 2^j >= 1
    BY <1>4, <1>5, <1>6
<1> QED BY <1>4, <1>5, <1>7, <1>8

LEMMA Parted ==
  ASSUME NEW x, NEW m \in Nat, m >= 1, NEW q \in Int, NEW r \in 0 .. m - 1, x = m * q + r
  PROVE  x \div m = q /\ x % m = r
BY DivUnique

\* Bit i is on when the rest below bit i + 1 reaches 2^i.
LEMMA BitOfRest ==
  ASSUME NEW x \in Int, NEW h \in Nat, h >= 1
  PROVE  (x \div h) % 2 = 1 <=> x % (2 * h) >= h
<1> DEFINE m == 2 * h
<1>1. m \in Nat /\ m >= 1 /\ m = 2 * h
    OBVIOUS
<1> HIDE DEF m
<1>2. PICK q \in Int, t \in 0 .. m - 1 : x \div m = q /\ x % m = t /\ x = m * q + t
    BY <1>1, Splits
<1> DEFINE b == IF t >= h THEN 1 ELSE 0
           u == t - h * b
<1>3. b \in {0, 1} /\ u \in 0 .. h - 1 /\ t = h * b + u /\ (b = 1 <=> t >= h)
    BY <1>1
<1> HIDE DEF b, u
<1>4. x = h * (2 * q + b) + u
    BY <1>1, <1>2, <1>3
<1>5. 2 * q + b \in Int
    BY <1>3
<1>6. x \div h = 2 * q + b
    BY <1>3, <1>4, <1>5, DivUnique
<1>7. (2 * q + b) % 2 = b
    BY <1>3
<1> QED BY <1>1, <1>2, <1>3, <1>6, <1>7

\* A rest of a rest.
LEMMA RestOfRest ==
  ASSUME NEW x \in Int, NEW m \in Nat, m >= 1, NEW k \in Nat, k >= 1
  PROVE  (x % (m * k)) % m = x % m
<1> DEFINE mk == m * k
<1>1. mk \in Nat /\ mk >= 1 /\ mk = m * k
    OBVIOUS
<1> HIDE DEF mk
<1>2. PICK q \in Int, t \in 0 .. mk - 1 : x \div mk = q /\ x % mk = t /\ x = mk * q + t
    BY <1>1, Splits
<1>3. PICK p \in Int, u \in 0 .. m - 1 : t \div m = p /\ t % m = u /\ t = m * p + u
    BY <1>1, Splits
<1>4. x = m * (k * q + p) + u
    BY <1>1, <1>2, <1>3
<1>5. k * q + p \in Int
    BY <1>2
<1>6. x % m = u
    BY <1>3, <1>4, <1>5, DivUnique
<1> QED BY <1>1, <1>2, <1>3, <1>6

\* The chains of ADC and SBB, formulas of bits, tell at each bit whether the
\* bits up to it carry or borrow.
LEMMA CarryAt ==
  ASSUME NEW d \in Byte, NEW s \in Byte, NEW c \in {0, 1}, NEW i \in 0 .. BYTE - 1
  PROVE  i \in CarryChain(BYTE, d, s, (d + s + c) % Base)
           <=> (d % 2^(i + 1)) + (s % 2^(i + 1)) + c >= 2^(i + 1)
<1> DEFINE h == 2^i
           m == 2^(i + 1)
           e == d + s + c
           r == e % Base
<1>1. h \in Nat /\ h >= 1 /\ m = 2 * h
    BY PowerBelow
<1>2. PICK k \in Nat : k >= 1 /\ Base = m * k
    BY PowerBelow
<1>3. d \in Int /\ s \in Int /\ e \in Int /\ Base \in Nat /\ Base >= 1
    BY Powers DEF Byte
<1>4. r \in Int
    BY <1>3
<1> HIDE DEF h, m, r, e
<1>5. m \in Nat /\ m >= 1
    BY <1>1
<1>6. PICK dq \in Int, dm \in 0 .. m - 1 : d \div m = dq /\ d % m = dm /\ d = m * dq + dm
    BY <1>3, <1>5, Splits
<1>7. PICK sq \in Int, sm \in 0 .. m - 1 : s \div m = sq /\ s % m = sm /\ s = m * sq + sm
    BY <1>3, <1>5, Splits
<1>8. r % m = e % m
    BY <1>2, <1>3, <1>5, RestOfRest DEF r
<1>9. r % m = IF dm + sm + c >= m THEN dm + sm + c - m ELSE dm + sm + c
  <2>1. CASE dm + sm + c >= m
    <3> DEFINE j == dq + sq + 1
               u == dm + sm + c - m
    <3>1. e = m * j + u
        BY <1>5, <1>6, <1>7 DEF e
    <3>2. j \in Int /\ u \in 0 .. m - 1
        BY <1>5, <1>6, <1>7, <2>1
    <3> HIDE DEF j, u
    <3>3. e % m = u
        BY <1>5, <3>1, <3>2, Parted
    <3> QED BY <1>8, <2>1, <3>3 DEF u
  <2>2. CASE ~ (dm + sm + c >= m)
    <3> DEFINE j == dq + sq
               u == dm + sm + c
    <3>1. e = m * j + u
        BY <1>5, <1>6, <1>7 DEF e
    <3>2. j \in Int /\ u \in 0 .. m - 1
        BY <1>5, <1>6, <1>7, <2>2
    <3> HIDE DEF j, u
    <3>3. e % m = u
        BY <1>5, <3>1, <3>2, Parted
    <3> QED BY <1>8, <2>2, <3>3 DEF u
  <2> QED BY <2>1, <2>2
<1>10. /\ Bit(d, i) <=> dm >= h
       /\ Bit(s, i) <=> sm >= h
       /\ Bit(r, i) <=> r % m >= h
    BY <1>1, <1>3, <1>4, <1>6, <1>7, BitOfRest DEF Bit, h
<1>11. i \in CarryChain(BYTE, d, s, r)
         <=> (Bit(s, i) /\ Bit(d, i)) \/ ((Bit(s, i) \/ Bit(d, i)) /\ ~ Bit(r, i))
    BY DEF CarryChain, Bits
<1>12. i \in CarryChain(BYTE, d, s, r) <=> dm + sm + c >= m
    BY <1>1, <1>5, <1>6, <1>7, <1>9, <1>10, <1>11
<1> QED BY <1>6, <1>7, <1>12 DEF m, r, e

LEMMA BorrowAt ==
  ASSUME NEW d \in Byte, NEW s \in Byte, NEW c \in {0, 1}, NEW i \in 0 .. BYTE - 1
  PROVE  i \in BorrowChain(BYTE, d, s, (d - s - c) % Base)
           <=> (d % 2^(i + 1)) - (s % 2^(i + 1)) - c < 0
<1> DEFINE h == 2^i
           m == 2^(i + 1)
           e == d - s - c
           r == e % Base
<1>1. h \in Nat /\ h >= 1 /\ m = 2 * h
    BY PowerBelow
<1>2. PICK k \in Nat : k >= 1 /\ Base = m * k
    BY PowerBelow
<1>3. d \in Int /\ s \in Int /\ e \in Int /\ Base \in Nat /\ Base >= 1
    BY Powers DEF Byte
<1>4. r \in Int
    BY <1>3
<1> HIDE DEF h, m, r, e
<1>5. m \in Nat /\ m >= 1
    BY <1>1
<1>6. PICK dq \in Int, dm \in 0 .. m - 1 : d \div m = dq /\ d % m = dm /\ d = m * dq + dm
    BY <1>3, <1>5, Splits
<1>7. PICK sq \in Int, sm \in 0 .. m - 1 : s \div m = sq /\ s % m = sm /\ s = m * sq + sm
    BY <1>3, <1>5, Splits
<1>8. r % m = e % m
    BY <1>2, <1>3, <1>5, RestOfRest DEF r
<1>9. r % m = IF dm - sm - c < 0 THEN dm - sm - c + m ELSE dm - sm - c
  <2>1. CASE dm - sm - c < 0
    <3> DEFINE j == dq - sq - 1
               u == dm - sm - c + m
    <3>1. e = m * j + u
        BY <1>5, <1>6, <1>7 DEF e
    <3>2. j \in Int /\ u \in 0 .. m - 1
        BY <1>5, <1>6, <1>7, <2>1
    <3> HIDE DEF j, u
    <3>3. e % m = u
        BY <1>5, <3>1, <3>2, Parted
    <3> QED BY <1>8, <2>1, <3>3 DEF u
  <2>2. CASE ~ (dm - sm - c < 0)
    <3> DEFINE j == dq - sq
               u == dm - sm - c
    <3>1. e = m * j + u
        BY <1>5, <1>6, <1>7 DEF e
    <3>2. j \in Int /\ u \in 0 .. m - 1
        BY <1>5, <1>6, <1>7, <2>2
    <3> HIDE DEF j, u
    <3>3. e % m = u
        BY <1>5, <3>1, <3>2, Parted
    <3> QED BY <1>8, <2>2, <3>3 DEF u
  <2> QED BY <2>1, <2>2
<1>10. /\ Bit(d, i) <=> dm >= h
       /\ Bit(s, i) <=> sm >= h
       /\ Bit(r, i) <=> r % m >= h
    BY <1>1, <1>3, <1>4, <1>6, <1>7, BitOfRest DEF Bit, h
<1>11. i \in BorrowChain(BYTE, d, s, r)
         <=> (Bit(r, i) /\ ~ (Bit(d, i) /\ ~ Bit(s, i))) \/ (Bit(s, i) /\ ~ Bit(d, i))
    BY DEF BorrowChain, Bits
<1>12. i \in BorrowChain(BYTE, d, s, r) <=> dm - sm - c < 0
    BY <1>1, <1>5, <1>6, <1>7, <1>9, <1>10, <1>11
<1> QED BY <1>6, <1>7, <1>12 DEF m, r, e

\* The flags of a sum or a difference are those named.
LEMMA ResultGives ==
  ASSUME NEW x, NEW fl, NEW r, NEW cf, NEW chain, x = Result(BYTE, fl, r, cf, chain)
  PROVE  /\ x.val = r
         /\ "CF" \in x.f <=> cf
         /\ "OF" \in x.f <=> XOR2(BYTE, chain)
         /\ "AF" \in x.f <=> NIBBLE - 1 \in chain
         /\ "SF" \in x.f <=> Sign(BYTE, r)
BY Zenon DEF Result, Set, Flag, ResultFlags, ARITH

LEMMA SbbGives ==
  ASSUME NEW fl, NEW d \in Byte, NEW s \in Byte
  PROVE  LET x == sbb(BYTE, fl, d, s)
             rest == d - s - One(fl, "CF")
         IN  /\ x.val \in Byte /\ x.val = rest % Base
             /\ "CF" \in x.f <=> rest < 0
             /\ x.val - Base * One(x.f, "CF") = rest
<1> DEFINE x == sbb(BYTE, fl, d, s)
           c == One(fl, "CF")
           e == d - s - c
           chain == BorrowChain(BYTE, d, s, e % Base)
<1>1. x = Result(BYTE, fl, e % Base, BYTE - 1 \in chain, chain)
    BY DEF sbb, Base
<1>2. c \in {0, 1}
    BY DEF One
<1>3. Base \in Nat /\ Base >= 1 /\ BYTE \in Nat /\ BYTE > 0 /\ (BYTE - 1) + 1 = BYTE
    BY Powers
<1>4. d \in 0 .. Base - 1 /\ s \in 0 .. Base - 1
    BY DEF Byte
<1>5. BYTE - 1 \in chain <=> (d % Base) - (s % Base) - c < 0
    BY <1>2, <1>3, BorrowAt DEF Base
<1>6. d % Base = d /\ s % Base = s
  <2>1. d = Base * 0 + d /\ s = Base * 0 + s
      BY <1>3, <1>4
  <2> QED BY <1>3, <1>4, <2>1, Parted
<1>7. x.val = e % Base /\ ("CF" \in x.f <=> BYTE - 1 \in chain)
  <2> DEFINE r == e % Base
             out == BYTE - 1 \in chain
  <2>1. x = Result(BYTE, fl, r, out, chain)
      BY <1>1
  <2> HIDE DEF x, chain, r, out
  <2>2. x.val = r
      BY <2>1, ResultGives, Zenon
  <2>3. "CF" \in x.f <=> out
      BY <2>1, Zenon DEF Result, Set, Flag, ResultFlags, ARITH
  <2> QED BY <2>2, <2>3 DEF r, out
<1>8. "CF" \in x.f <=> e < 0
    BY <1>5, <1>6, <1>7
<1>9. e \in Int /\ e >= - Base /\ e < Base
    BY <1>2, <1>3, <1>4
<1> HIDE DEF e, x, chain
<1>10. e % Base = IF e < 0 THEN e + Base ELSE e
  <2>1. CASE e < 0
    <3>1. e = Base * (-1) + (e + Base) /\ e + Base \in 0 .. Base - 1
        BY <1>3, <1>9, <2>1
    <3> QED BY <1>3, <1>9, <2>1, <3>1, Parted
  <2>2. CASE ~ (e < 0)
    <3>1. e = Base * 0 + e /\ e \in 0 .. Base - 1
        BY <1>3, <1>9, <2>2
    <3> QED BY <1>3, <1>9, <2>2, <3>1, Parted
  <2> QED BY <2>1, <2>2
<1>11. e % Base \in Byte /\ (e % Base) - Base * One(x.f, "CF") = e
    BY <1>3, <1>8, <1>9, <1>10 DEF One, Byte
<1> QED BY <1>7, <1>8, <1>11 DEF x, e

-----------------------------------------------------------------------------
\* A byte below its sign bit.
LEMMA BelowSign ==
  ASSUME NEW d \in Byte
  PROVE  /\ d % Top \in 0 .. Top - 1
         /\ d = (d % Top) + (IF d >= Top THEN Top ELSE 0)
         /\ Signed(BYTE, d) = (d % Top) - (IF d >= Top THEN Top ELSE 0)
<1>1. Base \in Nat /\ Top \in Nat /\ Top >= 1 /\ Base = 2 * Top /\ d \in 0 .. Base - 1
    BY Powers DEF Byte
<1>2. d % Top = IF d >= Top THEN d - Top ELSE d
  <2>1. CASE d >= Top
    <3>1. d = Top * 1 + (d - Top) /\ d - Top \in 0 .. Top - 1
        BY <1>1, <2>1
    <3> QED BY <1>1, <2>1, <3>1, Parted
  <2>2. CASE ~ (d >= Top)
    <3>1. d = Top * 0 + d /\ d \in 0 .. Top - 1
        BY <1>1, <2>2
    <3> QED BY <1>1, <2>2, <3>1, Parted
  <2> QED BY <2>1, <2>2
<1>3. Signed(BYTE, d) = IF d >= Top THEN d - Base ELSE d
    BY <1>1, SignOfByte
<1> QED BY <1>1, <1>2, <1>3

\* The two topmost places of a chain.
LEMMA TopPlaces ==
  /\ BYTE - 1 \in 0 .. BYTE - 1 /\ BYTE - 2 \in 0 .. BYTE - 1
  /\ 2^((BYTE - 1) + 1) = Base /\ 2^((BYTE - 2) + 1) = Top
<1>1. BYTE \in Nat /\ BYTE > 0 /\ BYTE % 2 = 0
    BY WidthAssumption, PowerAssumption
<1>2. BYTE >= 2 /\ (BYTE - 1) + 1 = BYTE /\ (BYTE - 2) + 1 = BYTE - 1
    BY <1>1
<1> QED BY <1>1, <1>2 DEF Base, Top

\* OF says that the signed sum has no room in a byte, SF its sign.
LEMMA AdcSigns ==
  ASSUME NEW fl, NEW d \in Byte, NEW s \in Byte
  PROVE  LET x == adc(BYTE, fl, d, s)
             sum == Signed(BYTE, d) + Signed(BYTE, s) + One(fl, "CF")
         IN  /\ "OF" \in x.f <=> sum \notin - Top .. Top - 1
             /\ "SF" \in x.f <=> (sum < 0) # ("OF" \in x.f)
<1> DEFINE x == adc(BYTE, fl, d, s)
           c == One(fl, "CF")
           e == d + s + c
           chain == CarryChain(BYTE, d, s, e % Base)
           sd == Signed(BYTE, d)
           ss == Signed(BYTE, s)
           dm == d % Top
           sm == s % Top
           r == e % Base
<1>1. x = Result(BYTE, fl, r, e >= Base, chain)
    BY DEF adc, Base
<1>2. c \in {0, 1}
    BY DEF One
<1>3. Base \in Nat /\ Base >= 1 /\ Top \in Nat /\ Top >= 1 /\ Base = 2 * Top
    BY Powers
<1>4. d \in 0 .. Base - 1 /\ s \in 0 .. Base - 1
    BY DEF Byte
<1>5. /\ BYTE - 1 \in chain <=> (d % Base) + (s % Base) + c >= Base
      /\ BYTE - 2 \in chain <=> dm + sm + c >= Top
    BY <1>2, CarryAt, TopPlaces
<1>6. d % Base = d /\ s % Base = s
  <2>1. d = Base * 0 + d /\ s = Base * 0 + s
      BY <1>3, <1>4
  <2> QED BY <1>3, <1>4, <2>1, Parted
<1>7. /\ "OF" \in x.f <=> (BYTE - 1 \in chain) # (BYTE - 2 \in chain)
      /\ "SF" \in x.f <=> Sign(BYTE, r)
  <2> HIDE DEF x, chain, r
  <2>1. ("OF" \in x.f <=> XOR2(BYTE, chain)) /\ ("SF" \in x.f <=> Sign(BYTE, r))
      BY <1>1, ResultGives
  <2> QED BY <2>1 DEF XOR2
<1>8. /\ dm \in 0 .. Top - 1 /\ d = dm + (IF d >= Top THEN Top ELSE 0)
      /\ sd = dm - (IF d >= Top THEN Top ELSE 0)
      /\ sm \in 0 .. Top - 1 /\ s = sm + (IF s >= Top THEN Top ELSE 0)
      /\ ss = sm - (IF s >= Top THEN Top ELSE 0)
    BY BelowSign
<1>9. r = IF e >= Base THEN e - Base ELSE e
  <2> HIDE DEF c
  <2>1. CASE e >= Base
    <3> DEFINE u == e - Base
    <3>1. e = Base * 1 + u /\ u \in 0 .. Base - 1
        BY <1>2, <1>3, <1>4, <2>1
    <3> HIDE DEF u, e
    <3>2. e % Base = u
        BY <1>3, <3>1, Parted
    <3> QED BY <2>1, <3>2 DEF u
  <2>2. CASE ~ (e >= Base)
    <3>1. e = Base * 0 + e /\ e \in 0 .. Base - 1
        BY <1>2, <1>3, <1>4, <2>2
    <3> HIDE DEF e
    <3>2. e % Base = e
        BY <1>3, <3>1, Parted
    <3> QED BY <2>2, <3>2
  <2> QED BY <2>1, <2>2
<1>10. r \in 0 .. Base - 1
    BY <1>2, <1>3, <1>4, <1>9
<1>11. Sign(BYTE, r) <=> r >= Top
    BY <1>10, SignOfByte
<1> HIDE DEF x, c, chain, sd, ss, dm, sm, r
<1>12. "OF" \in x.f <=> ((d + s + c >= Base) # (dm + sm + c >= Top))
    BY <1>5, <1>6, <1>7
<1>13. "OF" \in x.f <=> sd + ss + c \notin - Top .. Top - 1
  <2>1. ((d + s + c >= Base) # (dm + sm + c >= Top)) <=> sd + ss + c \notin - Top .. Top - 1
      BY <1>2, <1>3, <1>4, <1>8
  <2> QED BY <1>12, <2>1
<1>14. "SF" \in x.f <=> (sd + ss + c < 0) # ("OF" \in x.f)
  <2>1. r >= Top <=> ((sd + ss + c < 0) # (sd + ss + c \notin - Top .. Top - 1))
      BY <1>2, <1>3, <1>4, <1>8, <1>9
  <2> QED BY <1>7, <1>11, <1>13, <2>1
<1> QED BY <1>13, <1>14 DEF x, sd, ss, c
LEMMA SbbSigns ==
  ASSUME NEW fl, NEW d \in Byte, NEW s \in Byte
  PROVE  LET x == sbb(BYTE, fl, d, s)
             rest == Signed(BYTE, d) - Signed(BYTE, s) - One(fl, "CF")
         IN  /\ "OF" \in x.f <=> rest \notin - Top .. Top - 1
             /\ "SF" \in x.f <=> (rest < 0) # ("OF" \in x.f)
<1> DEFINE x == sbb(BYTE, fl, d, s)
           c == One(fl, "CF")
           e == d - s - c
           chain == BorrowChain(BYTE, d, s, e % Base)
           sd == Signed(BYTE, d)
           ss == Signed(BYTE, s)
           dm == d % Top
           sm == s % Top
           r == e % Base
<1>1. x = Result(BYTE, fl, r, BYTE - 1 \in chain, chain)
    BY DEF sbb, Base
<1>2. c \in {0, 1}
    BY DEF One
<1>3. Base \in Nat /\ Base >= 1 /\ Top \in Nat /\ Top >= 1 /\ Base = 2 * Top
    BY Powers
<1>4. d \in 0 .. Base - 1 /\ s \in 0 .. Base - 1
    BY DEF Byte
<1>5. /\ BYTE - 1 \in chain <=> (d % Base) - (s % Base) - c < 0
      /\ BYTE - 2 \in chain <=> dm - sm - c < 0
    BY <1>2, BorrowAt, TopPlaces
<1>6. d % Base = d /\ s % Base = s
  <2>1. d = Base * 0 + d /\ s = Base * 0 + s
      BY <1>3, <1>4
  <2> QED BY <1>3, <1>4, <2>1, Parted
<1>7. /\ "OF" \in x.f <=> (BYTE - 1 \in chain) # (BYTE - 2 \in chain)
      /\ "SF" \in x.f <=> Sign(BYTE, r)
  <2> HIDE DEF x, chain, r
  <2>1. ("OF" \in x.f <=> XOR2(BYTE, chain)) /\ ("SF" \in x.f <=> Sign(BYTE, r))
      BY <1>1, ResultGives
  <2> QED BY <2>1 DEF XOR2
<1>8. /\ dm \in 0 .. Top - 1 /\ d = dm + (IF d >= Top THEN Top ELSE 0)
      /\ sd = dm - (IF d >= Top THEN Top ELSE 0)
      /\ sm \in 0 .. Top - 1 /\ s = sm + (IF s >= Top THEN Top ELSE 0)
      /\ ss = sm - (IF s >= Top THEN Top ELSE 0)
    BY BelowSign
<1>9. r = IF e < 0 THEN e + Base ELSE e
  <2> HIDE DEF c
  <2>1. CASE e < 0
    <3> DEFINE u == e + Base
    <3>1. e = Base * (-1) + u /\ u \in 0 .. Base - 1
        BY <1>2, <1>3, <1>4, <2>1
    <3> HIDE DEF u, e
    <3>2. e % Base = u
        BY <1>3, <3>1, Parted
    <3> QED BY <2>1, <3>2 DEF u
  <2>2. CASE ~ (e < 0)
    <3>1. e = Base * 0 + e /\ e \in 0 .. Base - 1
        BY <1>2, <1>3, <1>4, <2>2
    <3> HIDE DEF e
    <3>2. e % Base = e
        BY <1>3, <3>1, Parted
    <3> QED BY <2>2, <3>2
  <2> QED BY <2>1, <2>2
<1>10. r \in 0 .. Base - 1
    BY <1>2, <1>3, <1>4, <1>9
<1>11. Sign(BYTE, r) <=> r >= Top
    BY <1>10, SignOfByte
<1> HIDE DEF x, c, chain, sd, ss, dm, sm, r
<1>12. "OF" \in x.f <=> ((d - s - c < 0) # (dm - sm - c < 0))
    BY <1>5, <1>6, <1>7
<1>13. "OF" \in x.f <=> sd - ss - c \notin - Top .. Top - 1
  <2>1. ((d - s - c < 0) # (dm - sm - c < 0)) <=> sd - ss - c \notin - Top .. Top - 1
      BY <1>2, <1>3, <1>4, <1>8
  <2> QED BY <1>12, <2>1
<1>14. "SF" \in x.f <=> (sd - ss - c < 0) # ("OF" \in x.f)
  <2>1. r >= Top <=> ((sd - ss - c < 0) # (sd - ss - c \notin - Top .. Top - 1))
      BY <1>2, <1>3, <1>4, <1>8, <1>9
  <2> QED BY <1>7, <1>11, <1>13, <2>1
<1> QED BY <1>13, <1>14 DEF x, sd, ss, c

\* A rotation through the carry by one: the carry goes in at one end and what
\* falls out at the other is the new one.
LEMMA OneTurn ==
  /\ 1 % (BYTE + 1) = 1 /\ 1 # LONG /\ 2^1 = 2 /\ 2^0 = 1
  /\ 2^(BYTE + 1 - 1) = Base /\ 2^(1 - 1) = 1 /\ BYTE \in Nat
<1>1. BYTE \in Nat /\ BYTE > 0 /\ LONG = 4 * BYTE /\ 2^1 = 2
    BY WidthAssumption, PowerAssumption DEF LONG
<1> HIDE DEF LONG
<1>2. 0 \in 0 .. LONG /\ 0 \in 0 .. LONG - 0 /\ 0 + 0 = 0
    BY <1>1
<1>3. 2^0 \in Nat \ {0} /\ 2^(0 + 0) = 2^0 * 2^0
    BY <1>2, PowerAssumption
<1> DEFINE y == 2^0
<1>4. y \in Nat /\ y # 0 /\ y = y * y
    BY <1>2, <1>3
<1> HIDE DEF y
<1>5. y = 1
  <2>1. CASE y >= 2
    <3>1. y * y >= 2 * y
        BY <1>4, <2>1
    <3> QED BY <1>4, <2>1, <3>1
  <2> QED BY <1>4, <2>1
<1>6. 1 % (BYTE + 1) = 1
  <2> DEFINE b == BYTE + 1
  <2>1. b \in Nat /\ b >= 1 /\ 1 = b * 0 + 1 /\ 1 \in 0 .. b - 1
      BY <1>1
  <2> HIDE DEF b
  <2>2. 1 % b = 1
      BY <2>1, Parted
  <2> QED BY <2>2 DEF b
<1>7. BYTE + 1 - 1 = BYTE /\ 1 - 1 = 0
    BY <1>1
<1> QED BY <1>1, <1>5, <1>6, <1>7 DEF y, Base

LEMMA RclGives ==
  ASSUME NEW fl, NEW d \in Byte
  PROVE  LET x == rcl(BYTE, fl, d, 1)
         IN  /\ x.val \in Byte
             /\ x.val + Base * One(x.f, "CF") = 2 * d + One(fl, "CF")
<1> DEFINE x == rcl(BYTE, fl, d, 1)
           c == One(fl, "CF")
           dm == d % Top
           z == (d \div Base) % 1
<1>1. Base \in Nat /\ Base >= 1 /\ Top \in Nat /\ Top >= 1 /\ Base = 2 * Top /\ d \in 0 .. Base - 1
    BY Powers DEF Byte
<1>2. c \in {0, 1}
    BY DEF One
<1>3. x.val = dm * 2 + (z + c * 1)
  <2> DEFINE m == 1 % (BYTE + 1)
             high == IF m = LONG THEN d ELSE Shifted(BYTE, d, m)
             low == ((d \div 2^(BYTE + 1 - m)) % 2^(m - 1)) + c * 2^(m - 1)
  <2>1. m # 0 /\ m # LONG => x.val = high + low
      BY DEF rcl
  <2>2. m = 1 /\ m # LONG
      BY OneTurn
  <2> HIDE DEF m, x, c
  <2>3. x.val = Shifted(BYTE, d, 1) + (((d \div 2^(BYTE + 1 - 1)) % 2^(1 - 1)) + c * 2^(1 - 1))
      BY <2>1, <2>2
  <2> QED BY <2>3, OneTurn DEF Shifted, Top
<1>4. "CF" \in x.f <=> Bit(d, BYTE - 1)
    BY OneTurn DEF rcl, Set, Flag
<1>5. z = 0
    BY <1>1
<1>6. /\ dm \in 0 .. Top - 1
      /\ d = dm + (IF d >= Top THEN Top ELSE 0)
    BY BelowSign
<1>7. Bit(d, BYTE - 1) <=> d >= Top
    BY <1>1, SignOfByte DEF Sign
<1>8. x.val = 2 * dm + c /\ One(x.f, "CF") = IF d >= Top THEN 1 ELSE 0
    BY <1>2, <1>3, <1>4, <1>5, <1>6, <1>7 DEF One
<1> HIDE DEF x, c, dm
<1>9. x.val \in Byte /\ x.val + Base * One(x.f, "CF") = 2 * d + c
    BY <1>1, <1>2, <1>6, <1>8 DEF Byte
<1> QED BY <1>9 DEF x, c

LEMMA RcrGives ==
  ASSUME NEW fl, NEW d \in Byte
  PROVE  LET x == rcr(BYTE, fl, d, 1)
         IN  /\ x.val \in Byte
             /\ 2 * x.val + One(x.f, "CF") = d + Base * One(fl, "CF")
<1> DEFINE x == rcr(BYTE, fl, d, 1)
           c == One(fl, "CF")
<1>1. Base \in Nat /\ Base >= 1 /\ Top \in Nat /\ Top >= 1 /\ Base = 2 * Top /\ d \in 0 .. Base - 1
    BY Powers DEF Byte
<1>2. c \in {0, 1}
    BY DEF One
<1>3. x.val = d \div 2 + 0 + c * Top
  <2> DEFINE m == 1 % (BYTE + 1)
  <2>1. m # 0 => x.val = d \div 2^m + (IF m = 1 THEN 0 ELSE Shifted(BYTE, d, BYTE + 1 - m))
                            + c * 2^(BYTE - m)
      BY DEF rcr
  <2>2. m = 1
      BY OneTurn
  <2> HIDE DEF m, x, c
  <2>3. x.val = d \div 2^1 + 0 + c * 2^(BYTE - 1)
      BY <2>1, <2>2
  <2> QED BY <2>3, OneTurn DEF Top
<1>4. "CF" \in x.f <=> Bit(d, 0)
    BY OneTurn DEF rcr, Set, Flag
<1>5. PICK q \in Int, t \in 0 .. 1 : d \div 2 = q /\ d % 2 = t /\ d = 2 * q + t
    BY <1>1, Splits
<1>6. Bit(d, 0) <=> t = 1
    BY <1>1, <1>5, OneTurn DEF Bit
<1>7. x.val = q + c * Top /\ One(x.f, "CF") = t
    BY <1>1, <1>2, <1>3, <1>4, <1>5, <1>6 DEF One
<1> HIDE DEF x, c
<1>8. x.val \in Byte /\ 2 * x.val + One(x.f, "CF") = d + Base * c
    BY <1>1, <1>2, <1>5, <1>7 DEF Byte
<1> QED BY <1>8 DEF x, c

-----------------------------------------------------------------------------
\* A byte is two nibbles, and a decimal digit fits one.
Nib == 2^NIBBLE

LEMMA Nibbles ==
  /\ Nib \in Nat /\ Nib >= 2 /\ Base = Nib * Nib
  /\ RADIX \in Nat /\ RADIX >= 1 /\ RADIX <= Nib
  /\ NIBBLE - 1 \in 0 .. BYTE - 1 /\ 2^((NIBBLE - 1) + 1) = Nib
<1>1. BYTE \in Nat /\ BYTE > 0 /\ BYTE % 2 = 0 /\ LONG = 4 * BYTE
    BY WidthAssumption, PowerAssumption DEF LONG
<1>2. NIBBLE \in Nat /\ NIBBLE >= 1 /\ NIBBLE + NIBBLE = BYTE
    BY <1>1 DEF NIBBLE
<1>3. RADIX \in Nat /\ RADIX >= 1 /\ RADIX <= Nib
    BY WidthAssumption DEF Nib
<1> HIDE DEF NIBBLE, LONG
<1>4. /\ NIBBLE \in 0 .. LONG /\ NIBBLE \in 0 .. LONG - NIBBLE
      /\ NIBBLE - 1 \in 0 .. BYTE - 1 /\ (NIBBLE - 1) + 1 = NIBBLE
    BY <1>1, <1>2
<1>5. 2^(NIBBLE + NIBBLE) = Nib * Nib /\ Nib \in Nat
    BY <1>4, PowerAssumption DEF Nib
<1>6. 2^(NIBBLE - 1) \in Nat /\ 2^(NIBBLE - 1) >= 1 /\ Nib = 2 * 2^(NIBBLE - 1)
    BY <1>4, PowerBelow DEF Nib
<1>7. Nib >= 2
    BY <1>6
<1> QED BY <1>2, <1>3, <1>4, <1>5, <1>7 DEF Base, Nib

\* A sum of packed decimal numbers: what ADC leaves in each nibble.
LEMMA PackedSum ==
  ASSUME NEW fl, NEW ah \in 0 .. RADIX - 1, NEW al \in 0 .. RADIX - 1,
         NEW bh \in 0 .. RADIX - 1, NEW bl \in 0 .. RADIX - 1
  PROVE  LET s == adc(BYTE, fl, Nib * ah + al, Nib * bh + bl)
             low == al + bl + One(fl, "CF")
             half == IF low >= Nib THEN 1 ELSE 0
             high == ah + bh + half
         IN  /\ Nib * ah + al \in Byte /\ Nib * bh + bl \in Byte
             /\ "AF" \in s.f <=> low >= Nib
             /\ "CF" \in s.f <=> high >= Nib
             /\ s.val = Nib * (IF high >= Nib THEN high - Nib ELSE high) + (low - Nib * half)
<1> DEFINE N == Nib
           a == N * ah + al
           b == N * bh + bl
           c == One(fl, "CF")
           s == adc(BYTE, fl, a, b)
           low == al + bl + c
           half == IF low >= N THEN 1 ELSE 0
           high == ah + bh + half
           e == a + b + c
           chain == CarryChain(BYTE, a, b, e % Base)
<1>1. /\ N \in Nat /\ N >= 2 /\ Base = N * N /\ RADIX \in Nat /\ RADIX >= 1 /\ RADIX <= N
      /\ NIBBLE - 1 \in 0 .. BYTE - 1 /\ 2^((NIBBLE - 1) + 1) = N
    BY Nibbles
<1>2. c \in {0, 1}
    BY DEF One
<1>3. ah \in 0 .. N - 1 /\ al \in 0 .. N - 1 /\ bh \in 0 .. N - 1 /\ bl \in 0 .. N - 1
    BY <1>1
<1> HIDE DEF N, c
<1>4. a \in Byte /\ b \in Byte
  <2>1. N * ah <= N * (N - 1) /\ N * bh <= N * (N - 1) /\ N * ah >= 0 /\ N * bh >= 0
      BY <1>1, <1>3
  <2> QED BY <1>1, <1>3, <2>1 DEF Byte
<1>5. a % N = al /\ b % N = bl
  <2>1. a = N * ah + al /\ b = N * bh + bl
      OBVIOUS
  <2> HIDE DEF a, b
  <2> QED BY <1>1, <1>3, <2>1, Parted
<1> HIDE DEF a, b
<1>6. NIBBLE - 1 \in chain <=> low >= N
  <2>1. NIBBLE - 1 \in chain <=> (a % N) + (b % N) + c >= N
      BY <1>1, <1>2, <1>4, CarryAt
  <2> QED BY <1>5, <2>1
<1>7. s = Result(BYTE, fl, e % Base, e >= Base, chain)
    BY DEF adc, Base, c
<1>8. "AF" \in s.f <=> low >= N
  <2>1. "AF" \in s.f <=> NIBBLE - 1 \in chain
    <3> DEFINE r == e % Base
               out == e >= Base
    <3>1. s = Result(BYTE, fl, r, out, chain)
        BY <1>7
    <3> HIDE DEF s, r, out, chain
    <3> QED BY <3>1, ResultGives
  <2> QED BY <1>6, <2>1
<1>9. "CF" \in s.f <=> e >= Base
    BY <1>4, AdcGives DEF One, Byte, c
<1>10. s.val = e % Base
    BY <1>4, AdcGives DEF Byte, c
<1>11. half \in {0, 1} /\ low \in Int /\ low - N * half \in 0 .. N - 1 /\ high \in 0 .. 2 * N - 1
    BY <1>1, <1>2, <1>3
<1> DEFINE l == low - N * half
<1>12. e = N * high + l
    BY <1>1, <1>2, <1>3, <1>11 DEF a, b
<1>13. l \in 0 .. N - 1
    BY <1>11
<1> HIDE DEF s, e, half, high, low, l
<1>14. e >= Base <=> high >= N
  <2>1. CASE high >= N
    <3>1. N * high >= N * N
        BY <1>1, <1>11, <2>1
    <3> QED BY <1>1, <1>11, <1>12, <1>13, <2>1, <3>1
  <2>2. CASE high <= N - 1
    <3>1. N * high <= N * (N - 1)
        BY <1>1, <1>11, <2>2
    <3> QED BY <1>1, <1>11, <1>12, <1>13, <2>2, <3>1
  <2> QED BY <1>1, <1>11, <2>1, <2>2
<1> DEFINE k == IF high >= N THEN high - N ELSE high
           r == N * k + l
<1>15. e % Base = r
  <2>1. k \in 0 .. N - 1
      BY <1>1, <1>11
  <2>2. N * k <= N * (N - 1) /\ N * k >= 0
      BY <1>1, <2>1
  <2>3. r \in 0 .. Base - 1 /\ Base \in Nat /\ Base >= 1
    <3> HIDE DEF k
    <3> QED BY <1>1, <1>13, <2>1, <2>2
  <2>4. e = Base * (IF high >= N THEN 1 ELSE 0) + r
      BY <1>1, <1>11, <1>12, <1>13
  <2> HIDE DEF r
  <2> QED BY <2>3, <2>4, Parted
<1> QED BY <1>4, <1>8, <1>9, <1>10, <1>14, <1>15 DEF s, e, half, high, low, l, a, b, c, N

\* DAA turns it into digits.
Leaves(x, total) ==
  \E h \in 0 .. RADIX - 1, l \in 0 .. RADIX - 1 :
    /\ x.val = Nib * h + l
    /\ h * RADIX + l + (RADIX * RADIX) * One(x.f, "CF") = total

LEMMA DaaGives ==
  ASSUME NEW fl, NEW ah \in 0 .. RADIX - 1, NEW al \in 0 .. RADIX - 1,
         NEW bh \in 0 .. RADIX - 1, NEW bl \in 0 .. RADIX - 1
  PROVE  LET s == adc(BYTE, fl, Nib * ah + al, Nib * bh + bl)
         IN  Leaves(daa(s.f, s.val),
               (ah * RADIX + al) + (bh * RADIX + bl) + One(fl, "CF"))
<1> DEFINE N == Nib
           R == RADIX
           c == One(fl, "CF")
           s == adc(BYTE, fl, N * ah + al, N * bh + bl)
           v == s.val
           x == daa(s.f, v)
           low == al + bl + c
           half == IF low >= N THEN 1 ELSE 0
           high == ah + bh + half
           vl == low - N * half
           vh == IF high >= N THEN high - N ELSE high
           fix == v % N > R - 1 \/ "AF" \in s.f
           y == IF fix THEN v + (N - R) ELSE v
           up == y \div N > R - 1 \/ "CF" \in s.f
<1>1. N \in Nat /\ N >= 2 /\ Base = N * N /\ R \in Nat /\ R >= 1 /\ R <= N
    BY Nibbles
<1>2. c \in {0, 1}
    BY DEF One
<1>3. /\ v = N * vh + vl
      /\ "AF" \in s.f <=> low >= N
      /\ "CF" \in s.f <=> high >= N
    BY PackedSum
<1>4. /\ x.val = (IF up THEN y + (N - R) * N ELSE y) % Base
      /\ "CF" \in x.f <=> up
    BY Zenon DEF daa, Digit, NINE, SIX, Base, Nib, Set, Flag, ResultFlags, ZSP
<1>5. ah \in 0 .. R - 1 /\ al \in 0 .. R - 1 /\ bh \in 0 .. R - 1 /\ bl \in 0 .. R - 1
    OBVIOUS
<1> HIDE DEF N, R, c, s, x
<1>6. low \in 0 .. 2 * R - 1 /\ half \in {0, 1} /\ vl \in 0 .. N - 1 /\ vh \in 0 .. N - 1
    BY <1>1, <1>2, <1>5
<1>7. v % N = vl
  <2> HIDE DEF v, vh, vl
  <2> QED BY <1>1, <1>3, <1>6, Parted
<1>8. fix <=> low >= R
    BY <1>1, <1>3, <1>6, <1>7
<1> DEFINE k == IF low >= R THEN 1 ELSE 0
           l == low - R * k
           i == ah + bh + k
           out == IF high >= N THEN 1 ELSE 0
           j == i - N * out
<1>9. k \in {0, 1} /\ l \in 0 .. R - 1 /\ i \in 0 .. 2 * R - 1 /\ out \in {0, 1} /\ j \in Int
    BY <1>1, <1>5, <1>6
<1>10. y = N * j + l
  <2>1. vh = high - N * out
      BY <1>1, <1>5, <1>6
  <2>2. y = N * (high - N * out) + vl + (N - R) * k
      BY <1>1, <1>3, <1>6, <1>8, <2>1
  <2>3. low \in Int /\ half \in Int /\ out \in Int /\ k \in Int /\ ah \in Int /\ bh \in Int
      BY <1>6, <1>9, <1>5, <1>1
  <2> HIDE DEF half, k, low, out, y
  <2> QED BY ONLY <1>1, <2>2, <2>3
<1>11. y \div N = j
  <2> HIDE DEF y, j, l
  <2>1. l \in 0 .. N - 1
      BY <1>1, <1>9
  <2> QED BY <1>1, <1>9, <1>10, <2>1, Parted
<1>12. up <=> i >= R
  <2>1. high >= N => i >= R
      BY <1>1, <1>5, <1>6
  <2>2. ~ (high >= N) => j = i
      BY <1>1, <1>9
  <2> QED BY <1>1, <1>3, <1>9, <1>11, <2>1, <2>2
<1> DEFINE g == IF i >= R THEN 1 ELSE 0
           h == i - R * g
<1>13. g \in {0, 1} /\ h \in 0 .. R - 1
    BY <1>1, <1>9
<1>14. x.val = N * h + l
  <2> DEFINE z == IF up THEN y + (N - R) * N ELSE y
             r == N * h + l
             q == g - out
  <2>1. z = Base * q + r
    <3>1. z = y + ((N - R) * N) * g
        BY <1>1, <1>9, <1>10, <1>12, <1>13
    <3> HIDE DEF z, y, up, i, g, out, l
    <3> QED BY <1>1, <1>9, <1>10, <1>13, <3>1
  <2>2. r \in 0 .. Base - 1 /\ Base \in Nat /\ Base >= 1
    <3>1. N * h <= N * (N - 1) /\ N * h >= 0
      <4> HIDE DEF h
      <4> QED BY <1>1, <1>13
    <3> HIDE DEF h, l
    <3> QED BY <1>1, <1>9, <1>13, <3>1
  <2>3. q \in Int
      BY <1>9, <1>13
  <2>4. x.val = z % Base
      BY <1>4
  <2> HIDE DEF z, q, r
  <2>5. x.val = r
      BY <2>1, <2>2, <2>3, <2>4, Parted
  <2> QED BY <2>5 DEF r
<1>15. One(x.f, "CF") = g
    BY <1>4, <1>12 DEF One
<1>16. h * R + l + (R * R) * g = (ah * R + al) + (bh * R + bl) + c
  <2>1. h * R = i * R - (R * R) * g /\ i * R = ah * R + bh * R + R * k
    <3> HIDE DEF g, k
    <3> QED BY <1>1, <1>5, <1>9, <1>13
  <2> HIDE DEF h, g, i, k
  <2> QED BY <1>1, <1>2, <1>5, <1>9, <1>13, <2>1
<1> HIDE DEF h, l, g
<1>17. \E hh \in 0 .. R - 1, ll \in 0 .. R - 1 :
         /\ x.val = N * hh + ll
         /\ hh * R + ll + (R * R) * One(x.f, "CF") = (ah * R + al) + (bh * R + bl) + c
    BY <1>9, <1>13, <1>14, <1>15, <1>16
<1> QED BY <1>17 DEF N, R, x, s, c, Leaves

\* A difference of packed decimal numbers: what SBB leaves in each nibble.
LEMMA PackedDifference ==
  ASSUME NEW fl, NEW ah \in 0 .. RADIX - 1, NEW al \in 0 .. RADIX - 1,
         NEW bh \in 0 .. RADIX - 1, NEW bl \in 0 .. RADIX - 1
  PROVE  LET s == sbb(BYTE, fl, Nib * ah + al, Nib * bh + bl)
             low == al - bl - One(fl, "CF")
             half == IF low < 0 THEN 1 ELSE 0
             high == ah - bh - half
         IN  /\ "AF" \in s.f <=> low < 0
             /\ "CF" \in s.f <=> high < 0
             /\ s.val = Nib * (IF high < 0 THEN high + Nib ELSE high) + (low + Nib * half)
<1> DEFINE N == Nib
           a == N * ah + al
           b == N * bh + bl
           c == One(fl, "CF")
           s == sbb(BYTE, fl, a, b)
           low == al - bl - c
           half == IF low < 0 THEN 1 ELSE 0
           high == ah - bh - half
           e == a - b - c
           chain == BorrowChain(BYTE, a, b, e % Base)
<1>1. /\ N \in Nat /\ N >= 2 /\ Base = N * N /\ RADIX \in Nat /\ RADIX >= 1 /\ RADIX <= N
      /\ NIBBLE - 1 \in 0 .. BYTE - 1 /\ 2^((NIBBLE - 1) + 1) = N
    BY Nibbles
<1>2. c \in {0, 1}
    BY DEF One
<1>3. ah \in 0 .. N - 1 /\ al \in 0 .. N - 1 /\ bh \in 0 .. N - 1 /\ bl \in 0 .. N - 1
    BY <1>1
<1> HIDE DEF N, c
<1>4. a \in Byte /\ b \in Byte
  <2>1. N * ah <= N * (N - 1) /\ N * bh <= N * (N - 1) /\ N * ah >= 0 /\ N * bh >= 0
      BY <1>1, <1>3
  <2> QED BY <1>1, <1>3, <2>1 DEF Byte
<1>5. a % N = al /\ b % N = bl
  <2>1. a = N * ah + al /\ b = N * bh + bl
      OBVIOUS
  <2> HIDE DEF a, b
  <2> QED BY <1>1, <1>3, <2>1, Parted
<1> HIDE DEF a, b
<1>6. NIBBLE - 1 \in chain <=> low < 0
  <2>1. NIBBLE - 1 \in chain <=> (a % N) - (b % N) - c < 0
      BY <1>1, <1>2, <1>4, BorrowAt
  <2> QED BY <1>5, <2>1
<1>7. s = Result(BYTE, fl, e % Base, BYTE - 1 \in chain, chain)
    BY DEF sbb, Base, c
<1>8. "AF" \in s.f <=> low < 0
  <2>1. "AF" \in s.f <=> NIBBLE - 1 \in chain
    <3> DEFINE r == e % Base
               out == BYTE - 1 \in chain
    <3>1. s = Result(BYTE, fl, r, out, chain)
        BY <1>7
    <3> HIDE DEF s, r, out, chain
    <3> QED BY <3>1, ResultGives
  <2> QED BY <1>6, <2>1
<1>9. ("CF" \in s.f <=> e < 0) /\ s.val = e % Base
    BY <1>4, SbbGives DEF c
<1>11. /\ half \in {0, 1} /\ low \in Int /\ low + N * half \in 0 .. N - 1
       /\ high \in Int /\ high >= - N /\ high < N
    BY <1>1, <1>2, <1>3
<1> DEFINE l == low + N * half
<1>12. e = N * high + l
    BY <1>1, <1>2, <1>3, <1>11 DEF a, b
<1>13. l \in 0 .. N - 1
    BY <1>11
<1> HIDE DEF s, e, half, high, low, l
<1>14. e < 0 <=> high < 0
  <2>1. CASE high < 0
    <3>1. N * high <= - N
        BY <1>1, <1>11, <2>1
    <3> QED BY <1>1, <1>11, <1>12, <1>13, <2>1, <3>1
  <2>2. CASE high >= 0
    <3>1. N * high >= 0
        BY <1>1, <1>11, <2>2
    <3> QED BY <1>1, <1>11, <1>12, <1>13, <2>2, <3>1
  <2> QED BY <1>1, <1>11, <2>1, <2>2
<1> DEFINE k == IF high < 0 THEN high + N ELSE high
           r == N * k + l
<1>15. e % Base = r
  <2>1. k \in 0 .. N - 1
      BY <1>1, <1>11
  <2>2. N * k <= N * (N - 1) /\ N * k >= 0
      BY <1>1, <2>1
  <2>3. r \in 0 .. Base - 1 /\ Base \in Nat /\ Base >= 1
    <3> HIDE DEF k
    <3> QED BY <1>1, <1>13, <2>1, <2>2
  <2> DEFINE q == IF high < 0 THEN -1 ELSE 0
  <2>4. e = Base * q + r /\ q \in Int
      BY <1>1, <1>11, <1>12, <1>13
  <2> HIDE DEF r, q
  <2> QED BY <2>3, <2>4, Parted
<1> QED BY <1>8, <1>9, <1>14, <1>15 DEF s, e, half, high, low, l, a, b, c, N

\* DAS turns it into digits.
LeavesLess(x, total) ==
  \E h \in 0 .. RADIX - 1, l \in 0 .. RADIX - 1 :
    /\ x.val = Nib * h + l
    /\ h * RADIX + l - (RADIX * RADIX) * One(x.f, "CF") = total

LEMMA DasGives ==
  ASSUME NEW fl, NEW ah \in 0 .. RADIX - 1, NEW al \in 0 .. RADIX - 1,
         NEW bh \in 0 .. RADIX - 1, NEW bl \in 0 .. RADIX - 1
  PROVE  LET s == sbb(BYTE, fl, Nib * ah + al, Nib * bh + bl)
         IN  LeavesLess(das(s.f, s.val),
               (ah * RADIX + al) - (bh * RADIX + bl) - One(fl, "CF"))
<1> DEFINE N == Nib
           R == RADIX
           c == One(fl, "CF")
           s == sbb(BYTE, fl, N * ah + al, N * bh + bl)
           v == s.val
           x == das(s.f, v)
           low == al - bl - c
           half == IF low < 0 THEN 1 ELSE 0
           high == ah - bh - half
           vl == low + N * half
           vh == IF high < 0 THEN high + N ELSE high
           fix == v % N > R - 1 \/ "AF" \in s.f
           y == (IF fix THEN v - (N - R) ELSE v) % Base
           up == y \div N > R - 1 \/ "CF" \in s.f
<1>1. N \in Nat /\ N >= 2 /\ Base = N * N /\ Base \in Nat /\ Base >= 1
      /\ R \in Nat /\ R >= 1 /\ R <= N
    BY Nibbles
<1>2. c \in {0, 1}
    BY DEF One
<1>3. /\ v = N * vh + vl
      /\ "AF" \in s.f <=> low < 0
      /\ "CF" \in s.f <=> high < 0
    BY PackedDifference
<1>4. /\ x.val = (IF up THEN y - (N - R) * N ELSE y) % Base
      /\ "CF" \in x.f <=> up
    BY Zenon DEF das, Digit, NINE, SIX, Base, Nib, Set, Flag, ResultFlags, ZSP
<1>5. ah \in 0 .. R - 1 /\ al \in 0 .. R - 1 /\ bh \in 0 .. R - 1 /\ bl \in 0 .. R - 1
    OBVIOUS
<1> HIDE DEF N, R, c, s, x
<1>6. /\ low \in Int /\ low >= - R /\ low < R /\ half \in {0, 1} /\ vl \in 0 .. N - 1
      /\ high \in Int /\ high >= - R /\ high < R /\ vh \in 0 .. N - 1
    BY <1>1, <1>2, <1>5
<1>7. v % N = vl
  <2> HIDE DEF v, vh, vl
  <2> QED BY <1>1, <1>3, <1>6, Parted
<1>8. fix <=> low < 0
    BY <1>1, <1>3, <1>6, <1>7
<1> DEFINE l == low + R * half
           out == IF high < 0 THEN 1 ELSE 0
           h == high + R * out
<1>9. l \in 0 .. R - 1 /\ out \in {0, 1} /\ h \in 0 .. R - 1 /\ vh = high + N * out
    BY <1>1, <1>6
<1>10. y = N * vh + l
  <2> DEFINE z == IF fix THEN v - (N - R) ELSE v
             r == N * vh + l
  <2>1. z = r
      BY <1>1, <1>3, <1>6, <1>8
  <2>2. y = z % Base
      OBVIOUS
  <2>3. r \in 0 .. Base - 1
    <3>1. N * vh <= N * (N - 1) /\ N * vh >= 0
      <4> HIDE DEF vh
      <4> QED BY <1>1, <1>6
    <3> HIDE DEF vh, l
    <3> QED BY <1>1, <1>6, <1>9, <3>1
  <2> HIDE DEF y, z, r
  <2>4. z = Base * 0 + r
      BY <1>1, <2>1, <2>3
  <2>5. y = r
      BY <1>1, <2>2, <2>3, <2>4, Parted
  <2> QED BY <2>5 DEF r
<1>11. y \div N = vh
  <2> HIDE DEF y, vh, l
  <2>1. l \in 0 .. N - 1 /\ vh \in Int
      BY <1>1, <1>6, <1>9
  <2> QED BY <1>1, <1>10, <2>1, Parted
<1>12. up <=> high < 0
    BY <1>1, <1>3, <1>6, <1>11
<1>13. x.val = N * h + l
  <2> DEFINE z == IF up THEN y - (N - R) * N ELSE y
             r == N * h + l
  <2>1. z = Base * 0 + r
      BY <1>1, <1>6, <1>10, <1>12
  <2>2. r \in 0 .. Base - 1
    <3>1. N * h <= N * (N - 1) /\ N * h >= 0
      <4> HIDE DEF h
      <4> QED BY <1>1, <1>9
    <3> HIDE DEF h, l
    <3> QED BY <1>1, <1>9, <3>1
  <2>3. x.val = z % Base
      BY <1>4
  <2> HIDE DEF z, r
  <2>4. x.val = r
      BY <1>1, <2>1, <2>2, <2>3, Parted
  <2> QED BY <2>4 DEF r
<1>14. One(x.f, "CF") = out
    BY <1>4, <1>12 DEF One
<1>15. h * R + l - (R * R) * out = (ah * R + al) - (bh * R + bl) - c
  <2>1. half \in Int /\ out \in Int /\ c \in Int /\ R \in Int
        /\ ah \in Int /\ al \in Int /\ bh \in Int /\ bl \in Int
      BY <1>1, <1>2, <1>5, <1>6, <1>9
  <2> HIDE DEF half, out
  <2> QED BY ONLY <2>1
<1> HIDE DEF h, l, out
<1>16. \E hh \in 0 .. R - 1, ll \in 0 .. R - 1 :
         /\ x.val = N * hh + ll
         /\ hh * R + ll - (R * R) * One(x.f, "CF") = (ah * R + al) - (bh * R + bl) - c
    BY <1>9, <1>13, <1>14, <1>15
<1> QED BY <1>16 DEF N, R, x, s, c, LeavesLess

\* Sums and differences of single digits.  AAA and AAS work on AX, of which AL
\* is stored.
LEMMA DigitRest ==
  ASSUME NEW y \in Int, NEW l \in 0 .. RADIX - 1, NEW q \in Int, y = Nib * q + l
  PROVE  (y % 2^WORD) % Nib = l
<1>1. /\ Nib \in Nat /\ Nib >= 2 /\ Base = Nib * Nib /\ RADIX \in Nat /\ RADIX <= Nib
    BY Nibbles
<1> DEFINE k == Nib * (Nib * Nib)
<1>2. 2^WORD = Nib * k
    BY <1>1, Powers
<1>3. k \in Nat /\ k >= 1 /\ Nib >= 1
    BY <1>1
<1> HIDE DEF k
<1> DEFINE N == Nib
<1> HIDE DEF N
<1>4. (y % (N * k)) % N = y % N
  <2>1. N \in Nat /\ N >= 1
      BY <1>1 DEF N
  <2> QED BY <1>3, <2>1, RestOfRest
<1>5. y % Nib = l
    BY <1>1, Parted
<1> QED BY <1>2, <1>4, <1>5 DEF N

LEMMA AsciiGives ==
  ASSUME NEW fl, NEW v \in Byte, NEW delta \in {1, -1}, NEW l \in 0 .. RADIX - 1,
         NEW q \in Int,
         v + (IF v % Nib > RADIX - 1 \/ "AF" \in fl THEN delta * (Nib - RADIX + Base) ELSE 0)
           = Nib * q + l
  PROVE  LET x == AsciiAdjusted(fl, v, delta)
         IN  /\ x.val % Base = l /\ l \in Byte
             /\ "CF" \in x.f <=> v % Nib > RADIX - 1 \/ "AF" \in fl
<1> DEFINE x == AsciiAdjusted(fl, v, delta)
           fix == v % Nib > RADIX - 1 \/ "AF" \in fl
           y == IF fix THEN v + delta * ((Nib - RADIX) + Base) ELSE v
           z == y % 2^WORD
           w_ == z \div Base
           d == z % Nib
<1>1. /\ Nib \in Nat /\ Nib >= 2 /\ Base = Nib * Nib /\ RADIX \in Nat /\ RADIX <= Nib
      /\ Base \in Nat /\ Base >= 1 /\ v \in Int
      /\ 2^WORD = Base * Base
    BY Nibbles, Powers DEF Byte
<1>2. x.val = w_ * Base + d
    BY Zenon DEF AsciiAdjusted, Digit, NINE, SIX, Base, Nib
<1>3. "CF" \in x.f <=> fix
    BY Zenon DEF AsciiAdjusted, Digit, NINE, SIX, Base, Nib, Set, Flag, ResultFlags, ZSP
<1>4. y \in Int /\ y = Nib * q + l
    BY <1>1
<1>5. d = l
  <2> HIDE DEF y
  <2> QED BY <1>4, DigitRest
<1>6. w_ \in Int
  <2>1. Base * Base \in Nat /\ Base * Base >= 1
      BY <1>1
  <2> HIDE DEF y
  <2> DEFINE m == Base * Base
  <2>2. m \in Nat /\ m >= 1 /\ 2^WORD = m
      BY <1>1, <2>1
  <2> HIDE DEF m
  <2>3. z \in Int
      BY <1>4, <2>2
  <2> HIDE DEF z
  <2> QED BY <1>1, <2>3
<1> HIDE DEF w_, d, x
<1>7. Nib <= Base
    BY <1>1
<1>8. l \in 0 .. Base - 1
    BY <1>1, <1>7
<1>9. x.val = Base * w_ + l
    BY <1>1, <1>2, <1>5, <1>6
<1>10. x.val % Base = l
    BY <1>1, <1>6, <1>8, <1>9, Parted
<1> QED BY <1>3, <1>8, <1>10 DEF Byte, x

LEMMA DigitsAdded ==
  ASSUME NEW fl, NEW a \in 0 .. RADIX - 1, NEW b \in 0 .. RADIX - 1
  PROVE  LET s == adc(BYTE, fl, a, b)
             x == aaa(s.f, s.val)
         IN  /\ x.val % Base \in 0 .. RADIX - 1
             /\ (x.val % Base) + RADIX * One(x.f, "CF") = a + b + One(fl, "CF")
<1> DEFINE N == Nib
           R == RADIX
           c == One(fl, "CF")
           s == adc(BYTE, fl, a, b)
           x == aaa(s.f, s.val)
           e == a + b + c
           v == s.val
           fix == v % N > R - 1 \/ "AF" \in s.f
<1>1. /\ N \in Nat /\ N >= 2 /\ Base = N * N /\ Base >= 2 * N /\ Base \in Nat
      /\ R \in Nat /\ R >= 1 /\ R <= N
    BY Nibbles
<1>2. c \in {0, 1}
    BY DEF One
<1> DEFINE o == 0
           half == IF e >= N THEN 1 ELSE 0
           high == o + o + half
<1>3. /\ "AF" \in s.f <=> e >= N
      /\ v = N * (IF high >= N THEN high - N ELSE high) + (e - N * half)
  <2>1. o \in 0 .. RADIX - 1 /\ Nib * o + a = a /\ Nib * o + b = b
      BY <1>1
  <2> DEFINE t == adc(BYTE, fl, Nib * o + a, Nib * o + b)
  <2> HIDE DEF o
  <2>2. /\ "AF" \in t.f <=> e >= N
        /\ t.val = N * (IF high >= N THEN high - N ELSE high) + (e - N * half)
      BY <2>1, PackedSum
  <2>3. t = s
      BY <2>1
  <2> HIDE DEF t, s
  <2> QED BY <2>2, <2>3
<1>4. /\ "AF" \in s.f <=> e >= N
      /\ v = N * (IF half >= N THEN half - N ELSE half) + (e - N * half)
    BY <1>1, <1>3
<1> HIDE DEF s, x, c, N, R
<1>5. e \in 0 .. 2 * R - 1 /\ a \in 0 .. R - 1 /\ b \in 0 .. R - 1
    BY <1>1, <1>2 DEF R
<1> HIDE DEF e
<1>6. v = e
    BY <1>1, <1>4, <1>5
<1>7. v \in Byte
    BY <1>1, <1>5, <1>6 DEF Byte
<1>8. fix <=> e >= R
  <2>1. CASE e >= N
      BY <1>1, <1>4, <1>5, <2>1
  <2>2. CASE ~ (e >= N)
    <3>1. e = N * 0 + e /\ e \in 0 .. N - 1
        BY <1>1, <1>5, <2>2
    <3>2. e % N = e
        BY <1>1, <3>1, Parted
    <3> QED BY <1>1, <1>4, <1>5, <1>6, <2>2, <3>2
  <2> QED BY <2>1, <2>2
<1> DEFINE k == IF e >= R THEN 1 ELSE 0
           l == e - R * k
           q == (1 + N) * k
<1>9. k \in {0, 1} /\ l \in 0 .. R - 1 /\ q \in Int
    BY <1>1, <1>5
<1>10. v + (IF fix THEN 1 * (N - R + Base) ELSE 0) = N * q + l
    BY <1>1, <1>5, <1>6, <1>8
<1> HIDE DEF l, q
<1>11. x.val % Base = l /\ ("CF" \in x.f <=> fix)
    BY <1>7, <1>9, <1>10, AsciiGives DEF aaa, N, R, x
<1>12. One(x.f, "CF") = k
    BY <1>8, <1>11 DEF One
<1>13. (x.val % Base) \in 0 .. R - 1 /\ (x.val % Base) + R * One(x.f, "CF") = a + b + c
    BY <1>1, <1>5, <1>9, <1>11, <1>12 DEF l, e
<1> QED BY <1>13 DEF x, s, c, R

LEMMA DigitsSubtracted ==
  ASSUME NEW fl, NEW a \in 0 .. RADIX - 1, NEW b \in 0 .. RADIX - 1
  PROVE  LET s == sbb(BYTE, fl, a, b)
             x == aas(s.f, s.val)
         IN  /\ x.val % Base \in 0 .. RADIX - 1
             /\ (x.val % Base) - RADIX * One(x.f, "CF") = a - b - One(fl, "CF")
<1> DEFINE N == Nib
           R == RADIX
           c == One(fl, "CF")
           s == sbb(BYTE, fl, a, b)
           x == aas(s.f, s.val)
           e == a - b - c
           v == s.val
           fix == v % N > R - 1 \/ "AF" \in s.f
           o == 0
           half == IF e < 0 THEN 1 ELSE 0
           high == o - o - half
<1>1. /\ N \in Nat /\ N >= 2 /\ Base = N * N /\ Base >= 2 * N /\ Base \in Nat
      /\ R \in Nat /\ R >= 1 /\ R <= N
    BY Nibbles
<1>2. c \in {0, 1}
    BY DEF One
<1>3. /\ "AF" \in s.f <=> e < 0
      /\ v = N * (IF high < 0 THEN high + N ELSE high) + (e + N * half)
  <2>1. o \in 0 .. RADIX - 1 /\ Nib * o + a = a /\ Nib * o + b = b
      BY <1>1
  <2> DEFINE t == sbb(BYTE, fl, Nib * o + a, Nib * o + b)
  <2> HIDE DEF o
  <2>2. /\ "AF" \in t.f <=> e < 0
        /\ t.val = N * (IF high < 0 THEN high + N ELSE high) + (e + N * half)
      BY <2>1, PackedDifference
  <2>3. t = s
      BY <2>1
  <2> HIDE DEF t, s
  <2> QED BY <2>2, <2>3
<1> HIDE DEF s, x, c, N, R
<1>5. e \in Int /\ e >= - R /\ e < R /\ a \in 0 .. R - 1 /\ b \in 0 .. R - 1
    BY <1>1, <1>2 DEF R
<1> HIDE DEF e
<1>6. v = e + Base * half
    BY <1>1, <1>3, <1>5
<1>7. v \in Byte
    BY <1>1, <1>5, <1>6 DEF Byte
<1>8. fix <=> e < 0
  <2>1. CASE e < 0
      BY <1>3, <2>1
  <2>2. CASE ~ (e < 0)
    <3>1. e = N * 0 + e /\ e \in 0 .. N - 1
        BY <1>1, <1>5, <2>2
    <3>2. e % N = e
        BY <1>1, <3>1, Parted
    <3>3. v = e
        BY <1>1, <1>5, <1>6, <2>2
    <3> QED BY <1>1, <1>3, <1>5, <2>2, <3>2, <3>3
  <2> QED BY <2>1, <2>2
<1> DEFINE l == e + R * half
           q == 0 - half
<1>9. half \in {0, 1} /\ l \in 0 .. R - 1 /\ q \in Int
    BY <1>1, <1>5
<1>10. v + (IF fix THEN (-1) * (N - R + Base) ELSE 0) = N * q + l
  <2>1. CASE e < 0
    <3>1. fix /\ half = 1 /\ v = e + Base /\ q = -1 /\ l = e + R
        BY <1>1, <1>5, <1>6, <1>8, <2>1
    <3> HIDE DEF fix, v, q, l
    <3> QED BY <1>1, <1>5, <3>1
  <2>2. CASE ~ (e < 0)
    <3>1. v = e /\ q = 0 /\ l = e
      <4>1. half = 0
          BY <2>2
      <4> HIDE DEF half, v
      <4> QED BY <1>1, <1>5, <1>6, <4>1
    <3>2. ~ fix
        BY <1>8, <2>2
    <3> HIDE DEF fix, v, q, l
    <3> QED BY <1>1, <1>5, <3>1, <3>2
  <2> QED BY <2>1, <2>2
<1> HIDE DEF l, q
<1>11. x.val % Base = l /\ ("CF" \in x.f <=> fix)
    BY <1>7, <1>9, <1>10, AsciiGives DEF aas, N, R, x
<1>12. One(x.f, "CF") = half
    BY <1>8, <1>11 DEF One
<1>13. (x.val % Base) \in 0 .. R - 1 /\ (x.val % Base) - R * One(x.f, "CF") = a - b - c
    BY <1>1, <1>5, <1>9, <1>11, <1>12 DEF l, e
<1> QED BY <1>13 DEF x, s, c, R

\* AAM splits, AAD joins.
LEMMA AamGives ==
  ASSUME NEW fl, NEW d \in Byte
  PROVE  LET x == aam(fl, d)
         IN  /\ x.val % Base \in 0 .. RADIX - 1 /\ x.val \div Base \in Byte
             /\ x.val % Base \in Byte
             /\ RADIX * (x.val \div Base) + (x.val % Base) = d
<1> DEFINE x == aam(fl, d)
           R == RADIX
<1>1. /\ Nib \in Nat /\ Nib >= 2 /\ Base = Nib * Nib /\ Base \in Nat /\ Base >= 1
      /\ R \in Nat /\ R >= 1 /\ R <= Nib /\ Nib <= Base /\ d \in 0 .. Base - 1
    BY Nibbles DEF Byte
<1> HIDE DEF R
<1>2. PICK q \in Int, t \in 0 .. R - 1 : d \div R = q /\ d % R = t /\ d = R * q + t
    BY <1>1, Splits
<1>3. q \in 0 .. Base - 1
  <2>1. CASE q <= -1
    <3>1. R * q <= - R
        BY <1>1, <1>2, <2>1
    <3> QED BY <1>1, <1>2, <3>1
  <2>2. CASE q >= 0
    <3>1. R * q >= q
        BY <1>1, <1>2, <2>2
    <3> QED BY <1>1, <1>2, <2>2, <3>1
  <2> QED BY <1>2, <2>1, <2>2
<1>4. x.val = t + q * Base
    BY <1>2 DEF aam, Base, R
<1>5. x.val = Base * q + t /\ t \in 0 .. Base - 1
    BY <1>1, <1>2, <1>3, <1>4
<1> HIDE DEF x
<1>6. x.val \div Base = q /\ x.val % Base = t
    BY <1>1, <1>2, <1>5, Parted
<1> QED BY <1>1, <1>2, <1>3, <1>5, <1>6 DEF x, R, Byte

LEMMA AadGives ==
  ASSUME NEW fl, NEW h \in Byte, NEW l \in Byte, RADIX * h + l \in Byte
  PROVE  LET x == aad(fl, h * Base + l)
         IN  x.val % Base = RADIX * h + l /\ x.val \div Base = 0
<1> DEFINE y == h * Base + l
           x == aad(fl, y)
           r == RADIX * h + l
<1>1. /\ Base \in Nat /\ Base >= 1 /\ h \in 0 .. Base - 1 /\ l \in 0 .. Base - 1
      /\ RADIX \in Nat /\ r \in 0 .. Base - 1
    BY Nibbles DEF Byte
<1>2. y = Base * h + l
    BY <1>1
<1>3. x.val = ((y % Base) + RADIX * (y \div Base)) % Base
    BY DEF aad, Base
<1> HIDE DEF x, y
<1>4. y \div Base = h /\ y % Base = l
    BY <1>1, <1>2, Parted
<1>5. l + RADIX * h = r
    BY <1>1
<1>6. x.val = r % Base
    BY <1>3, <1>4, <1>5
<1> HIDE DEF r
<1>7. r = Base * 0 + r
    BY <1>1
<1>8. r \div Base = 0 /\ r % Base = r
    BY <1>1, <1>7, Parted
<1> QED BY <1>6, <1>8 DEF r, x, y

-----------------------------------------------------------------------------
\* Rotations and shifts of a number of any width.  A rotation by k places turns
\* the number: what is below a place goes above the rest.

\* The width of an operand.
Width(v) == v \in {BYTE, WORD, LONG}

\* What is known of the powers of two up to the width.
LEMMA WidthPowers ==
  ASSUME NEW v, Width(v)
  PROVE  /\ v \in Nat /\ v >= 2 /\ v <= LONG /\ 2^0 = 1 /\ 2^1 = 2
         /\ \A k \in 0 .. v : /\ 2^k \in Nat /\ 2^k >= 1 /\ v - k \in 0 .. v
                              /\ 2^(v - k) \in Nat /\ 2^(v - k) >= 1
                              /\ 2^k * 2^(v - k) = 2^v
         /\ \A k \in 1 .. v : 2^k = 2 * 2^(k - 1) /\ 2^(v - (k - 1)) = 2 * 2^(v - k)
<1>1. BYTE \in Nat /\ BYTE >= 2 /\ WORD = 2 * BYTE /\ LONG = 4 * BYTE /\ LONG \in Nat
    BY WidthAssumption, PowerAssumption DEF WORD, LONG
<1> HIDE DEF WORD, LONG
<1>2. v \in Nat /\ v >= 2 /\ v <= LONG
    BY <1>1 DEF Width
<1>3. \A a, b \in Nat : a + b <= LONG =>
         2^a \in Nat /\ 2^a >= 1 /\ 2^(a + b) = 2^a * 2^b
  <2> SUFFICES ASSUME NEW a \in Nat, NEW b \in Nat, a + b <= LONG
               PROVE  2^a \in Nat /\ 2^a >= 1 /\ 2^(a + b) = 2^a * 2^b
      OBVIOUS
  <2>1. a \in 0 .. LONG /\ b \in 0 .. LONG - a
      BY <1>1
  <2> QED BY <2>1, PowerAssumption
<1>4. 2^1 = 2
    BY PowerAssumption
<1>5. 2^0 = 1
  <2>1. 2^(0 + 0) = 2^0 * 2^0 /\ 2^0 \in Nat /\ 2^0 >= 1
      BY <1>1, <1>3
  <2> DEFINE z == 2^0
  <2>2. z = z * z /\ z \in Nat /\ z >= 1
      BY <2>1
  <2> HIDE DEF z
  <2>3. z >= 2 => z * z >= 2 * z
      BY <2>2
  <2>4. z = 1
      BY <2>2, <2>3
  <2> QED BY <2>4 DEF z
<1>6. ASSUME NEW k \in 0 .. v
      PROVE  /\ 2^k \in Nat /\ 2^k >= 1 /\ v - k \in 0 .. v
             /\ 2^(v - k) \in Nat /\ 2^(v - k) >= 1
             /\ 2^k * 2^(v - k) = 2^v
  <2>1. k \in Nat /\ v - k \in Nat /\ k + (v - k) = v /\ k + (v - k) <= LONG
        /\ (v - k) + 0 <= LONG
      BY <1>2, <1>1
  <2> QED BY <2>1, <1>3, <1>2
<1>7. \A k \in Nat : k >= 1 /\ k <= LONG => 2^k = 2 * 2^(k - 1)
  <2> SUFFICES ASSUME NEW k \in Nat, k >= 1, k <= LONG
               PROVE  2^k = 2 * 2^(k - 1)
      OBVIOUS
  <2>1. k - 1 \in Nat /\ 1 \in Nat /\ (k - 1) + 1 = k
      OBVIOUS
  <2>2. 2^((k - 1) + 1) = 2^(k - 1) * 2^1 /\ 2^(k - 1) \in Nat
      BY <2>1, <1>3
  <2> QED BY <2>1, <2>2, <1>4
<1>8. ASSUME NEW k \in 1 .. v
      PROVE  2^k = 2 * 2^(k - 1) /\ 2^(v - (k - 1)) = 2 * 2^(v - k)
  <2>1. k \in Nat /\ k >= 1 /\ k <= LONG /\ v - (k - 1) \in Nat /\ v - (k - 1) >= 1
        /\ v - (k - 1) <= LONG /\ (v - (k - 1)) - 1 = v - k
      BY <1>1, <1>2
  <2> QED BY <2>1, <1>7
<1> QED BY <1>2, <1>4, <1>5, <1>6, <1>8

\* The number x of places P * Q, turned left by the places of P.
Turned(x, P, Q) == (x % Q) * P + x \div Q

\* The number is q with r below it.
Places(x, Q, q, r) ==
  Q \in Nat /\ Q >= 1 /\ q \in Int /\ r \in 0 .. Q - 1 /\ x = Q * q + r

\* Quotient and remainder are known from the parts.
LEMMA PlacesGive ==
  ASSUME NEW x, NEW Q, NEW q, NEW r, Places(x, Q, q, r)
  PROVE  x \div Q = q /\ x % Q = r
BY Parted DEF Places

LEMMA TurnedParts ==
  ASSUME NEW x, NEW P, NEW Q, NEW q, NEW r, Places(x, Q, q, r)
  PROVE  Turned(x, P, Q) = r * P + q
BY PlacesGive, Zenon DEF Turned

\* What lies below a product.
LEMMA PlaceBelow ==
  ASSUME NEW P \in Nat, P >= 1, NEW Q \in Nat, Q >= 1, NEW q \in 0 .. P - 1, NEW r \in 0 .. Q - 1
  PROVE  Q * q + r \in 0 .. P * Q - 1
<1>1. Q * q <= Q * (P - 1) /\ Q * q >= 0
    OBVIOUS
<1> DEFINE a == Q * q
           b == P * Q
<1>2. a \in Int /\ b \in Int /\ a >= 0 /\ a <= b - Q
    BY <1>1
<1> HIDE DEF a, b
<1>3. a + r \in 0 .. b - 1
    BY <1>2
<1> QED BY <1>3 DEF a, b

\* Every number below a product has its parts.
LEMMA PlaceParts ==
  ASSUME NEW P \in Nat, P >= 1, NEW Q \in Nat, Q >= 1, NEW x \in 0 .. P * Q - 1
  PROVE  \E q \in 0 .. P - 1, r \in 0 .. Q - 1 :
           x \div Q = q /\ x % Q = r /\ x = Q * q + r /\ Turned(x, P, Q) = r * P + q
<1>1. PICK q \in Int, r \in 0 .. Q - 1 : x \div Q = q /\ x % Q = r /\ x = Q * q + r
    BY Splits
<1>2. Turned(x, P, Q) = r * P + q
    BY <1>1 DEF Turned
<1> DEFINE V == P * Q
<1>3. V \in Nat /\ x \in 0 .. V - 1
    BY <1>1
<1>4. q >= P => Q * q >= V
    BY <1>1
<1>5. q <= -1 => Q * q <= - Q
    BY <1>1
<1> HIDE DEF V
<1>6. Q * q \in Int
    BY <1>1
<1>7. q \in 0 .. P - 1
  <2> DEFINE b == Q * q
  <2>1. b \in Int /\ (q >= P => b >= V) /\ (q <= -1 => b <= - Q) /\ x = b + r
      BY <1>1, <1>4, <1>5, <1>6
  <2> HIDE DEF b
  <2> QED BY <1>1, <1>3, <2>1
<1> QED BY <1>1, <1>2, <1>7

\* A turned number has as many places, and turns back.
LEMMA TurnedBelow ==
  ASSUME NEW P \in Nat, P >= 1, NEW Q \in Nat, Q >= 1, NEW x \in 0 .. P * Q - 1
  PROVE  Turned(x, P, Q) \in 0 .. P * Q - 1
<1>1. PICK q \in 0 .. P - 1, r \in 0 .. Q - 1 :
        x \div Q = q /\ x % Q = r /\ x = Q * q + r /\ Turned(x, P, Q) = r * P + q
    BY PlaceParts
<1>2. P * r + q \in 0 .. Q * P - 1
    BY <1>1, PlaceBelow
<1>3. P * r + q = r * P + q /\ Q * P = P * Q
    BY <1>1
<1> QED BY <1>1, <1>2, <1>3

LEMMA TurnBack ==
  ASSUME NEW P \in Nat, P >= 1, NEW Q \in Nat, Q >= 1, NEW x \in 0 .. P * Q - 1
  PROVE  Turned(Turned(x, P, Q), Q, P) = x
<1>1. PICK q \in 0 .. P - 1, r \in 0 .. Q - 1 :
        x \div Q = q /\ x % Q = r /\ x = Q * q + r /\ Turned(x, P, Q) = r * P + q
    BY PlaceParts
<1> DEFINE y == Turned(x, P, Q)
<1>2. y = P * r + q
    BY <1>1
<1> HIDE DEF y
<1>3. Places(y, P, r, q)
    BY <1>1, <1>2 DEF Places
<1>4. Turned(y, Q, P) = q * Q + r
    BY <1>3, TurnedParts
<1>5. q * Q + r = Q * q + r
    BY <1>1
<1> QED BY <1>1, <1>4, <1>5 DEF y

\* All the way round is nowhere.
LEMMA TurnedWhole ==
  ASSUME NEW V \in Nat, V >= 1, NEW x \in 0 .. V - 1
  PROVE  Turned(x, 1, V) = x /\ Turned(x, V, 1) = x
<1>1. Places(x, V, 0, x) /\ Places(x, 1, x, 0)
    BY DEF Places
<1>2. Turned(x, 1, V) = x * 1 + 0
    BY <1>1, TurnedParts
<1>3. Turned(x, V, 1) = 0 * V + x
    BY <1>1, TurnedParts
<1> QED BY <1>2, <1>3

\* One place more to the left, and to the right.
LEMMA TurnLeft ==
  ASSUME NEW P \in Nat, P >= 1, NEW H \in Nat, H >= 1, NEW x \in 0 .. P * (2 * H) - 1
  PROVE  Turned(Turned(x, P, 2 * H), 2, P * H) = Turned(x, 2 * P, H)
<1> DEFINE Q == 2 * H
<1>0. Q \in Nat /\ Q >= 1 /\ x \in 0 .. P * Q - 1
    OBVIOUS
<1>1. PICK a \in 0 .. P - 1, b \in 0 .. Q - 1 :
        x = Q * a + b /\ Turned(x, P, Q) = b * P + a
  <2> HIDE DEF Q
  <2> QED BY <1>0, PlaceParts
<1>2. PICK e \in {0, 1}, g \in 0 .. H - 1 : b = H * e + g
  <2>1. b \in 0 .. 2 * H - 1
      BY <1>1
  <2>2. CASE b < H
      BY <2>1, <2>2
  <2>3. CASE b >= H
      <3>1. b = H * 1 + (b - H) /\ b - H \in 0 .. H - 1
          BY <2>1, <2>3
      <3> QED BY <3>1
  <2> QED BY <2>1, <2>2, <2>3
<1> DEFINE y == Turned(x, P, Q)
           t == P * g + a
           V == P * H
<1>3. t \in 0 .. H * P - 1
    BY <1>1, <1>2, PlaceBelow
<1>4. V \in Nat /\ V >= 1 /\ H * P = V
    OBVIOUS
<1>5. y = V * e + t
  <2>1. y = (H * e + g) * P + a
      BY <1>1, <1>2
  <2>2. (H * e + g) * P + a = V * e + t
      BY <1>1, <1>2
  <2> QED BY <2>1, <2>2
<1>6. x = H * (2 * a + e) + g
    BY <1>1, <1>2
<1>7. Turned(y, 2, V) = t * 2 + e
  <2>1. t \in 0 .. V - 1 /\ e \in Int
      BY <1>2, <1>3, <1>4
  <2> HIDE DEF y, t, V
  <2>2. Places(y, V, e, t)
      BY <1>4, <1>5, <2>1 DEF Places
  <2> QED BY <2>2, TurnedParts
<1>8. Turned(x, 2 * P, H) = g * (2 * P) + (2 * a + e)
  <2>1. Places(x, H, 2 * a + e, g)
      BY <1>1, <1>2, <1>6 DEF Places
  <2> QED BY <2>1, TurnedParts
<1>9. t * 2 + e = g * (2 * P) + (2 * a + e)
    BY <1>1, <1>2
<1> QED BY <1>7, <1>8, <1>9

LEMMA TurnRight ==
  ASSUME NEW P \in Nat, P >= 1, NEW Q \in Nat, Q >= 1, NEW x \in 0 .. (2 * P) * Q - 1
  PROVE  Turned(Turned(x, 2 * P, Q), P * Q, 2) = Turned(x, P, 2 * Q)
<1> DEFINE R == 2 * P
<1>0. R \in Nat /\ R >= 1 /\ x \in 0 .. R * Q - 1
    OBVIOUS
<1>1. PICK a \in 0 .. R - 1, b \in 0 .. Q - 1 :
        x = Q * a + b /\ Turned(x, R, Q) = b * R + a
  <2> HIDE DEF R
  <2> QED BY <1>0, PlaceParts
<1>2. PICK c \in Int, e \in 0 .. 2 - 1 : a \div 2 = c /\ a % 2 = e /\ a = 2 * c + e
  <2>1. a \in Int /\ 2 \in Nat /\ 2 >= 1
      BY <1>1
  <2> QED BY <2>1
<1> DEFINE y == Turned(x, R, Q)
           V == P * Q
<1>3. V \in Nat /\ V >= 1
    OBVIOUS
<1>4. y = 2 * (P * b + c) + e
  <2>1. y = b * (2 * P) + (2 * c + e)
      BY <1>1, <1>2
  <2> QED BY <1>1, <1>2, <2>1
<1>5. Turned(y, V, 2) = e * V + (P * b + c)
  <2> DEFINE s == P * b + c
  <2>1. s \in Int /\ y = 2 * s + e
      BY <1>1, <1>2, <1>4
  <2> HIDE DEF y, V, s
  <2>2. Places(y, 2, s, e)
      BY <1>2, <2>1 DEF Places
  <2>3. Turned(y, V, 2) = e * V + s
      BY <2>2, TurnedParts
  <2> QED BY <2>3 DEF s
<1>6. x = (2 * Q) * c + (Q * e + b) /\ Q * e + b \in 0 .. 2 * Q - 1
    BY <1>1, <1>2
<1>7. Turned(x, P, 2 * Q) = (Q * e + b) * P + c
  <2>1. Places(x, 2 * Q, c, Q * e + b)
      BY <1>2, <1>6 DEF Places
  <2> QED BY <2>1, TurnedParts
<1>8. e * V + (P * b + c) = (Q * e + b) * P + c
    BY <1>1, <1>2
<1> QED BY <1>5, <1>7, <1>8

\* The sign is the top half.
LEMMA TopBit ==
  ASSUME NEW v, Width(v), NEW x \in 0 .. 2^v - 1
  PROVE  /\ 2^(v - 1) \in Nat /\ 2^(v - 1) >= 1 /\ 2^v = 2 * 2^(v - 1)
         /\ Sign(v, x) <=> x >= 2^(v - 1)
<1> DEFINE T == 2^(v - 1)
           W == 2^v
<1>1. v \in Nat /\ v >= 2 /\ 1 \in 0 .. v /\ v \in 1 .. v
    BY WidthPowers
<1>2. T \in Nat /\ T >= 1 /\ W = 2 * T
    BY <1>1, WidthPowers
<1>3. x \in Nat /\ x < 2 * T
    BY <1>2
<1> HIDE DEF T
<1>4. (x \div T) % 2 = 1 <=> x >= T
    BY <1>2, <1>3, UpperHalf
<1> QED BY <1>2, <1>4 DEF T, Sign, Bit

LEMMA TopPower ==
  ASSUME NEW v, Width(v)
  PROVE  /\ 2^(v - 1) \in Nat /\ 2^(v - 1) >= 1
         /\ 2^v = 2 * 2^(v - 1) /\ 2^v \in Nat /\ 2^v >= 1
<1>1. v \in Nat /\ v >= 2 /\ 1 \in 0 .. v /\ v \in 1 .. v /\ v \in 0 .. v
    BY WidthPowers
<1> QED BY <1>1, WidthPowers

\* One more, counted round.
LEMMA NextCount ==
  ASSUME NEW k \in Nat, NEW m \in Nat, m >= 2
  PROVE  /\ k % m \in 0 .. m - 1
         /\ (k + 1) % m = IF k % m = m - 1 THEN 0 ELSE (k % m) + 1
<1>1. PICK q \in Int, t \in 0 .. m - 1 : k \div m = q /\ k % m = t /\ k = m * q + t
    BY Splits
<1>2. CASE t = m - 1
  <2>1. Places(k + 1, m, q + 1, 0)
      BY <1>1, <1>2 DEF Places
  <2> QED BY <1>1, <1>2, <2>1, PlacesGive
<1>3. CASE t # m - 1
  <2>1. Places(k + 1, m, q, t + 1)
      BY <1>1, <1>3 DEF Places
  <2> QED BY <1>1, <1>3, <2>1, PlacesGive
<1> QED BY <1>2, <1>3

\* A rotation by k places, whatever k.
Rolled(v, k, d) == Turned(d, 2^(k % v), 2^(v - (k % v)))
Rored(v, k, d) == Turned(d, 2^(v - (k % v)), 2^(k % v))

\* One place more by one place more.
LEMMA RolledNext ==
  ASSUME NEW v, Width(v), NEW d \in 0 .. 2^v - 1, NEW k \in Nat
  PROVE  /\ Rolled(v, k, d) \in 0 .. 2^v - 1
         /\ Turned(Rolled(v, k, d), 2, 2^(v - 1)) = Rolled(v, k + 1, d)
<1> DEFINE m == k % v
           P == 2^m
           H == 2^(v - (m + 1))
           T == 2^(v - 1)
           W == 2^v
<1>1. v \in Nat /\ v >= 2
    BY WidthPowers
<1>2. m \in 0 .. v - 1 /\ (k + 1) % v = IF m = v - 1 THEN 0 ELSE m + 1
    BY <1>1, NextCount
<1> HIDE DEF m
<1>3. m \in 0 .. v /\ m + 1 \in 1 .. v /\ m + 1 \in 0 .. v /\ 1 \in 0 .. v /\ (m + 1) - 1 = m
    BY <1>1, <1>2
<1>4. /\ P \in Nat /\ P >= 1 /\ H \in Nat /\ H >= 1 /\ T \in Nat /\ T >= 1
      /\ 2^(v - m) = 2 * H /\ 2^(m + 1) = 2 * P /\ P * 2^(v - m) = W
      /\ 2^0 = 1 /\ W = 2 * T /\ W \in Nat /\ W >= 1
  <2>1. 2^(m + 1) = 2 * 2^((m + 1) - 1) /\ 2^(v - ((m + 1) - 1)) = 2 * 2^(v - (m + 1))
      BY <1>3, WidthPowers
  <2>2. T \in Nat /\ T >= 1 /\ W = 2 * T
      BY TopBit
  <2> QED BY <1>3, <2>1, <2>2, WidthPowers
<1>5. Rolled(v, k, d) = Turned(d, P, 2 * H)
    BY <1>4 DEF Rolled, m
<1>6. P * (2 * H) = W /\ P * H = T
  <2> HIDE DEF P, H, T, W
  <2>1. P * (2 * H) = W
      BY <1>4
  <2>2. P * (2 * H) = 2 * (P * H) /\ P * H \in Nat
      BY <1>4
  <2> QED BY <1>4, <2>1, <2>2
<1>7. Rolled(v, k + 1, d) = Turned(d, 2 * P, H)
  <2>1. CASE m = v - 1
    <3>1. (k + 1) % v = 0 /\ v - 0 = v /\ v - (m + 1) = 0 /\ m + 1 = v
        BY <1>1, <1>2, <2>1
    <3>2. Rolled(v, k + 1, d) = Turned(d, 1, W) /\ H = 1 /\ 2 * P = W
        BY <1>4, <3>1 DEF Rolled
    <3>3. Turned(d, 1, W) = d /\ Turned(d, W, 1) = d
      <4>1. W \in Nat /\ W >= 1 /\ d \in 0 .. W - 1
          BY <1>4
      <4> HIDE DEF W
      <4> QED BY <4>1, TurnedWhole
    <3> QED BY <3>2, <3>3
  <2>2. CASE m # v - 1
    <3>1. (k + 1) % v = m + 1
        BY <1>2, <2>2
    <3> QED BY <1>4, <3>1 DEF Rolled
  <2> QED BY <2>1, <2>2
<1>8. d \in 0 .. P * (2 * H) - 1
    BY <1>6
<1> HIDE DEF P, H, T, W
<1>9. Turned(Turned(d, P, 2 * H), 2, P * H) = Turned(d, 2 * P, H)
    BY <1>4, <1>8, TurnLeft
<1>10. Turned(d, P, 2 * H) \in 0 .. P * (2 * H) - 1
  <2>1. 2 * H \in Nat /\ 2 * H >= 1
      BY <1>4
  <2> QED BY <1>4, <1>8, <2>1, TurnedBelow
<1> QED BY <1>5, <1>6, <1>7, <1>9, <1>10 DEF W, T

LEMMA RoredNext ==
  ASSUME NEW v, Width(v), NEW d \in 0 .. 2^v - 1, NEW k \in Nat
  PROVE  /\ Rored(v, k, d) \in 0 .. 2^v - 1
         /\ Turned(Rored(v, k, d), 2^(v - 1), 2) = Rored(v, k + 1, d)
<1> DEFINE m == k % v
           Q == 2^m
           P == 2^(v - (m + 1))
           T == 2^(v - 1)
           W == 2^v
<1>1. v \in Nat /\ v >= 2
    BY WidthPowers
<1>2. m \in 0 .. v - 1 /\ (k + 1) % v = IF m = v - 1 THEN 0 ELSE m + 1
    BY <1>1, NextCount
<1> HIDE DEF m
<1>3. m \in 0 .. v /\ m + 1 \in 1 .. v /\ m + 1 \in 0 .. v /\ 1 \in 0 .. v /\ (m + 1) - 1 = m
    BY <1>1, <1>2
<1>4. /\ P \in Nat /\ P >= 1 /\ Q \in Nat /\ Q >= 1 /\ T \in Nat /\ T >= 1
      /\ 2^(v - m) = 2 * P /\ 2^(m + 1) = 2 * Q /\ Q * 2^(v - m) = W
      /\ 2^0 = 1 /\ W = 2 * T /\ W \in Nat /\ W >= 1
  <2>1. 2^(m + 1) = 2 * 2^((m + 1) - 1) /\ 2^(v - ((m + 1) - 1)) = 2 * 2^(v - (m + 1))
      BY <1>3, WidthPowers
  <2>2. T \in Nat /\ T >= 1 /\ W = 2 * T
      BY TopBit
  <2> QED BY <1>3, <2>1, <2>2, WidthPowers
<1>5. Rored(v, k, d) = Turned(d, 2 * P, Q)
    BY <1>4 DEF Rored, m
<1>6. (2 * P) * Q = W /\ P * Q = T
  <2> HIDE DEF P, Q, T, W
  <2>1. Q * (2 * P) = W
      BY <1>4
  <2>2. Q * (2 * P) = 2 * (P * Q) /\ P * Q \in Nat /\ (2 * P) * Q = 2 * (P * Q)
      BY <1>4
  <2> QED BY <1>4, <2>1, <2>2
<1>7. Rored(v, k + 1, d) = Turned(d, P, 2 * Q)
  <2>1. CASE m = v - 1
    <3>1. (k + 1) % v = 0 /\ v - 0 = v /\ v - (m + 1) = 0 /\ m + 1 = v
        BY <1>1, <1>2, <2>1
    <3>2. Rored(v, k + 1, d) = Turned(d, W, 1) /\ P = 1 /\ 2 * Q = W
        BY <1>4, <3>1 DEF Rored
    <3>3. Turned(d, 1, W) = d /\ Turned(d, W, 1) = d
      <4>1. W \in Nat /\ W >= 1 /\ d \in 0 .. W - 1
          BY <1>4
      <4> HIDE DEF W
      <4> QED BY <4>1, TurnedWhole
    <3> QED BY <3>2, <3>3
  <2>2. CASE m # v - 1
    <3>1. (k + 1) % v = m + 1
        BY <1>2, <2>2
    <3> QED BY <1>4, <3>1 DEF Rored
  <2> QED BY <2>1, <2>2
<1>8. d \in 0 .. (2 * P) * Q - 1
    BY <1>6
<1> HIDE DEF P, Q, T, W
<1>9. Turned(Turned(d, 2 * P, Q), P * Q, 2) = Turned(d, P, 2 * Q)
    BY <1>4, <1>8, TurnRight
<1>10. Turned(d, 2 * P, Q) \in 0 .. (2 * P) * Q - 1
  <2>1. 2 * P \in Nat /\ 2 * P >= 1
      BY <1>4
  <2> QED BY <1>4, <1>8, <2>1, TurnedBelow
<1> QED BY <1>5, <1>6, <1>7, <1>9, <1>10 DEF W, T
-----------------------------------------------------------------------------
\* What the rotations give, the carry left out and the carry taken along.

\* ROL and ROR by any count: the result, and the carry beside it.
RolCount(v, fl, d, s) ==
  LET x == rol(v, fl, d, s)
  IN  /\ x.val = Rolled(v, s, d)
      /\ s = 0 => x.f = fl
      /\ s > 0 => (("CF" \in x.f) <=> Bit(x.val, 0))
      /\ x.f \cap ZSP = fl \cap ZSP

LEMMA RolGives ==
  ASSUME NEW v, Width(v), NEW fl, NEW d \in 0 .. 2^v - 1, NEW s \in Nat
  PROVE  RolCount(v, fl, d, s)
<1> DEFINE x == rol(v, fl, d, s)
<1>1. x.val = Rolled(v, s, d)
    BY DEF rol, Rolled, Turned, Shifted
<1>2. s = 0 => x.f = fl
    BY DEF rol
<1>3. s # 0 => (("CF" \in x.f) <=> Bit(x.val, 0))
    BY Zenon DEF rol, Set, Flag
<1>4. x.f \cap ZSP = fl \cap ZSP
    BY Zenon DEF rol, Set, Flag, ZSP
<1> QED BY <1>1, <1>2, <1>3, <1>4 DEF RolCount

RorCount(v, fl, d, s) ==
  LET x == ror(v, fl, d, s)
  IN  /\ x.val = Rored(v, s, d)
      /\ s = 0 => x.f = fl
      /\ s > 0 => (("CF" \in x.f) <=> Sign(v, x.val))
      /\ x.f \cap ZSP = fl \cap ZSP

LEMMA RorGives ==
  ASSUME NEW v, Width(v), NEW fl, NEW d \in 0 .. 2^v - 1, NEW s \in Nat
  PROVE  RorCount(v, fl, d, s)
<1> DEFINE x == ror(v, fl, d, s)
           n == s % v
<1>1. v \in Nat /\ v >= 2 /\ n \in 0 .. v - 1
    BY WidthPowers
<1>2. ASSUME n = 0
      PROVE  x.val = Rored(v, s, d)
  <2> HIDE DEF n
  <2>1. v - n = v /\ 2^n = 1
      BY <1>1, <1>2, WidthPowers
  <2>5. x.val = d
      BY <1>2, Zenon DEF ror, n
  <2>2. 2^v \in Nat /\ 2^v >= 1
      BY <1>1, WidthPowers
  <2>3. Turned(d, 2^v, 1) = d
    <3> DEFINE W == 2^v
    <3>1. W \in Nat /\ W >= 1 /\ d \in 0 .. W - 1
        BY <2>2
    <3> HIDE DEF W
    <3>2. Turned(d, W, 1) = d
        BY <3>1, TurnedWhole
    <3> QED BY <3>2 DEF W
  <2>4. Rored(v, s, d) = Turned(d, 2^v, 1)
      BY <2>1 DEF Rored, n
  <2> QED BY <2>5, <2>3, <2>4
<1>3. ASSUME n # 0
      PROVE  x.val = Rored(v, s, d)
  <2>1. v - (v - n) = n
      BY <1>1
  <2> QED BY <1>3, <2>1 DEF ror, Rored, Turned, Shifted
<1>4. x.val = Rored(v, s, d)
    BY <1>2, <1>3
<1>5. s = 0 => x.f = fl
    BY DEF ror
<1>6. s # 0 => (("CF" \in x.f) <=> Sign(v, x.val))
    BY Zenon DEF ror, Set, Flag
<1>7. x.f \cap ZSP = fl \cap ZSP
    BY Zenon DEF ror, Set, Flag, ZSP
<1> QED BY <1>4, <1>5, <1>6, <1>7 DEF RorCount

\* What one rotation does the other undoes.
LEMMA RotatedBack ==
  ASSUME NEW v, Width(v), NEW d \in 0 .. 2^v - 1, NEW s \in Nat
  PROVE  /\ Rored(v, s, Rolled(v, s, d)) = d
         /\ Rolled(v, s, Rored(v, s, d)) = d
<1> DEFINE P == 2^(s % v)
           Q == 2^(v - (s % v))
<1>1. v \in Nat /\ v >= 2 /\ s % v \in 0 .. v
    BY WidthPowers
<1>2. P \in Nat /\ P >= 1 /\ Q \in Nat /\ Q >= 1 /\ d \in 0 .. P * Q - 1 /\ d \in 0 .. Q * P - 1
  <2>1. P \in Nat /\ P >= 1 /\ Q \in Nat /\ Q >= 1 /\ P * Q = 2^v
      BY <1>1, WidthPowers
  <2>2. P * Q = Q * P
      BY <2>1
  <2> QED BY <2>1, <2>2
<1> HIDE DEF P, Q
<1>3. Turned(Turned(d, P, Q), Q, P) = d /\ Turned(Turned(d, Q, P), P, Q) = d
    BY <1>2, TurnBack
<1> QED BY <1>3 DEF P, Q, Rolled, Rored

\* The numbers a count of one meets.
LEMMA OnePlace ==
  ASSUME NEW v, Width(v)
  PROVE  /\ 1 % v = 1 /\ 1 % v # 0 /\ 1 # 0 /\ 1 % (v + 1) = 1 /\ 2^1 = 2 /\ 2^0 = 1 /\ 1 # LONG
         /\ v + 1 - 1 = v /\ 1 - 1 = 0 /\ v - 1 \in 1 .. v
         /\ v - (v - 1) = 1 /\ ~ 1 >= v /\ 1 \in Nat
         /\ 2^(v - 1) = 2 * 2^(v - 2) /\ 2^(v - 2) \in Nat /\ 2^(v - 2) >= 1
<1>1. v \in Nat /\ v >= 2
    BY WidthPowers
<1>2. LONG = 4 * BYTE /\ BYTE \in Nat
    BY WidthAssumption DEF LONG
<1>3. v - 1 \in 1 .. v /\ (v - 1) - 1 = v - 2 /\ v - 2 \in 0 .. v /\ v - (v - 1) = 1
    BY <1>1
<1>4. 2^(v - 1) = 2 * 2^(v - 2) /\ 2^(v - 2) \in Nat /\ 2^(v - 2) >= 1
  <2>1. 2^(v - 1) = 2 * 2^((v - 1) - 1)
      BY <1>3, WidthPowers
  <2> QED BY <1>3, <2>1, WidthPowers
<1>5. 2^1 = 2 /\ 2^0 = 1
    BY WidthPowers
<1>6. LONG >= 4 \/ LONG = 0
    BY <1>2
<1>7. Places(1, v, 0, 1) /\ Places(1, v + 1, 0, 1)
    BY <1>1 DEF Places
<1>8. 1 % v = 1 /\ 1 % (v + 1) = 1
    BY <1>7, PlacesGive
<1> QED BY <1>1, <1>2, <1>3, <1>4, <1>5, <1>6, <1>8

\* One place to the right the sign is the bit below the top.
LEMMA SecondBit ==
  ASSUME NEW v, Width(v), NEW d \in 0 .. 2^v - 1, NEW b \in {0, 1}, NEW y,
         y = d \div 2 + b * 2^(v - 1)
  PROVE  /\ y \in 0 .. 2^v - 1
         /\ Sign(v, y) <=> b = 1
         /\ Bit(y, v - 2) <=> Sign(v, d)
         /\ XOR2(v, Bits(v, y)) <=> (Sign(v, d) # Sign(v, y))
<1> DEFINE H == 2^(v - 2)
           T == 2^(v - 1)
           W == 2^v
<1>1. H \in Nat /\ H >= 1 /\ T = 2 * H /\ W = 2 * T
    BY OnePlace, TopBit
<1>2. Sign(v, d) <=> d >= T
    BY TopBit
<1>3. y = d \div 2 + b * T /\ d \in 0 .. W - 1
    OBVIOUS
<1> HIDE DEF H, T, W
<1>4. PICK q \in Int, r \in 0 .. 2 - 1 : d = 2 * q + r /\ d \div 2 = q
    BY <1>3
<1>5. q \in 0 .. T - 1 /\ (d >= T <=> q >= H)
    BY <1>1, <1>3, <1>4
<1>6. y = q + b * T /\ y \in 0 .. W - 1 /\ (y >= T <=> b = 1)
    BY <1>1, <1>3, <1>4, <1>5
<1>7. Sign(v, y) <=> y >= T
  <2>1. y \in 0 .. 2^v - 1
      BY <1>6 DEF W
  <2> QED BY <2>1, TopBit DEF T
<1>8. (y \div H) % 2 = 1 <=> q >= H
  <2>1. (y \div H) % 2 = 1 <=> y % (2 * H) >= H
      BY <1>1, <1>6, BitOfRest
  <2>2. Places(y, T, b, q)
      BY <1>1, <1>5, <1>6 DEF Places
  <2>3. y % T = q
      BY <2>2, PlacesGive
  <2> QED BY <1>1, <2>1, <2>3
<1>9. Bit(y, v - 2) <=> Sign(v, d)
    BY <1>2, <1>5, <1>8 DEF Bit, H
<1>10. v - 1 \in 0 .. v - 1 /\ v - 2 \in 0 .. v - 1
  <2>1. v \in Nat /\ v >= 2
      BY WidthPowers
  <2> QED BY <2>1
<1>11. XOR2(v, Bits(v, y)) <=> (Bit(y, v - 1) # Bit(y, v - 2))
    BY <1>10 DEF XOR2, Bits, Bit
<1>12. XOR2(v, Bits(v, y)) <=> (Sign(v, d) # Sign(v, y))
    BY <1>9, <1>11 DEF Sign, Bit
<1> QED BY <1>6, <1>7, <1>9, <1>12 DEF W

\* OF after one place tells that the sign changed.
LEMMA RolOverflow ==
  ASSUME NEW v, Width(v), NEW fl, NEW d \in 0 .. 2^v - 1
  PROVE  LET x == rol(v, fl, d, 1)
         IN  /\ x.val = Turned(d, 2, 2^(v - 1))
             /\ "OF" \in x.f <=> (Sign(v, d) # Sign(v, x.val))
<1> DEFINE x == rol(v, fl, d, 1)
           T == 2^(v - 1)
<1>1. x.val = Turned(d, 2, T)
    BY OnePlace DEF rol, Turned, Shifted
<1>2. "OF" \in x.f <=> (Bit(x.val, 0) # Sign(v, x.val))
    BY OnePlace, Zenon DEF rol, Set, Flag
<1> DEFINE y == x.val
<1> HIDE DEF x
<1>3. Bit(y, 0) <=> Sign(v, d)
  <2>1. T \in Nat /\ T >= 1 /\ 2^v = 2 * T /\ (Sign(v, d) <=> d >= T)
      BY TopBit
  <2> HIDE DEF T, y
  <2>2. PICK q \in 0 .. 2 - 1, r \in 0 .. T - 1 : d = T * q + r /\ Turned(d, 2, T) = r * 2 + q
    <3>1. d \in 0 .. 2 * T - 1 /\ 2 \in Nat /\ 2 >= 1
        BY <2>1
    <3> QED BY <2>1, <3>1, PlaceParts
  <2>3. y = r * 2 + q
      BY <1>1, <2>2 DEF y
  <2>4. d >= T <=> q = 1
      BY <2>1, <2>2
  <2>5. (y \div 1) % 2 = q
      BY <2>2, <2>3
  <2>6. 2^0 = 1
      BY OnePlace
  <2> QED BY <2>1, <2>4, <2>5, <2>6 DEF Bit
<1>4. "OF" \in x.f <=> (Sign(v, d) # Sign(v, y))
    BY <1>2, <1>3 DEF Sign, Bit, y
<1> QED BY <1>1, <1>4 DEF x, y

LEMMA RorOverflow ==
  ASSUME NEW v, Width(v), NEW fl, NEW d \in 0 .. 2^v - 1
  PROVE  LET x == ror(v, fl, d, 1)
         IN  /\ x.val = Turned(d, 2^(v - 1), 2)
             /\ "OF" \in x.f <=> (Sign(v, d) # Sign(v, x.val))
<1> DEFINE x == ror(v, fl, d, 1)
           T == 2^(v - 1)
           y == x.val
<1>1. y = (d % 2) * T + d \div 2
  <2>1. y = Shifted(v, d, v - 1) + d \div 2^1
      BY OnePlace, Zenon DEF ror
  <2> QED BY <2>1, OnePlace DEF Shifted
<1>2. "OF" \in x.f <=> XOR2(v, Bits(v, y))
    BY OnePlace, Zenon DEF ror, Set, Flag
<1>3. T \in Nat
    BY TopBit
<1> DEFINE b == d % 2
           q == d \div 2
<1>4. b \in {0, 1} /\ q \in Int
    OBVIOUS
<1> HIDE DEF x, T
<1>5. y = q + b * T
  <2> HIDE DEF b, q
  <2> QED BY <1>1, <1>3, <1>4 DEF b, q
<1>6. XOR2(v, Bits(v, y)) <=> (Sign(v, d) # Sign(v, y))
  <2>1. y = d \div 2 + b * 2^(v - 1)
      BY <1>5 DEF T
  <2> HIDE DEF y, b
  <2> QED BY <1>4, <2>1, SecondBit
<1>7. y = Turned(d, T, 2)
    BY <1>1 DEF Turned
<1> QED BY <1>2, <1>6, <1>7, Zenon DEF x, T

\* The bits above, at and below a place.
LEMMA AtPlace ==
  ASSUME NEW H \in Nat, H >= 1, NEW d \in Int
  PROVE  \E a \in Int, e \in {0, 1}, u \in 0 .. H - 1 :
           /\ d = (2 * H) * a + (H * e + u)
           /\ d \div (2 * H) = a /\ d % H = u /\ d \div H = 2 * a + e
           /\ (d \div H) % 2 = e /\ d % (2 * H) = H * e + u
<1>1. PICK q \in Int, u \in 0 .. H - 1 : d \div H = q /\ d % H = u /\ d = H * q + u
    BY Splits
<1>2. PICK a \in Int, e \in {0, 1} : q = 2 * a + e /\ q % 2 = e
  <2>1. q = 2 * (q \div 2) + (q % 2) /\ q % 2 \in {0, 1} /\ q \div 2 \in Int
      OBVIOUS
  <2> QED BY <2>1
<1>3. d = (2 * H) * a + (H * e + u) /\ H * e + u \in 0 .. 2 * H - 1
    BY <1>1, <1>2
<1>4. Places(d, 2 * H, a, H * e + u)
    BY <1>3 DEF Places
<1>5. d \div (2 * H) = a /\ d % (2 * H) = H * e + u
    BY <1>4, PlacesGive
<1> QED BY <1>1, <1>2, <1>3, <1>5

\* A number with a bit in the middle: what turns with the carry, in parts.
InHalves(R, H, c, W, d) ==
  /\ R \in Nat /\ R >= 1 /\ H \in Nat /\ H >= 1 /\ c \in {0, 1}
  /\ W \in Nat /\ W = (2 * R) * H /\ d \in 0 .. W - 1

LEMMA ThroughLeft ==
  ASSUME NEW R, NEW H, NEW c, NEW W, NEW d, InHalves(R, H, c, W, d)
  PROVE  LET r == (d % H) * (2 * R) + (((d \div (2 * H)) % R) + c * R)
         IN  /\ r \in 0 .. W - 1
             /\ ((d \div H) % 2) * W + r = Turned(c * W + d, 2 * R, 2 * H)
<1>0. /\ R \in Nat /\ R >= 1 /\ H \in Nat /\ H >= 1 /\ c \in {0, 1}
      /\ W \in Nat /\ W = (2 * R) * H /\ d \in 0 .. W - 1
    BY DEF InHalves
<1>1. PICK a \in Int, e \in {0, 1}, u \in 0 .. H - 1 :
           /\ d = (2 * H) * a + (H * e + u)
           /\ d \div (2 * H) = a /\ d % H = u /\ d \div H = 2 * a + e
           /\ (d \div H) % 2 = e /\ d % (2 * H) = H * e + u
  <2>1. d \in Int
      BY <1>0
  <2> QED BY <1>0, <2>1, AtPlace, Zenon
<1>2. a \in 0 .. R - 1
  <2> DEFINE Q == 2 * H
  <2>1. Q \in Nat /\ Q >= 1 /\ W = R * Q
      BY <1>0
  <2> HIDE DEF Q
  <2>2. PICK q \in 0 .. R - 1, r \in 0 .. Q - 1 :
          d \div Q = q /\ d % Q = r /\ d = Q * q + r /\ Turned(d, R, Q) = r * R + q
    <3>1. d \in 0 .. R * Q - 1
        BY <1>0, <2>1
    <3> QED BY <1>0, <2>1, <3>1, PlaceParts, Zenon
  <2> QED BY <1>1, <2>2 DEF Q
<1>3. a % R = a
  <2>1. Places(a, R, 0, a)
      BY <1>0, <1>2 DEF Places
  <2> QED BY <2>1, PlacesGive
<1> DEFINE r == (2 * R) * u + (a + c * R)
<1>4. r \in 0 .. W - 1
  <2> DEFINE Q == 2 * R
             t == a + c * R
  <2>1. Q \in Nat /\ Q >= 1 /\ t \in 0 .. Q - 1 /\ W = H * Q
      BY <1>0, <1>2
  <2> HIDE DEF Q, t
  <2>2. Q * u + t \in 0 .. H * Q - 1
      BY <1>0, <1>1, <2>1, PlaceBelow
  <2> QED BY <2>1, <2>2 DEF Q, t
<1>5. (d % H) * (2 * R) + (((d \div (2 * H)) % R) + c * R) = r
  <2>1. (d % H) * (2 * R) + (((d \div (2 * H)) % R) + c * R) = u * (2 * R) + (a + c * R)
      BY <1>1, <1>3, Zenon
  <2>2. u * (2 * R) = (2 * R) * u
      BY <1>0, <1>1
  <2> QED BY <2>1, <2>2, Zenon
<1>6. Turned(c * W + d, 2 * R, 2 * H) = (H * e + u) * (2 * R) + (c * R + a)
  <2>1. c * W + d = (2 * H) * (c * R + a) + (H * e + u)
      BY <1>0, <1>1
  <2>2. Places(c * W + d, 2 * H, c * R + a, H * e + u)
      BY <1>0, <1>1, <2>1 DEF Places
  <2> QED BY <2>2, TurnedParts
<1>7. e * W + r = (H * e + u) * (2 * R) + (c * R + a)
    BY <1>0, <1>1
<1> HIDE DEF r
<1> QED BY <1>1, <1>4, <1>5, <1>6, <1>7

LEMMA ThroughRight ==
  ASSUME NEW R, NEW P, NEW c, NEW W, NEW d, InHalves(R, P, c, W, d)
  PROVE  LET r == d \div (2 * R) + ((d % R) * (2 * P) + c * P)
         IN  /\ r \in 0 .. W - 1
             /\ ((d \div R) % 2) * W + r = Turned(c * W + d, 2 * P, 2 * R)
<1>0. /\ R \in Nat /\ R >= 1 /\ P \in Nat /\ P >= 1 /\ c \in {0, 1}
      /\ W \in Nat /\ W = (2 * R) * P /\ d \in 0 .. W - 1
    BY DEF InHalves
<1>1. PICK a \in Int, e \in {0, 1}, u \in 0 .. R - 1 :
           /\ d = (2 * R) * a + (R * e + u)
           /\ d \div (2 * R) = a /\ d % R = u /\ d \div R = 2 * a + e
           /\ (d \div R) % 2 = e /\ d % (2 * R) = R * e + u
  <2>1. d \in Int
      BY <1>0
  <2> QED BY <1>0, <2>1, AtPlace, Zenon
<1>2. a \in 0 .. P - 1
  <2> DEFINE Q == 2 * R
  <2>1. Q \in Nat /\ Q >= 1 /\ W = P * Q
      BY <1>0
  <2> HIDE DEF Q
  <2>2. PICK q \in 0 .. P - 1, r \in 0 .. Q - 1 :
          d \div Q = q /\ d % Q = r /\ d = Q * q + r /\ Turned(d, P, Q) = r * P + q
    <3>1. d \in 0 .. P * Q - 1
        BY <1>0, <2>1
    <3> QED BY <1>0, <2>1, <3>1, PlaceParts, Zenon
  <2> QED BY <1>1, <2>2 DEF Q
<1> DEFINE r == (2 * P) * u + (a + c * P)
<1>4. r \in 0 .. W - 1
  <2> DEFINE Q == 2 * P
             t == a + c * P
  <2>1. Q \in Nat /\ Q >= 1 /\ t \in 0 .. Q - 1 /\ W = R * Q
      BY <1>0, <1>2
  <2> HIDE DEF Q, t
  <2>2. Q * u + t \in 0 .. R * Q - 1
      BY <1>0, <1>1, <2>1, PlaceBelow
  <2> QED BY <2>1, <2>2 DEF Q, t
<1>5. d \div (2 * R) + ((d % R) * (2 * P) + c * P) = r
  <2>1. d \div (2 * R) + ((d % R) * (2 * P) + c * P) = a + (u * (2 * P) + c * P)
      BY <1>1, Zenon
  <2>2. a + (u * (2 * P) + c * P) = (2 * P) * u + (a + c * P)
      BY <1>0, <1>1
  <2> QED BY <2>1, <2>2
<1>6. Turned(c * W + d, 2 * P, 2 * R) = (R * e + u) * (2 * P) + (c * P + a)
  <2>1. c * W + d = (2 * R) * (c * P + a) + (R * e + u)
      BY <1>0, <1>1
  <2>2. Places(c * W + d, 2 * R, c * P + a, R * e + u)
      BY <1>0, <1>1, <2>1 DEF Places
  <2> QED BY <2>2, TurnedParts
<1>7. e * W + r = (R * e + u) * (2 * P) + (c * P + a)
    BY <1>0, <1>1
<1> HIDE DEF r
<1> QED BY <1>1, <1>4, <1>5, <1>6, <1>7

\* A number with the carry above it, which RCL and RCR turn.
WithCarry(v, fl, x) == One(fl, "CF") * 2^v + x

RolledThrough(v, k, x) == Turned(x, 2^(k % (v + 1)), 2 * 2^(v - (k % (v + 1))))
RoredThrough(v, k, x) == Turned(x, 2 * 2^(v - (k % (v + 1))), 2^(k % (v + 1)))

\* There is one place more than the width.
LEMMA CarryAbove ==
  ASSUME NEW v, Width(v), NEW fl, NEW d \in 0 .. 2^v - 1
  PROVE  /\ One(fl, "CF") \in {0, 1}
         /\ WithCarry(v, fl, d) \in 0 .. 2 * 2^v - 1
<1> DEFINE W == 2^v
<1>1. W \in Nat /\ d \in 0 .. W - 1
    BY TopBit
<1>2. One(fl, "CF") \in {0, 1}
    BY DEF One
<1> HIDE DEF W
<1>3. One(fl, "CF") * W + d \in 0 .. 2 * W - 1
    BY <1>1, <1>2
<1> QED BY <1>2, <1>3 DEF W, WithCarry

\* The carry and the number are known from the two together.
Alike(v, f1, x, f2, y) == WithCarry(v, f1, x) = WithCarry(v, f2, y)

LEMMA CarryApart ==
  ASSUME NEW v, Width(v), NEW f1, NEW f2, NEW x \in 0 .. 2^v - 1, NEW y \in 0 .. 2^v - 1,
         Alike(v, f1, x, f2, y)
  PROVE  x = y /\ (("CF" \in f1) <=> ("CF" \in f2))
<1> DEFINE W == 2^v
<1>1. W \in Nat /\ W >= 1
    BY TopBit
<1>2. One(f1, "CF") \in {0, 1} /\ One(f2, "CF") \in {0, 1}
    BY DEF One
<1> DEFINE a == One(f1, "CF")
           b == One(f2, "CF")
<1>3. a * W + x = b * W + y /\ x \in 0 .. W - 1 /\ y \in 0 .. W - 1
    BY DEF Alike, WithCarry
<1> HIDE DEF W, a, b
<1>4. a = b /\ x = y
    BY <1>1, <1>2, <1>3 DEF a, b
<1> QED BY <1>4 DEF a, b, One

\* RCL and RCR by any count, but for the one of a long by 32.
RclCount(v, fl, d, s) ==
  LET x == rcl(v, fl, d, s)
  IN  /\ x.val \in 0 .. 2^v - 1
      /\ WithCarry(v, x.f, x.val) = RolledThrough(v, s, WithCarry(v, fl, d))
      /\ x.f \cap ZSP = fl \cap ZSP

LEMMA RclTurns ==
  ASSUME NEW v, Width(v), NEW fl, NEW d \in 0 .. 2^v - 1, NEW s \in Nat, s % (v + 1) # LONG
  PROVE  RclCount(v, fl, d, s)
<1> DEFINE x == rcl(v, fl, d, s)
           m == s % (v + 1)
           W == 2^v
           c == One(fl, "CF")
<1>1. v \in Nat /\ v >= 2 /\ m \in 0 .. v
  <2>1. v \in Nat /\ v >= 2
      BY WidthPowers
  <2>2. v + 1 \in Nat /\ v + 1 >= 2
      BY <2>1
  <2> QED BY <2>1, <2>2, NextCount
<1>2. x.f \cap ZSP = fl \cap ZSP
    BY Zenon DEF rcl, Set, Flag, ZSP
<1>3. ASSUME m = 0
      PROVE  x.val = d /\ x.f = fl /\ RolledThrough(v, s, WithCarry(v, fl, d)) = WithCarry(v, fl, d)
  <2>1. x.val = d /\ x.f = fl
      BY <1>3, Zenon DEF rcl
  <2> DEFINE X == WithCarry(v, fl, d)
             V == 2 * W
  <2>2. V \in Nat /\ V >= 1 /\ X \in 0 .. V - 1
      BY CarryAbove, TopBit
  <2> HIDE DEF m, x
  <2>3. 2^m = 1 /\ v - m = v
      BY <1>1, <1>3, WidthPowers
  <2>4. RolledThrough(v, s, X) = Turned(X, 1, V)
      BY <2>3 DEF RolledThrough, m
  <2> HIDE DEF X, V
  <2>5. Turned(X, 1, V) = X
      BY <2>2, TurnedWhole
  <2> QED BY <2>1, <2>4, <2>5 DEF X
<1>4. ASSUME m # 0
      PROVE  /\ x.val \in 0 .. W - 1
             /\ WithCarry(v, x.f, x.val) = RolledThrough(v, s, WithCarry(v, fl, d))
  <2> DEFINE R == 2^(m - 1)
             H == 2^(v - m)
             r == (d % H) * (2 * R) + (((d \div (2 * H)) % R) + c * R)
  <2>1. /\ x.val = Shifted(v, d, m) + (((d \div 2^(v + 1 - m)) % 2^(m - 1)) + c * 2^(m - 1))
        /\ "CF" \in x.f <=> Bit(d, v - m)
      BY <1>4, Zenon DEF rcl, Set, Flag
  <2> HIDE DEF m
  <2>2. m \in 1 .. v /\ m - 1 \in 0 .. v /\ m \in 0 .. v
      BY <1>1, <1>4
  <2>3. v + 1 - m = v - (m - 1)
      BY <1>1, <2>2
  <2>4. /\ R \in Nat /\ R >= 1 /\ H \in Nat /\ H >= 1 /\ W \in Nat
        /\ 2^m = 2 * R /\ 2^(v + 1 - m) = 2 * H /\ 2^m * H = W
    <3>1. 2^m = 2 * R /\ 2^(v - (m - 1)) = 2 * H
        BY <2>2, WidthPowers
    <3>2. R \in Nat /\ R >= 1 /\ H \in Nat /\ H >= 1 /\ 2^m * H = W
        BY <2>2, WidthPowers
    <3>3. W \in Nat
        BY TopBit
    <3> QED BY <2>3, <3>1, <3>2, <3>3
  <2>5. x.val = r
      BY <2>1, <2>4 DEF Shifted
  <2>6. W = (2 * R) * H /\ c \in {0, 1} /\ d \in 0 .. W - 1
      BY <2>4, CarryAbove
  <2> DEFINE e == (d \div H) % 2
  <2>7. One(x.f, "CF") = e
    <3>1. "CF" \in x.f <=> e = 1
        BY <2>1 DEF Bit
    <3>2. d \div H \in Int
        BY <2>4, <2>6, DivMod
    <3> DEFINE q == d \div H
    <3> HIDE DEF H, q
    <3>3. q % 2 \in {0, 1}
        BY <3>2 DEF q
    <3> QED BY <3>1, <3>3 DEF One, q
  <2>8. RolledThrough(v, s, WithCarry(v, fl, d)) = Turned(c * W + d, 2 * R, 2 * H)
      BY <2>4, Zenon DEF RolledThrough, WithCarry, m
  <2> HIDE DEF W, R, H, c, x
  <2>9. r \in 0 .. W - 1 /\ e * W + r = Turned(c * W + d, 2 * R, 2 * H)
    <3>1. InHalves(R, H, c, W, d)
        BY <2>4, <2>6 DEF InHalves
    <3> QED BY <3>1, ThroughLeft
  <2> HIDE DEF r, e
  <2> QED BY <2>5, <2>7, <2>8, <2>9 DEF WithCarry, W
<1> QED BY <1>2, <1>3, <1>4 DEF RclCount

RcrCount(v, fl, d, s) ==
  LET x == rcr(v, fl, d, s)
  IN  /\ x.val \in 0 .. 2^v - 1
      /\ WithCarry(v, x.f, x.val) = RoredThrough(v, s, WithCarry(v, fl, d))
      /\ x.f \cap ZSP = fl \cap ZSP

LEMMA RcrTurns ==
  ASSUME NEW v, Width(v), NEW fl, NEW d \in 0 .. 2^v - 1, NEW s \in Nat
  PROVE  RcrCount(v, fl, d, s)
<1> DEFINE x == rcr(v, fl, d, s)
           m == s % (v + 1)
           W == 2^v
           c == One(fl, "CF")
<1>1. v \in Nat /\ v >= 2 /\ m \in 0 .. v
  <2>1. v \in Nat /\ v >= 2
      BY WidthPowers
  <2>2. v + 1 \in Nat /\ v + 1 >= 2
      BY <2>1
  <2> QED BY <2>1, <2>2, NextCount
<1>2. x.f \cap ZSP = fl \cap ZSP
    BY Zenon DEF rcr, Set, Flag, ZSP
<1>3. ASSUME m = 0
      PROVE  x.val = d /\ x.f = fl /\ RoredThrough(v, s, WithCarry(v, fl, d)) = WithCarry(v, fl, d)
  <2>1. x.val = d /\ x.f = fl
      BY <1>3, Zenon DEF rcr
  <2> DEFINE X == WithCarry(v, fl, d)
             V == 2 * W
  <2>2. V \in Nat /\ V >= 1 /\ X \in 0 .. V - 1
      BY CarryAbove, TopBit
  <2> HIDE DEF m, x
  <2>3. 2^m = 1 /\ v - m = v
      BY <1>1, <1>3, WidthPowers
  <2>4. RoredThrough(v, s, X) = Turned(X, V, 1)
      BY <2>3 DEF RoredThrough, m
  <2> HIDE DEF X, V
  <2>5. Turned(X, V, 1) = X
      BY <2>2, TurnedWhole
  <2> QED BY <2>1, <2>4, <2>5 DEF X
<1>4. ASSUME m # 0
      PROVE  /\ x.val \in 0 .. W - 1
             /\ WithCarry(v, x.f, x.val) = RoredThrough(v, s, WithCarry(v, fl, d))
  <2> DEFINE R == 2^(m - 1)
             P == 2^(v - m)
             r == d \div (2 * R) + ((d % R) * (2 * P) + c * P)
  <2>1. /\ x.val = d \div 2^m + (IF m = 1 THEN 0 ELSE Shifted(v, d, v + 1 - m)) + c * 2^(v - m)
        /\ "CF" \in x.f <=> Bit(d, m - 1)
    <3>1. x.val = d \div 2^m + (IF m = 1 THEN 0 ELSE Shifted(v, d, v + 1 - m)) + c * 2^(v - m)
        BY <1>4, Zenon DEF rcr
    <3>2. CASE m = 1
      <4>1. "CF" \in x.f <=> Bit(d, m - 1)
          BY <1>4, <3>2, Zenon DEF rcr, Set, Flag
      <4> QED BY <3>1, <4>1
    <3>3. CASE m # 1
      <4>1. "CF" \in x.f <=> Bit(d, m - 1)
          BY <1>4, <3>3, Zenon DEF rcr, Set, Flag
      <4> QED BY <3>1, <4>1
    <3> QED BY <3>2, <3>3
  <2> HIDE DEF m
  <2>2. m \in 1 .. v /\ m - 1 \in 0 .. v /\ m \in 0 .. v
      BY <1>1, <1>4
  <2>3. v + 1 - m = v - (m - 1) /\ v - (v + 1 - m) = m - 1
      BY <1>1, <2>2
  <2>4. /\ R \in Nat /\ R >= 1 /\ P \in Nat /\ P >= 1 /\ W \in Nat
        /\ 2^m = 2 * R /\ 2^(v + 1 - m) = 2 * P /\ 2^m * P = W
    <3>1. 2^m = 2 * R /\ 2^(v - (m - 1)) = 2 * P
        BY <2>2, WidthPowers
    <3>2. R \in Nat /\ R >= 1 /\ P \in Nat /\ P >= 1 /\ 2^m * P = W
        BY <2>2, WidthPowers
    <3>3. W \in Nat
        BY TopBit
    <3> QED BY <2>3, <3>1, <3>2, <3>3
  <2>5. x.val = r
    <3> DEFINE z == (d % R) * (2 * P)
               q == d \div 2^m
    <3>1. Shifted(v, d, v + 1 - m) = z
        BY <2>3, <2>4 DEF Shifted
    <3>2. m = 1 => z = 0
      <4>1. m = 1 => R = 1
          BY OnePlace
      <4>2. d % 1 = 0 /\ 0 * (2 * P) = 0
          BY <2>4
      <4> QED BY <4>1, <4>2
    <3>3. x.val = q + z + c * P
        BY <2>1, <3>1, <3>2
    <3>4. q \in Int /\ z \in Int /\ c * P \in Int
      <4>1. d \in Int /\ 2^m \in Nat /\ 2^m >= 1
          BY <2>2, <2>4, TopBit
      <4>2. q \in Int /\ d % R \in Int
        <5>1. d \div 2^m \in Int
            BY <4>1, DivMod, Zenon
        <5>2. d % R \in 0 .. R - 1
            BY <2>4, <4>1, DivMod, Zenon
        <5> HIDE DEF R
        <5> QED BY <2>4, <5>1, <5>2
      <4>3. c \in Int
          BY CarryAbove
      <4> HIDE DEF c, R, P, q
      <4> QED BY <2>4, <4>2, <4>3
    <3>5. r = q + (z + c * P)
        BY <2>4
    <3> HIDE DEF q, z, c, P, r, x
    <3> QED BY <3>3, <3>4, <3>5
  <2>6. W = (2 * R) * P /\ c \in {0, 1} /\ d \in 0 .. W - 1
      BY <2>4, CarryAbove
  <2> DEFINE e == (d \div R) % 2
  <2>7. One(x.f, "CF") = e
    <3>1. "CF" \in x.f <=> e = 1
        BY <2>1 DEF Bit
    <3>2. d \div R \in Int
        BY <2>4, <2>6, DivMod
    <3> DEFINE q == d \div R
    <3> HIDE DEF R, q
    <3>3. q % 2 \in {0, 1}
        BY <3>2 DEF q
    <3> QED BY <3>1, <3>3 DEF One, q
  <2>8. RoredThrough(v, s, WithCarry(v, fl, d)) = Turned(c * W + d, 2 * P, 2 * R)
      BY <2>4, Zenon DEF RoredThrough, WithCarry, m
  <2> HIDE DEF W, R, P, c, x
  <2>9. r \in 0 .. W - 1 /\ e * W + r = Turned(c * W + d, 2 * P, 2 * R)
    <3>1. InHalves(R, P, c, W, d)
        BY <2>4, <2>6 DEF InHalves
    <3> QED BY <3>1, ThroughRight
  <2> HIDE DEF r, e
  <2> QED BY <2>5, <2>7, <2>8, <2>9 DEF WithCarry, W
<1> QED BY <1>2, <1>3, <1>4 DEF RcrCount

\* With the carry too one place more is by one place more, and back is back.
LEMMA RolledThroughNext ==
  ASSUME NEW v, Width(v), NEW x \in 0 .. 2 * 2^v - 1, NEW k \in Nat
  PROVE  /\ RolledThrough(v, k, x) \in 0 .. 2 * 2^v - 1
         /\ RolledThrough(v, 1, RolledThrough(v, k, x)) = RolledThrough(v, k + 1, x)
<1> DEFINE m == k % (v + 1)
           P == 2^m
           H == 2^(v - m)
           W == 2^v
           y == RolledThrough(v, k, x)
<1>1. v \in Nat /\ v >= 2 /\ v + 1 \in Nat /\ v + 1 >= 2
    BY WidthPowers
<1>2. m \in 0 .. v /\ (k + 1) % (v + 1) = IF m = v THEN 0 ELSE m + 1
  <2> DEFINE N == v + 1
  <2>1. N \in Nat /\ N >= 2 /\ N - 1 = v
      BY <1>1
  <2> HIDE DEF N
  <2>2. k % N \in 0 .. v /\ (k + 1) % N = IF k % N = v THEN 0 ELSE (k % N) + 1
      BY <2>1, NextCount
  <2> QED BY <2>2 DEF N
<1> HIDE DEF m
<1>3. /\ P \in Nat /\ P >= 1 /\ H \in Nat /\ H >= 1 /\ P * H = W
      /\ 2^0 = 1 /\ W \in Nat /\ W >= 1 /\ W = 2 * 2^(v - 1)
  <2>1. W \in Nat /\ W >= 1 /\ W = 2 * 2^(v - 1)
      BY TopPower
  <2> QED BY <1>2, <2>1, WidthPowers
<1>4. y = Turned(x, P, 2 * H)
    BY DEF RolledThrough, m
<1>5. P * (2 * H) = 2 * W
  <2> HIDE DEF P, H, W
  <2> QED BY <1>3
<1>6. x \in 0 .. P * (2 * H) - 1
    BY <1>5
<1>7. RolledThrough(v, k + 1, x) = Turned(x, 2 * P, H)
  <2>1. CASE m = v
    <3>1. (k + 1) % (v + 1) = 0 /\ v - 0 = v /\ v - m = 0
        BY <1>1, <1>2, <2>1
    <3>2. RolledThrough(v, k + 1, x) = Turned(x, 1, 2 * W) /\ H = 1 /\ P = W
        BY <1>3, <2>1, <3>1 DEF RolledThrough
    <3> DEFINE V == 2 * W
    <3>3. V \in Nat /\ V >= 1 /\ x \in 0 .. V - 1
        BY <1>3
    <3> HIDE DEF V
    <3>4. Turned(x, 1, V) = x /\ Turned(x, V, 1) = x
        BY <3>3, TurnedWhole
    <3> QED BY <3>2, <3>4 DEF V
  <2>2. CASE m # v
    <3>1. (k + 1) % (v + 1) = m + 1 /\ m + 1 \in 1 .. v /\ (m + 1) - 1 = m
        BY <1>1, <1>2, <2>2
    <3>2. 2^(m + 1) = 2 * 2^((m + 1) - 1) /\ 2^(v - ((m + 1) - 1)) = 2 * 2^(v - (m + 1))
        BY <3>1, WidthPowers
    <3>3. 2^(m + 1) = 2 * P /\ H = 2 * 2^(v - (m + 1))
        BY <3>1, <3>2
    <3> QED BY <3>1, <3>3 DEF RolledThrough
  <2> QED BY <2>1, <2>2
<1>8. RolledThrough(v, 1, y) = Turned(y, 2, W)
    BY <1>3, OnePlace DEF RolledThrough
<1> HIDE DEF P, H, W, y
<1>9. Turned(Turned(x, P, 2 * H), 2, P * H) = Turned(x, 2 * P, H)
    BY <1>3, <1>6, TurnLeft
<1>10. Turned(x, P, 2 * H) \in 0 .. P * (2 * H) - 1
  <2>1. 2 * H \in Nat /\ 2 * H >= 1
      BY <1>3
  <2> QED BY <1>3, <1>6, <2>1, TurnedBelow
<1> QED BY <1>3, <1>4, <1>5, <1>7, <1>8, <1>9, <1>10 DEF W, y

LEMMA RoredThroughNext ==
  ASSUME NEW v, Width(v), NEW x \in 0 .. 2 * 2^v - 1, NEW k \in Nat
  PROVE  /\ RoredThrough(v, k, x) \in 0 .. 2 * 2^v - 1
         /\ RoredThrough(v, 1, RoredThrough(v, k, x)) = RoredThrough(v, k + 1, x)
<1> DEFINE m == k % (v + 1)
           Q == 2^m
           P == 2^(v - m)
           W == 2^v
           y == RoredThrough(v, k, x)
<1>1. v \in Nat /\ v >= 2 /\ v + 1 \in Nat /\ v + 1 >= 2
    BY WidthPowers
<1>2. m \in 0 .. v /\ (k + 1) % (v + 1) = IF m = v THEN 0 ELSE m + 1
  <2> DEFINE N == v + 1
  <2>1. N \in Nat /\ N >= 2 /\ N - 1 = v
      BY <1>1
  <2> HIDE DEF N
  <2>2. k % N \in 0 .. v /\ (k + 1) % N = IF k % N = v THEN 0 ELSE (k % N) + 1
      BY <2>1, NextCount
  <2> QED BY <2>2 DEF N
<1> HIDE DEF m
<1>3. /\ P \in Nat /\ P >= 1 /\ Q \in Nat /\ Q >= 1 /\ P * Q = W
      /\ 2^0 = 1 /\ W \in Nat /\ W >= 1 /\ W = 2 * 2^(v - 1)
  <2>1. W \in Nat /\ W >= 1 /\ W = 2 * 2^(v - 1)
      BY TopPower
  <2>2. P \in Nat /\ P >= 1 /\ Q \in Nat /\ Q >= 1 /\ Q * P = W /\ 2^0 = 1
      BY <1>2, WidthPowers
  <2>3. Q * P = P * Q
      BY <2>2
  <2> QED BY <2>1, <2>2, <2>3
<1>4. y = Turned(x, 2 * P, Q)
    BY DEF RoredThrough, m
<1>5. (2 * P) * Q = 2 * W
  <2> HIDE DEF P, Q, W
  <2> QED BY <1>3
<1>6. x \in 0 .. (2 * P) * Q - 1
    BY <1>5
<1>7. RoredThrough(v, k + 1, x) = Turned(x, P, 2 * Q)
  <2>1. CASE m = v
    <3>1. (k + 1) % (v + 1) = 0 /\ v - 0 = v /\ v - m = 0
        BY <1>1, <1>2, <2>1
    <3>2. RoredThrough(v, k + 1, x) = Turned(x, 2 * W, 1) /\ P = 1 /\ Q = W
        BY <1>3, <2>1, <3>1 DEF RoredThrough
    <3> DEFINE V == 2 * W
    <3>3. V \in Nat /\ V >= 1 /\ x \in 0 .. V - 1
        BY <1>3
    <3> HIDE DEF V
    <3>4. Turned(x, 1, V) = x /\ Turned(x, V, 1) = x
        BY <3>3, TurnedWhole
    <3> QED BY <3>2, <3>4 DEF V
  <2>2. CASE m # v
    <3>1. (k + 1) % (v + 1) = m + 1 /\ m + 1 \in 1 .. v /\ (m + 1) - 1 = m
        BY <1>1, <1>2, <2>2
    <3>2. 2^(m + 1) = 2 * 2^((m + 1) - 1) /\ 2^(v - ((m + 1) - 1)) = 2 * 2^(v - (m + 1))
        BY <3>1, WidthPowers
    <3>3. 2^(m + 1) = 2 * Q /\ P = 2 * 2^(v - (m + 1))
        BY <3>1, <3>2
    <3> QED BY <3>1, <3>3 DEF RoredThrough
  <2> QED BY <2>1, <2>2
<1>8. RoredThrough(v, 1, y) = Turned(y, W, 2)
    BY <1>3, OnePlace DEF RoredThrough
<1> HIDE DEF P, Q, W, y
<1>9. Turned(Turned(x, 2 * P, Q), P * Q, 2) = Turned(x, P, 2 * Q)
    BY <1>3, <1>6, TurnRight
<1>10. Turned(x, 2 * P, Q) \in 0 .. (2 * P) * Q - 1
  <2>1. 2 * P \in Nat /\ 2 * P >= 1
      BY <1>3
  <2> QED BY <1>3, <1>6, <2>1, TurnedBelow
<1> QED BY <1>3, <1>4, <1>5, <1>7, <1>8, <1>9, <1>10 DEF W, y

LEMMA ThroughBack ==
  ASSUME NEW v, Width(v), NEW x \in 0 .. 2 * 2^v - 1, NEW k \in Nat
  PROVE  /\ RoredThrough(v, k, RolledThrough(v, k, x)) = x
         /\ RolledThrough(v, k, RoredThrough(v, k, x)) = x
<1> DEFINE m == k % (v + 1)
           P == 2^m
           H == 2^(v - m)
           Q == 2 * H
           W == 2^v
<1>1. v \in Nat /\ v >= 2 /\ v + 1 \in Nat /\ v + 1 >= 2
    BY WidthPowers
<1>2. m \in 0 .. v
    BY <1>1, NextCount
<1> HIDE DEF m
<1>3. P \in Nat /\ P >= 1 /\ H \in Nat /\ H >= 1 /\ P * H = W /\ W \in Nat
    BY <1>2, WidthPowers, TopPower
<1>4. Q \in Nat /\ Q >= 1 /\ x \in 0 .. P * Q - 1 /\ x \in 0 .. Q * P - 1
  <2>1. x \in 0 .. 2 * W - 1
      OBVIOUS
  <2> HIDE DEF P, H, W
  <2>2. P * Q = 2 * W /\ Q * P = 2 * W
      BY <1>3
  <2> QED BY <1>3, <2>1, <2>2
<1>5. /\ \A z : RolledThrough(v, k, z) = Turned(z, P, Q)
      /\ \A z : RoredThrough(v, k, z) = Turned(z, Q, P)
    BY DEF RolledThrough, RoredThrough, m
<1> HIDE DEF P, Q
<1>6. Turned(Turned(x, P, Q), Q, P) = x /\ Turned(Turned(x, Q, P), P, Q) = x
    BY <1>3, <1>4, TurnBack
<1> QED BY <1>5, <1>6

LEMMA RclOverflow ==
  ASSUME NEW v, Width(v), NEW fl, NEW d \in 0 .. 2^v - 1
  PROVE  LET x == rcl(v, fl, d, 1)
         IN  "OF" \in x.f <=> (Sign(v, d) # Sign(v, x.val))
<1> DEFINE x == rcl(v, fl, d, 1)
           cf == Flag("CF", Bit(d, v - 1))
<1>1. "OF" \in x.f <=> ("CF" \in cf) # Sign(v, x.val)
    BY OnePlace, Zenon DEF rcl, Set, Flag
<1>2. "CF" \in cf <=> Bit(d, v - 1)
    BY DEF Flag
<1> DEFINE y == x.val
<1> HIDE DEF x, cf
<1> QED BY <1>1, <1>2 DEF Sign, Bit, x

LEMMA RcrOverflow ==
  ASSUME NEW v, Width(v), NEW fl, NEW d \in 0 .. 2^v - 1
  PROVE  LET x == rcr(v, fl, d, 1)
         IN  "OF" \in x.f <=> (Sign(v, d) # Sign(v, x.val))
<1> DEFINE x == rcr(v, fl, d, 1)
           c == One(fl, "CF")
           q == d \div 2
           T == 2^(v - 1)
           y == x.val
<1>1. "OF" \in x.f <=> ("CF" \in fl) # Sign(v, d)
    BY OnePlace, Zenon DEF rcr, Set, Flag
<1>2. y = q + 0 + c * T
  <2>1. y = d \div 2^1 + 0 + c * 2^(v - 1)
      BY OnePlace, Zenon DEF rcr
  <2> QED BY <2>1, OnePlace
<1>3. c \in {0, 1} /\ q \in Int /\ T \in Nat
  <2>1. c \in {0, 1}
      BY DEF One
  <2>2. q \in Int /\ T \in Nat
      BY TopPower
  <2> QED BY <2>1, <2>2
<1>4. "CF" \in fl <=> c = 1
    BY DEF One
<1> HIDE DEF x, c
<1>5. y = d \div 2 + c * 2^(v - 1)
  <2> HIDE DEF q, T, y
  <2>1. y = q + c * T
      BY <1>2, <1>3
  <2> QED BY <2>1 DEF q, T
<1> HIDE DEF y, q, T
<1>6. Sign(v, y) <=> c = 1
    BY <1>3, <1>5, SecondBit
<1> QED BY <1>1, <1>4, <1>6 DEF Sign, Bit, x, y
-----------------------------------------------------------------------------
\* What the shifts give.

\* d and the bits of fill that follow it on the right, k places to the left;
\* d and the bits of fill that follow it on the left, k places to the right.
ShiftedLeft(v, k, d, fill) == Shifted(v, d, k) + fill \div 2^(v - k)
ShiftedRight(v, k, d, fill) == d \div 2^k + (fill % 2^k) * 2^(v - k)

\* SHLD and SHRD, by nothing, by less than the width, and by more.
LEMMA ShldNone ==
  ASSUME NEW v, Width(v), NEW fl, NEW d \in 0 .. 2^v - 1, NEW fill \in 0 .. 2^v - 1
  PROVE  LET x == shld(v, fl, d, fill, 0)
         IN  /\ x.val = ShiftedLeft(v, 0, d, fill)
             /\ x.f \cap ZSP = fl \cap ZSP
             /\ ("CF" \in x.f) <=> ("CF" \in fl)
<1> DEFINE x == shld(v, fl, d, fill, 0)
<1>1. ~ (0 >= v) /\ v - 0 = v /\ 2^0 = 1
    BY WidthPowers
<1>2. x.val = d /\ x.f = fl \ {"OF"}
    BY <1>1, Zenon DEF shld
<1>3. ShiftedLeft(v, 0, d, fill) = (d % 2^v) * 1 + fill \div 2^v
    BY <1>1 DEF ShiftedLeft, Shifted
<1>4. Places(d, 2^v, 0, d) /\ Places(fill, 2^v, 0, fill)
    BY TopPower DEF Places
<1>5. d % 2^v = d /\ fill \div 2^v = 0
    BY <1>4, PlacesGive
<1>6. x.val = ShiftedLeft(v, 0, d, fill)
    BY <1>2, <1>3, <1>5
<1>7. (fl \ {"OF"}) \cap ZSP = fl \cap ZSP /\ ("CF" \in fl \ {"OF"} <=> "CF" \in fl)
    BY DEF ZSP
<1> QED BY <1>2, <1>6, <1>7, Zenon

ShldCount(v, fl, d, fill, s) ==
  LET x == shld(v, fl, d, fill, s)
  IN  /\ x.val = ShiftedLeft(v, s, d, fill)
      /\ ("CF" \in x.f) <=> Bit(d, v - s)
      /\ x.f \cap ZSP = ResultFlags(v, x.val)

LEMMA ShldSome ==
  ASSUME NEW v, Width(v), NEW fl, NEW d \in 0 .. 2^v - 1, NEW fill \in 0 .. 2^v - 1, NEW s \in Nat,
         s > 0, s < v
  PROVE  ShldCount(v, fl, d, fill, s)
<1> DEFINE x == shld(v, fl, d, fill, s)
<1>1. ~ (s >= v) /\ s # 0
    BY WidthPowers
<1> DEFINE r == ShiftedLeft(v, s, d, fill)
<1>2. x.val = r /\ r = ShiftedLeft(v, s, d, fill)
    BY <1>1, Zenon DEF shld, ShiftedLeft
<1>3. x.f = Set(fl, ARITH \ {"AF"}, ResultFlags(v, r) \cup Flag("CF", Bit(d, v - s))
              \cup Flag("OF", s = 1 /\ Sign(v, r) # ("CF" \in Flag("CF", Bit(d, v - s)))))
    BY <1>1, Zenon DEF shld, ShiftedLeft
<1> HIDE DEF x, r
<1>4. ("CF" \in x.f) <=> Bit(d, v - s)
    BY <1>3, Zenon DEF Set, Flag, ResultFlags, ARITH
<1>5. x.f \cap ZSP = ResultFlags(v, r)
    BY <1>3, Zenon DEF Set, Flag, ResultFlags, ARITH, ZSP
<1>6. x.f \cap ZSP = ResultFlags(v, x.val)
    BY <1>2, <1>5
<1> QED BY <1>2, <1>4, <1>6, Zenon DEF x, ShldCount

LEMMA ShldOut ==
  ASSUME NEW v, Width(v), NEW fl, NEW d, NEW fill, NEW s \in Nat, s >= v
  PROVE  shld(v, fl, d, fill, s).val = 0
BY Zenon DEF shld, ShiftedOut

LEMMA ShrdNone ==
  ASSUME NEW v, Width(v), NEW fl, NEW d \in 0 .. 2^v - 1, NEW fill \in 0 .. 2^v - 1
  PROVE  LET x == shrd(v, fl, d, fill, 0)
         IN  /\ x.val = ShiftedRight(v, 0, d, fill)
             /\ x.f \cap ZSP = fl \cap ZSP
             /\ ("CF" \in x.f) <=> ("CF" \in fl)
<1> DEFINE x == shrd(v, fl, d, fill, 0)
<1>1. ~ (0 >= v) /\ v - 0 = v /\ 2^0 = 1
    BY WidthPowers
<1>2. x.val = d /\ x.f = fl \ {"OF"}
    BY <1>1, Zenon DEF shrd
<1>3. ShiftedRight(v, 0, d, fill) = d \div 1 + (fill % 1) * 2^v
    BY <1>1 DEF ShiftedRight
<1>4. Places(d, 1, d, 0) /\ Places(fill, 1, fill, 0)
    BY TopPower DEF Places
<1>5. d \div 1 = d /\ fill % 1 = 0
    BY <1>4, PlacesGive
<1>6. x.val = ShiftedRight(v, 0, d, fill)
    BY <1>2, <1>3, <1>5, TopPower
<1>7. (fl \ {"OF"}) \cap ZSP = fl \cap ZSP /\ ("CF" \in fl \ {"OF"} <=> "CF" \in fl)
    BY DEF ZSP
<1> QED BY <1>2, <1>6, <1>7, Zenon

ShrdCount(v, fl, d, fill, s) ==
  LET x == shrd(v, fl, d, fill, s)
  IN  /\ x.val = ShiftedRight(v, s, d, fill)
      /\ ("CF" \in x.f) <=> Bit(d, s - 1)
      /\ x.f \cap ZSP = ResultFlags(v, x.val)

LEMMA ShrdSome ==
  ASSUME NEW v, Width(v), NEW fl, NEW d \in 0 .. 2^v - 1, NEW fill \in 0 .. 2^v - 1, NEW s \in Nat,
         s > 0, s < v
  PROVE  ShrdCount(v, fl, d, fill, s)
<1> DEFINE x == shrd(v, fl, d, fill, s)
<1>1. ~ (s >= v) /\ s # 0 /\ v - (v - s) = s
    BY WidthPowers
<1> DEFINE r == d \div 2^s + Shifted(v, fill, v - s)
<1>2. x.val = r /\ r = ShiftedRight(v, s, d, fill)
  <2>1. x.val = r
      BY <1>1, Zenon DEF shrd
  <2> QED BY <1>1, <2>1 DEF ShiftedRight, Shifted
<1>3. x.f = Set(fl, ARITH \ {"AF"}, ResultFlags(v, r) \cup Flag("CF", Bit(d, s - 1))
              \cup Flag("OF", s = 1 /\ XOR2(v, Bits(v, r))))
    BY <1>1, Zenon DEF shrd
<1> HIDE DEF x, r
<1>4. ("CF" \in x.f) <=> Bit(d, s - 1)
    BY <1>3, Zenon DEF Set, Flag, ResultFlags, ARITH
<1>5. x.f \cap ZSP = ResultFlags(v, r)
    BY <1>3, Zenon DEF Set, Flag, ResultFlags, ARITH, ZSP
<1>6. x.f \cap ZSP = ResultFlags(v, x.val)
    BY <1>2, <1>5
<1> QED BY <1>2, <1>4, <1>6, Zenon DEF x, ShrdCount

LEMMA ShrdOut ==
  ASSUME NEW v, Width(v), NEW fl, NEW d, NEW fill, NEW s \in Nat, s >= v
  PROVE  shrd(v, fl, d, fill, s).val = 0
BY Zenon DEF shrd, ShiftedOut

\* After one place OF tells that the sign changed, for the shifts too.
LEMMA ShiftsOverflow ==
  ASSUME NEW v, Width(v), NEW fl, NEW d \in 0 .. 2^v - 1, NEW fill \in 0 .. 2^v - 1
  PROVE  LET x == shld(v, fl, d, fill, 1)
             y == shrd(v, fl, d, fill, 1)
         IN  /\ "OF" \in x.f <=> (Sign(v, d) # Sign(v, x.val))
             /\ "OF" \in y.f <=> (Sign(v, d) # Sign(v, y.val))
<1>1. "OF" \in shld(v, fl, d, fill, 1).f <=> (Sign(v, d) # Sign(v, shld(v, fl, d, fill, 1).val))
  <2> DEFINE x == shld(v, fl, d, fill, 1)
             r == Shifted(v, d, 1) + fill \div 2^(v - 1)
             cf == Flag("CF", Bit(d, v - 1))
  <2>1. x.val = r
      BY OnePlace, Zenon DEF shld
  <2>2. x.f = Set(fl, ARITH \ {"AF"}, ResultFlags(v, r) \cup cf
                  \cup Flag("OF", 1 = 1 /\ Sign(v, r) # ("CF" \in cf)))
      BY OnePlace, Zenon DEF shld
  <2>3. "CF" \in cf <=> Bit(d, v - 1)
      BY DEF Flag
  <2>4. "OF" \notin cf
      BY DEF Flag
  <2> HIDE DEF x, r, cf
  <2>5. "OF" \in x.f <=> Sign(v, r) # ("CF" \in cf)
      BY <2>2, <2>4, Zenon DEF Set, Flag, ResultFlags, ARITH
  <2>6. "OF" \in x.f <=> (Sign(v, d) # Sign(v, x.val))
      BY <2>1, <2>3, <2>5 DEF Sign, Bit
  <2> QED BY <2>6 DEF x
<1>2. "OF" \in shrd(v, fl, d, fill, 1).f <=> (Sign(v, d) # Sign(v, shrd(v, fl, d, fill, 1).val))
  <2> DEFINE x == shrd(v, fl, d, fill, 1)
             r == d \div 2^1 + Shifted(v, fill, v - 1)
             b == fill % 2
  <2>1. x.val = r
      BY OnePlace, Zenon DEF shrd
  <2>2. x.f = Set(fl, ARITH \ {"AF"}, ResultFlags(v, r) \cup Flag("CF", Bit(d, 1 - 1))
                  \cup Flag("OF", 1 = 1 /\ XOR2(v, Bits(v, r))))
      BY OnePlace, Zenon DEF shrd
  <2>3. r = d \div 2 + b * 2^(v - 1)
      BY OnePlace DEF Shifted
  <2>4. b \in {0, 1}
      BY TopPower
  <2> HIDE DEF x, r, b
  <2>5. "OF" \in x.f <=> XOR2(v, Bits(v, r))
      BY <2>2, Zenon DEF Set, Flag, ResultFlags, ARITH
  <2>6. XOR2(v, Bits(v, r)) <=> (Sign(v, d) # Sign(v, r))
      BY <2>3, <2>4, SecondBit
  <2> QED BY <2>1, <2>5, <2>6, Zenon DEF x
<1> QED BY <1>1, <1>2, Zenon

\* The bits above, at and below a place of two numbers shifted as one.
LEMMA PlaceAt ==
  ASSUME NEW P \in Nat, P >= 1, NEW H \in Nat, H >= 1, NEW d \in 0 .. P * (2 * H) - 1
  PROVE  \E a \in 0 .. P - 1, e \in {0, 1}, u \in 0 .. H - 1 :
           /\ d = (2 * H) * a + (H * e + u)
           /\ d \div (2 * H) = a /\ d % H = u /\ d \div H = 2 * a + e
           /\ (d \div H) % 2 = e /\ d % (2 * H) = H * e + u
<1>1. PICK a \in Int, e \in {0, 1}, u \in 0 .. H - 1 :
           /\ d = (2 * H) * a + (H * e + u)
           /\ d \div (2 * H) = a /\ d % H = u /\ d \div H = 2 * a + e
           /\ (d \div H) % 2 = e /\ d % (2 * H) = H * e + u
  <2>1. d \in Int
      OBVIOUS
  <2> QED BY <2>1, AtPlace, Zenon
<1> DEFINE Q == 2 * H
<1>2. Q \in Nat /\ Q >= 1 /\ d \in 0 .. P * Q - 1
    OBVIOUS
<1> HIDE DEF Q
<1>3. PICK q \in 0 .. P - 1, r \in 0 .. Q - 1 :
        d \div Q = q /\ d % Q = r /\ d = Q * q + r /\ Turned(d, P, Q) = r * P + q
    BY <1>2, PlaceParts, Zenon
<1>4. a \in 0 .. P - 1
    BY <1>1, <1>3 DEF Q
<1> QED BY <1>1, <1>4

TwoOf(P, H, d, g) ==
  /\ P \in Nat /\ P >= 1 /\ H \in Nat /\ H >= 1
  /\ d \in 0 .. P * (2 * H) - 1 /\ g \in 0 .. P * (2 * H) - 1

LEMMA PlacesShifted ==
  ASSUME NEW P, NEW H, NEW d, NEW g, TwoOf(P, H, d, g)
  PROVE  LET y == (d % (2 * H)) * P + g \div (2 * H)
             z == (g % (2 * H)) * P
             T == P * H
         IN  /\ y \in 0 .. 2 * T - 1 /\ z \in 0 .. 2 * T - 1
             /\ (y % T) * 2 + z \div T = (d % H) * (2 * P) + g \div H
             /\ (z % T) * 2 = (g % H) * (2 * P)
             /\ (y \div T) % 2 = (d \div H) % 2
<1> DEFINE y == (d % (2 * H)) * P + g \div (2 * H)
           z == (g % (2 * H)) * P
           T == P * H
<1>0. /\ P \in Nat /\ P >= 1 /\ H \in Nat /\ H >= 1
      /\ d \in 0 .. P * (2 * H) - 1 /\ g \in 0 .. P * (2 * H) - 1
    BY DEF TwoOf
<1>1. PICK a \in 0 .. P - 1, e \in {0, 1}, u \in 0 .. H - 1 :
           /\ d = (2 * H) * a + (H * e + u)
           /\ d \div (2 * H) = a /\ d % H = u /\ d \div H = 2 * a + e
           /\ (d \div H) % 2 = e /\ d % (2 * H) = H * e + u
    BY <1>0, PlaceAt, Zenon
<1>2. PICK b \in 0 .. P - 1, i \in {0, 1}, j \in 0 .. H - 1 :
           /\ g = (2 * H) * b + (H * i + j)
           /\ g \div (2 * H) = b /\ g % H = j /\ g \div H = 2 * b + i
           /\ (g \div H) % 2 = i /\ g % (2 * H) = H * i + j
    BY <1>0, PlaceAt, Zenon
<1> DEFINE s == P * u + b
           t == P * j
<1>3. s \in 0 .. T - 1 /\ t \in 0 .. T - 1
  <2>1. P * u + b \in 0 .. H * P - 1
      BY <1>1, <1>2, PlaceBelow, <1>0
  <2>2. P * j + 0 \in 0 .. H * P - 1
    <3>1. 0 \in 0 .. P - 1
        BY <1>0
    <3> QED BY <1>2, <3>1, PlaceBelow, <1>0
  <2>3. H * P = T /\ P * j + 0 = t
      BY <1>0, <1>2
  <2> QED BY <2>1, <2>2, <2>3
<1>4. y = T * e + s /\ z = T * i + t
  <2>1. y = (H * e + u) * P + b /\ z = (H * i + j) * P
      BY <1>1, <1>2, Zenon
  <2>2. (H * e + u) * P + b = T * e + s /\ (H * i + j) * P = T * i + t
      BY <1>0, <1>1, <1>2
  <2> QED BY <2>1, <2>2
<1>5. T \in Nat /\ T >= 1
    BY <1>0
<1>6. 2 * s + i = u * (2 * P) + (2 * b + i) /\ 2 * t = j * (2 * P)
    BY <1>0, <1>1, <1>2
<1> HIDE DEF y, z, T, s, t
<1>7. Places(y, T, e, s) /\ Places(z, T, i, t)
    BY <1>1, <1>2, <1>3, <1>4, <1>5 DEF Places
<1>8. y \div T = e /\ y % T = s /\ z \div T = i /\ z % T = t
    BY <1>7, PlacesGive
<1>9. y \in 0 .. 2 * T - 1 /\ z \in 0 .. 2 * T - 1
    BY <1>1, <1>2, <1>3, <1>4, <1>5
<1>10. (y % T) * 2 + z \div T = (d % H) * (2 * P) + g \div H /\ (z % T) * 2 = (g % H) * (2 * P)
  <2>1. s * 2 + i = u * (2 * P) + (2 * b + i) /\ t * 2 = j * (2 * P)
      BY <1>2, <1>3, <1>6
  <2> QED BY <1>1, <1>2, <1>8, <2>1, Zenon
<1>11. (y \div T) % 2 = (d \div H) % 2
    BY <1>1, <1>8
<1> QED BY <1>9, <1>10, <1>11 DEF y, z, T

\* One place more to the left is by one place more: the operand, the bits
\* that are still to come in, and the bit that falls out.
LeftMoves(v, d, g, k) ==
  LET y == ShiftedLeft(v, k, d, g)
      z == Shifted(v, g, k)
  IN  /\ y \in 0 .. 2^v - 1 /\ z \in 0 .. 2^v - 1
      /\ ShiftedLeft(v, 1, y, z) = ShiftedLeft(v, k + 1, d, g)
      /\ Shifted(v, z, 1) = Shifted(v, g, k + 1)
      /\ Bit(y, v - 1) <=> Bit(d, v - (k + 1))

LEMMA ShiftedLeftNext ==
  ASSUME NEW v, Width(v), NEW d \in 0 .. 2^v - 1, NEW g \in 0 .. 2^v - 1, NEW k \in 0 .. v - 1
  PROVE  LeftMoves(v, d, g, k)
<1> DEFINE P == 2^k
           H == 2^(v - (k + 1))
           T == 2^(v - 1)
           W == 2^v
           y == ShiftedLeft(v, k, d, g)
           z == Shifted(v, g, k)
<1>1. v \in Nat /\ v >= 2 /\ k \in 0 .. v /\ k + 1 \in 1 .. v /\ k + 1 \in 0 .. v /\ (k + 1) - 1 = k
    BY WidthPowers
<1>2. /\ P \in Nat /\ P >= 1 /\ H \in Nat /\ H >= 1 /\ T \in Nat /\ T >= 1
      /\ 2^(v - k) = 2 * H /\ 2^(k + 1) = 2 * P /\ P * 2^(v - k) = W /\ 2^1 = 2
      /\ W = 2 * T
  <2>1. 2^(k + 1) = 2 * 2^((k + 1) - 1) /\ 2^(v - ((k + 1) - 1)) = 2 * 2^(v - (k + 1))
      BY <1>1, WidthPowers
  <2>2. 2^1 = 2
      BY WidthPowers
  <2> QED BY <1>1, <2>1, <2>2, WidthPowers, TopPower
<1>3. P * (2 * H) = W /\ P * H = T
  <2> HIDE DEF P, H, T, W
  <2>1. P * (2 * H) = W
      BY <1>2
  <2>2. P * (2 * H) = 2 * (P * H) /\ P * H \in Nat
      BY <1>2
  <2> QED BY <1>2, <2>1, <2>2
<1>4. /\ y = (d % (2 * H)) * P + g \div (2 * H)
      /\ z = (g % (2 * H)) * P
    BY <1>2 DEF ShiftedLeft, Shifted
<1>5. /\ ShiftedLeft(v, 1, y, z) = (y % T) * 2 + z \div T
      /\ Shifted(v, z, 1) = (z % T) * 2
      /\ ShiftedLeft(v, k + 1, d, g) = (d % H) * (2 * P) + g \div H
      /\ Shifted(v, g, k + 1) = (g % H) * (2 * P)
  <2> HIDE DEF y, z
  <2> QED BY <1>2, Zenon DEF ShiftedLeft, Shifted
<1>6. d \in 0 .. P * (2 * H) - 1 /\ g \in 0 .. P * (2 * H) - 1
    BY <1>3
<1>7. (Bit(y, v - 1) <=> (y \div T) % 2 = 1) /\ (Bit(d, v - (k + 1)) <=> (d \div H) % 2 = 1)
    BY DEF Bit
<1> HIDE DEF P, H, T, W, y, z
<1>8. /\ y \in 0 .. 2 * T - 1 /\ z \in 0 .. 2 * T - 1
      /\ (y % T) * 2 + z \div T = (d % H) * (2 * P) + g \div H
      /\ (z % T) * 2 = (g % H) * (2 * P)
      /\ (y \div T) % 2 = (d \div H) % 2
  <2>1. TwoOf(P, H, d, g)
      BY <1>2, <1>6 DEF TwoOf
  <2>2. LET p == (d % (2 * H)) * P + g \div (2 * H)
            q == (g % (2 * H)) * P
            t == P * H
        IN  /\ p \in 0 .. 2 * t - 1 /\ q \in 0 .. 2 * t - 1
            /\ (p % t) * 2 + q \div t = (d % H) * (2 * P) + g \div H
            /\ (q % t) * 2 = (g % H) * (2 * P)
            /\ (p \div t) % 2 = (d \div H) % 2
      BY <2>1, PlacesShifted
  <2> QED BY <1>3, <1>4, <2>2, Zenon
<1> QED BY <1>2, <1>5, <1>7, <1>8, Zenon DEF y, z, W, LeftMoves

\* The same to the right.
LEMMA PlacesShiftedRight ==
  ASSUME NEW P, NEW R, NEW d, NEW g, TwoOf(P, R, d, g)
  PROVE  LET y == d \div R + (g % R) * (2 * P)
             z == g \div R
             T == P * R
         IN  /\ y \in 0 .. 2 * T - 1 /\ z \in 0 .. 2 * T - 1
             /\ y \div 2 + (z % 2) * T = d \div (2 * R) + (g % (2 * R)) * P
             /\ z \div 2 = g \div (2 * R)
             /\ y % 2 = (d \div R) % 2
<1> DEFINE y == d \div R + (g % R) * (2 * P)
           z == g \div R
           T == P * R
<1>0. /\ P \in Nat /\ P >= 1 /\ R \in Nat /\ R >= 1
      /\ d \in 0 .. P * (2 * R) - 1 /\ g \in 0 .. P * (2 * R) - 1
    BY DEF TwoOf
<1>1. PICK a \in 0 .. P - 1, e \in {0, 1}, u \in 0 .. R - 1 :
           /\ d = (2 * R) * a + (R * e + u)
           /\ d \div (2 * R) = a /\ d % R = u /\ d \div R = 2 * a + e
           /\ (d \div R) % 2 = e /\ d % (2 * R) = R * e + u
    BY <1>0, PlaceAt, Zenon
<1>2. PICK b \in 0 .. P - 1, i \in {0, 1}, j \in 0 .. R - 1 :
           /\ g = (2 * R) * b + (R * i + j)
           /\ g \div (2 * R) = b /\ g % R = j /\ g \div R = 2 * b + i
           /\ (g \div R) % 2 = i /\ g % (2 * R) = R * i + j
    BY <1>0, PlaceAt, Zenon
<1> DEFINE s == P * j + a
<1>3. T \in Nat /\ T >= 1 /\ s \in Int /\ T >= P
    BY <1>0, <1>1, <1>2
<1>4. y = 2 * s + e /\ z = 2 * b + i
  <2>1. y = (2 * a + e) + j * (2 * P) /\ z = 2 * b + i
      BY <1>1, <1>2, Zenon
  <2>2. (2 * a + e) + j * (2 * P) = 2 * s + e
      BY <1>0, <1>1, <1>2
  <2> QED BY <2>1, <2>2
<1>5. s \in 0 .. T - 1
  <2>1. P * j + a \in 0 .. R * P - 1
      BY <1>0, <1>1, <1>2, PlaceBelow
  <2>2. R * P = T
      BY <1>0
  <2> QED BY <2>1, <2>2
<1>6. s + i * T = a + (R * i + j) * P
    BY <1>0, <1>1, <1>2
<1> HIDE DEF y, z, T, s
<1>7. Places(y, 2, s, e) /\ Places(z, 2, b, i)
    BY <1>1, <1>2, <1>3, <1>4 DEF Places
<1>8. y \div 2 = s /\ y % 2 = e /\ z \div 2 = b /\ z % 2 = i
    BY <1>7, PlacesGive
<1>9. y \in 0 .. 2 * T - 1 /\ z \in 0 .. 2 * T - 1
    BY <1>0, <1>1, <1>2, <1>3, <1>4, <1>5
<1>10. y \div 2 + (z % 2) * T = d \div (2 * R) + (g % (2 * R)) * P
    BY <1>1, <1>2, <1>6, <1>8, Zenon
<1> QED BY <1>1, <1>2, <1>8, <1>9, <1>10 DEF y, z, T

RightMoves(v, d, g, k) ==
  LET y == ShiftedRight(v, k, d, g)
      z == g \div 2^k
  IN  /\ y \in 0 .. 2^v - 1 /\ z \in 0 .. 2^v - 1
      /\ ShiftedRight(v, 1, y, z) = ShiftedRight(v, k + 1, d, g)
      /\ z \div 2^1 = g \div 2^(k + 1)
      /\ Bit(y, 0) <=> Bit(d, k)

LEMMA ShiftedRightNext ==
  ASSUME NEW v, Width(v), NEW d \in 0 .. 2^v - 1, NEW g \in 0 .. 2^v - 1, NEW k \in 0 .. v - 1
  PROVE  RightMoves(v, d, g, k)
<1> DEFINE R == 2^k
           P == 2^(v - (k + 1))
           T == 2^(v - 1)
           W == 2^v
           y == ShiftedRight(v, k, d, g)
           z == g \div 2^k
<1>1. v \in Nat /\ v >= 2 /\ k \in 0 .. v /\ k + 1 \in 1 .. v /\ k + 1 \in 0 .. v /\ (k + 1) - 1 = k
    BY WidthPowers
<1>2. /\ P \in Nat /\ P >= 1 /\ R \in Nat /\ R >= 1 /\ T \in Nat /\ T >= 1
      /\ 2^(v - k) = 2 * P /\ 2^(k + 1) = 2 * R /\ R * 2^(v - k) = W /\ 2^1 = 2 /\ 2^0 = 1
      /\ W = 2 * T
  <2>1. 2^(k + 1) = 2 * 2^((k + 1) - 1) /\ 2^(v - ((k + 1) - 1)) = 2 * 2^(v - (k + 1))
      BY <1>1, WidthPowers
  <2>2. 2^1 = 2 /\ 2^0 = 1
      BY WidthPowers
  <2> QED BY <1>1, <2>1, <2>2, WidthPowers, TopPower
<1>3. P * (2 * R) = W /\ P * R = T
  <2> HIDE DEF P, R, T, W
  <2>1. R * (2 * P) = W
      BY <1>2
  <2>2. R * (2 * P) = 2 * (P * R) /\ P * (2 * R) = 2 * (P * R) /\ P * R \in Nat
      BY <1>2
  <2> QED BY <1>2, <2>1, <2>2
<1>4. /\ y = d \div R + (g % R) * (2 * P)
      /\ z = g \div R
    BY <1>2 DEF ShiftedRight
<1>5. /\ ShiftedRight(v, 1, y, z) = y \div 2 + (z % 2) * T
      /\ ShiftedRight(v, k + 1, d, g) = d \div (2 * R) + (g % (2 * R)) * P
      /\ z \div 2^1 = z \div 2 /\ g \div 2^(k + 1) = g \div (2 * R)
  <2> HIDE DEF y, z
  <2> QED BY <1>2, Zenon DEF ShiftedRight
<1>6. d \in 0 .. P * (2 * R) - 1 /\ g \in 0 .. P * (2 * R) - 1
    BY <1>3
<1>7. (Bit(y, 0) <=> (y \div 1) % 2 = 1) /\ (Bit(d, k) <=> (d \div R) % 2 = 1)
    BY <1>2 DEF Bit
<1> HIDE DEF P, R, T, W, y, z
<1>8. /\ y \in 0 .. 2 * T - 1 /\ z \in 0 .. 2 * T - 1
      /\ y \div 2 + (z % 2) * T = d \div (2 * R) + (g % (2 * R)) * P
      /\ z \div 2 = g \div (2 * R)
      /\ y % 2 = (d \div R) % 2
  <2>1. TwoOf(P, R, d, g)
      BY <1>2, <1>6 DEF TwoOf
  <2>2. LET p == d \div R + (g % R) * (2 * P)
            q == g \div R
            t == P * R
        IN  /\ p \in 0 .. 2 * t - 1 /\ q \in 0 .. 2 * t - 1
            /\ p \div 2 + (q % 2) * t = d \div (2 * R) + (g % (2 * R)) * P
            /\ q \div 2 = g \div (2 * R)
            /\ p % 2 = (d \div R) % 2
      BY <2>1, PlacesShiftedRight
  <2> QED BY <1>3, <1>4, <2>2, Zenon
<1>9. y \div 1 = y
  <2>1. Places(y, 1, y, 0)
      BY <1>2, <1>8 DEF Places
  <2> QED BY <2>1, PlacesGive
<1> QED BY <1>2, <1>5, <1>7, <1>8, <1>9, Zenon DEF y, z, W, RightMoves

-----------------------------------------------------------------------------
\* The signed numbers.
ShiftedSigned(v, k, d) == (Signed(v, d) \div 2^k) % 2^v

LEMMA SignedParts ==
  ASSUME NEW v, Width(v), NEW d \in 0 .. 2^v - 1
  PROVE  /\ Signed(v, d) \in - 2^(v - 1) .. 2^(v - 1) - 1
         /\ d = Signed(v, d) \/ d = Signed(v, d) + 2^v
         /\ Signed(v, d) % 2^v = d
<1> DEFINE T == 2^(v - 1)
           W == 2^v
           s == Signed(v, d)
<1>1. T \in Nat /\ T >= 1 /\ W = 2 * T /\ W \in Nat /\ W >= 1 /\ d \in 0 .. W - 1
    BY TopPower
<1>2. Sign(v, d) <=> d >= T
    BY TopBit
<1>3. s = IF d >= T THEN d - W ELSE d
    BY <1>2 DEF Signed
<1> HIDE DEF s, T, W
<1>4. s \in - T .. T - 1 /\ (d = s \/ d = s + W)
    BY <1>1, <1>3
<1>5. Places(s, W, 0, d) \/ Places(s, W, -1, d)
    BY <1>1, <1>3 DEF Places
<1>6. s % W = d
    BY <1>5, PlacesGive
<1> QED BY <1>4, <1>6 DEF s, T, W

LEMMA SignedOfRest ==
  ASSUME NEW v, Width(v), NEW s \in - 2^(v - 1) .. 2^(v - 1) - 1
  PROVE  s % 2^v \in 0 .. 2^v - 1 /\ Signed(v, s % 2^v) = s
<1> DEFINE T == 2^(v - 1)
           W == 2^v
           d == s % W
<1>1. T \in Nat /\ T >= 1 /\ W = 2 * T /\ W \in Nat /\ W >= 1 /\ s \in - T .. T - 1
    BY TopPower
<1> HIDE DEF T, W
<1>2. Places(s, W, 0, s) \/ Places(s, W, -1, s + W)
    BY <1>1 DEF Places
<1>3. d = IF s >= 0 THEN s ELSE s + W
  <2>1. CASE s >= 0
    <3>1. Places(s, W, 0, s)
        BY <1>1, <2>1 DEF Places
    <3> QED BY <2>1, <3>1, PlacesGive
  <2>2. CASE ~ (s >= 0)
    <3>1. Places(s, W, -1, s + W)
        BY <1>1, <2>2 DEF Places
    <3> QED BY <2>2, <3>1, PlacesGive
  <2> QED BY <2>1, <2>2
<1>4. d \in 0 .. W - 1
    BY <1>1, <1>3
<1>5. Sign(v, d) <=> d >= T
  <2>1. d \in 0 .. 2^v - 1
      BY <1>4 DEF W
  <2> HIDE DEF d
  <2> QED BY <2>1, TopBit DEF T
<1>6. Signed(v, d) = IF d >= T THEN d - W ELSE d
    BY <1>5 DEF Signed, W
<1> HIDE DEF d
<1>7. Signed(v, d) = s
    BY <1>1, <1>3, <1>6
<1> QED BY <1>4, <1>7 DEF d, W

\* SAR by less than the width.
SarCount(v, fl, d, s) ==
  LET x == sar(v, fl, d, s)
  IN  /\ x.val = ShiftedSigned(v, s, d)
      /\ s = 0 => x.f = fl
      /\ s > 0 => /\ ("CF" \in x.f) <=> Bit(d, s - 1)
                  /\ x.f \cap ZSP = ResultFlags(v, x.val)

LEMMA SarGives ==
  ASSUME NEW v, Width(v), NEW fl, NEW d \in 0 .. 2^v - 1, NEW s \in 0 .. v - 1
  PROVE  SarCount(v, fl, d, s)
<1> DEFINE x == sar(v, fl, d, s)
<1>1. v \in Nat /\ v >= 2
    BY WidthPowers
<1>2. s % v = s
  <2>1. Places(s, v, 0, s)
      BY <1>1 DEF Places
  <2> QED BY <2>1, PlacesGive
<1>3. ASSUME s = 0
      PROVE  x.val = ShiftedSigned(v, s, d) /\ x.f = fl
  <2>1. x.val = d /\ x.f = fl
      BY <1>2, <1>3, Zenon DEF sar
  <2> DEFINE t == Signed(v, d)
  <2>2. t \in Int /\ t % 2^v = d
      BY SignedParts, TopPower
  <2> HIDE DEF t
  <2>3. Places(t, 1, t, 0)
      BY <2>2 DEF Places
  <2>4. t \div 1 = t
      BY <2>3, PlacesGive
  <2>5. 2^0 = 1
      BY WidthPowers
  <2>6. ShiftedSigned(v, s, d) = (t \div 1) % 2^v
      BY <1>3, <2>5, Zenon DEF ShiftedSigned, t
  <2> QED BY <2>1, <2>2, <2>4, <2>6, Zenon
<1>4. ASSUME s # 0
      PROVE  /\ x.val = ShiftedSigned(v, s, d)
             /\ ("CF" \in x.f) <=> Bit(d, s - 1)
             /\ x.f \cap ZSP = ResultFlags(v, x.val)
  <2> DEFINE r == ShiftedSigned(v, s, d)
  <2>1. x.val = r
      BY <1>2, <1>4, Zenon DEF sar, ShiftedSigned
  <2>2. x.f = Set(fl, ZSP \cup {"CF"}, ResultFlags(v, r) \cup Flag("CF", Bit(d, s - 1)))
      BY <1>2, <1>4, Zenon DEF sar, ShiftedSigned
  <2> HIDE DEF x, r
  <2>3. ("CF" \in x.f) <=> Bit(d, s - 1)
      BY <2>2, Zenon DEF Set, Flag, ResultFlags
  <2>4. x.f \cap ZSP = ResultFlags(v, r)
      BY <2>2, Zenon DEF Set, Flag, ResultFlags, ZSP
  <2> QED BY <2>1, <2>3, <2>4, Zenon DEF r
<1> HIDE DEF x
<1>5. s = 0 \/ s # 0
    OBVIOUS
<1>6. x.val = ShiftedSigned(v, s, d)
    BY <1>3, <1>4, <1>5, Zenon
<1>7. s > 0 => (("CF" \in x.f) <=> Bit(d, s - 1)) /\ x.f \cap ZSP = ResultFlags(v, x.val)
  <2>1. s > 0 => s # 0
      OBVIOUS
  <2> QED BY <1>4, <2>1, Zenon
<1> QED BY <1>3, <1>6, <1>7, Zenon DEF x, SarCount

SignedMoves(v, d, k) ==
  LET y == ShiftedSigned(v, k, d)
  IN  /\ y \in 0 .. 2^v - 1
      /\ ShiftedSigned(v, 1, y) = ShiftedSigned(v, k + 1, d)
      /\ Bit(y, 0) <=> Bit(d, k)

LEMMA ShiftedSignedNext ==
  ASSUME NEW v, Width(v), NEW d \in 0 .. 2^v - 1, NEW k \in 0 .. v - 1
  PROVE  SignedMoves(v, d, k)
<1> DEFINE R == 2^k
           P == 2^(v - (k + 1))
           T == 2^(v - 1)
           W == 2^v
           s == Signed(v, d)
           q == s \div R
           y == q % W
<1>1. v \in Nat /\ v >= 2 /\ k \in 0 .. v /\ k + 1 \in 1 .. v /\ k + 1 \in 0 .. v /\ (k + 1) - 1 = k
    BY WidthPowers
<1>2. /\ P \in Nat /\ P >= 1 /\ R \in Nat /\ R >= 1 /\ T \in Nat /\ T >= 1
      /\ 2^(v - k) = 2 * P /\ 2^(k + 1) = 2 * R /\ R * 2^(v - k) = W /\ 2^1 = 2 /\ 2^0 = 1
      /\ W = 2 * T
  <2>1. 2^(k + 1) = 2 * 2^((k + 1) - 1) /\ 2^(v - ((k + 1) - 1)) = 2 * 2^(v - (k + 1))
      BY <1>1, WidthPowers
  <2>2. 2^1 = 2 /\ 2^0 = 1
      BY WidthPowers
  <2> QED BY <1>1, <2>1, <2>2, WidthPowers, TopPower
<1>3. s \in - T .. T - 1 /\ (d = s \/ d = s + W)
    BY SignedParts
<1>4. /\ ShiftedSigned(v, k, d) = y
      /\ ShiftedSigned(v, k + 1, d) = (s \div (2 * R)) % W
      /\ \A z : ShiftedSigned(v, 1, z) = (Signed(v, z) \div 2) % W
      /\ \A z : Bit(z, 0) <=> (z \div 1) % 2 = 1
      /\ Bit(d, k) <=> (d \div R) % 2 = 1
    BY <1>2 DEF ShiftedSigned, Bit
<1> HIDE DEF s, R, P, T, W
<1>5. PICK a \in Int, e \in {0, 1}, u \in 0 .. R - 1 :
           /\ s = (2 * R) * a + (R * e + u)
           /\ s \div (2 * R) = a /\ s % R = u /\ s \div R = 2 * a + e
           /\ (s \div R) % 2 = e /\ s % (2 * R) = R * e + u
  <2>1. s \in Int
      BY <1>2, <1>3
  <2> QED BY <1>2, <2>1, AtPlace, Zenon
<1>6. q = 2 * a + e /\ q \in Int
    BY <1>5
<1> HIDE DEF q
<1>7. q \in - T .. T - 1
  <2>1. s = R * q + u
      BY <1>2, <1>5, <1>6
  <2>2. q >= T => R * q >= R * T
      BY <1>2, <1>6
  <2>3. q <= - T - 1 => R * q <= R * (- T - 1)
      BY <1>2, <1>6
  <2>4. R * T >= T /\ R * (- T - 1) = - (R * T) - R /\ R * T \in Int
      BY <1>2
  <2> DEFINE m == R * q
             p == R * T
  <2>5. m \in Int /\ p \in Int
      BY <1>2, <1>6
  <2> HIDE DEF m, p
  <2>6. s = m + u /\ (q >= T => m >= p) /\ (q <= - T - 1 => m <= - p - R) /\ p >= T
      BY <2>1, <2>2, <2>3, <2>4 DEF m, p
  <2> QED BY <1>2, <1>3, <1>5, <1>6, <2>5, <2>6
<1>8. y \in 0 .. W - 1 /\ Signed(v, y) = q
  <2>1. q \in - 2^(v - 1) .. 2^(v - 1) - 1
      BY <1>7 DEF T
  <2> QED BY <2>1, SignedOfRest DEF W
<1>9. q \div 2 = a /\ q % 2 = e
  <2>1. Places(q, 2, a, e)
      BY <1>5, <1>6 DEF Places
  <2> QED BY <2>1, PlacesGive
<1>10. y % 2 = e
  <2>1. 2 \in Nat /\ 2 >= 1
      OBVIOUS
  <2>2. (q % (2 * T)) % 2 = q % 2
      BY <1>2, <1>6, <2>1, RestOfRest, Zenon
  <2> QED BY <1>2, <1>9, <2>2
<1> HIDE DEF y
<1>11. y \div 1 = y
  <2>1. Places(y, 1, y, 0)
      BY <1>2, <1>8 DEF Places
  <2> QED BY <2>1, PlacesGive
<1>12. (d \div R) % 2 = e
  <2>1. W = (2 * R) * P
      BY <1>2
  <2>2. \E b \in Int : d = R * (2 * b + e) + u
    <3>1. CASE d = s
        BY <1>2, <1>5, <3>1
    <3>2. CASE d = s + W
      <4>1. d = R * (2 * (a + P) + e) + u
          BY <1>2, <1>5, <2>1, <3>2
      <4>2. a + P \in Int
          BY <1>2, <1>5
      <4> QED BY <4>1, <4>2
    <3> QED BY <1>3, <3>1, <3>2
  <2>3. PICK b \in Int : d = R * (2 * b + e) + u
      BY <2>2
  <2>4. Places(d, R, 2 * b + e, u) /\ Places(2 * b + e, 2, b, e)
      BY <1>2, <1>5, <2>3 DEF Places
  <2>5. d \div R = 2 * b + e /\ (2 * b + e) % 2 = e
      BY <2>4, PlacesGive
  <2> QED BY <2>5
<1>13. ShiftedSigned(v, 1, y) = ShiftedSigned(v, k + 1, d)
    BY <1>4, <1>5, <1>8, <1>9, Zenon
<1>14. Bit(y, 0) <=> Bit(d, k)
    BY <1>4, <1>10, <1>11, <1>12, Zenon
<1> QED BY <1>4, <1>8, <1>13, <1>14, Zenon DEF W, SignedMoves
-----------------------------------------------------------------------------
\* A step by one of each, after so many.

\* One step by one after k of them.
RolMoves(v, g, d, k, y) ==
  LET x == rol(v, g, y, 1)
  IN  /\ x.val \in 0 .. 2^v - 1
      /\ x.val = Rolled(v, k + 1, d)
      /\ ("CF" \in x.f) <=> Bit(x.val, 0)
      /\ ("OF" \in x.f) <=> (Sign(v, y) # Sign(v, x.val))
      /\ x.f \cap ZSP = g \cap ZSP

LEMMA RolStep ==
  ASSUME NEW v, Width(v), NEW g, NEW d \in 0 .. 2^v - 1, NEW k \in Nat, NEW y, y = Rolled(v, k, d)
  PROVE  RolMoves(v, g, d, k, y)
<1> DEFINE x == rol(v, g, y, 1)
<1>1. y \in 0 .. 2^v - 1 /\ Turned(y, 2, 2^(v - 1)) = Rolled(v, k + 1, d)
    BY RolledNext
<1>2. x.val = Turned(y, 2, 2^(v - 1)) /\ ("OF" \in x.f <=> (Sign(v, y) # Sign(v, x.val)))
    BY <1>1, RolOverflow
<1>3. 1 \in Nat /\ 1 > 0
    OBVIOUS
<1>4. (("CF" \in x.f) <=> Bit(x.val, 0)) /\ x.f \cap ZSP = g \cap ZSP
  <2>1. RolCount(v, g, y, 1)
      BY <1>1, <1>3, RolGives
  <2> QED BY <1>3, <2>1, Zenon DEF RolCount
<1>5. k + 1 \in Nat
    OBVIOUS
<1>6. Rolled(v, k + 1, d) \in 0 .. 2^v - 1
    BY <1>5, RolledNext
<1> HIDE DEF x
<1> QED BY <1>1, <1>2, <1>4, <1>6, Zenon DEF x, RolMoves

RorMoves(v, g, d, k, y) ==
  LET x == ror(v, g, y, 1)
  IN  /\ x.val \in 0 .. 2^v - 1
      /\ x.val = Rored(v, k + 1, d)
      /\ ("CF" \in x.f) <=> Sign(v, x.val)
      /\ ("OF" \in x.f) <=> (Sign(v, y) # Sign(v, x.val))
      /\ x.f \cap ZSP = g \cap ZSP

LEMMA RorStep ==
  ASSUME NEW v, Width(v), NEW g, NEW d \in 0 .. 2^v - 1, NEW k \in Nat, NEW y, y = Rored(v, k, d)
  PROVE  RorMoves(v, g, d, k, y)
<1> DEFINE x == ror(v, g, y, 1)
<1>1. y \in 0 .. 2^v - 1 /\ Turned(y, 2^(v - 1), 2) = Rored(v, k + 1, d)
    BY RoredNext
<1>2. x.val = Turned(y, 2^(v - 1), 2) /\ ("OF" \in x.f <=> (Sign(v, y) # Sign(v, x.val)))
    BY <1>1, RorOverflow
<1>3. 1 \in Nat /\ 1 > 0
    OBVIOUS
<1>4. (("CF" \in x.f) <=> Sign(v, x.val)) /\ x.f \cap ZSP = g \cap ZSP
  <2>1. RorCount(v, g, y, 1)
      BY <1>1, <1>3, RorGives
  <2> QED BY <1>3, <2>1, Zenon DEF RorCount
<1>5. k + 1 \in Nat
    OBVIOUS
<1>6. Rored(v, k + 1, d) \in 0 .. 2^v - 1
    BY <1>5, RoredNext
<1> HIDE DEF x
<1> QED BY <1>1, <1>2, <1>4, <1>6, Zenon DEF x, RorMoves

RclMoves(v, fl, g, d, k, y) ==
  LET x == rcl(v, g, y, 1)
  IN  /\ x.val \in 0 .. 2^v - 1
      /\ WithCarry(v, x.f, x.val) = RolledThrough(v, k + 1, WithCarry(v, fl, d))
      /\ ("OF" \in x.f) <=> (Sign(v, y) # Sign(v, x.val))
      /\ x.f \cap ZSP = g \cap ZSP

LEMMA RclStep ==
  ASSUME NEW v, Width(v), NEW fl, NEW g, NEW d \in 0 .. 2^v - 1, NEW y \in 0 .. 2^v - 1,
         NEW k \in Nat, WithCarry(v, g, y) = RolledThrough(v, k, WithCarry(v, fl, d))
  PROVE  RclMoves(v, fl, g, d, k, y)
<1> DEFINE x == rcl(v, g, y, 1)
           X == WithCarry(v, fl, d)
<1>1. X \in 0 .. 2 * 2^v - 1
    BY CarryAbove
<1> HIDE DEF X
<1>2. RolledThrough(v, 1, RolledThrough(v, k, X)) = RolledThrough(v, k + 1, X)
    BY <1>1, RolledThroughNext
<1>3. 1 \in Nat /\ 1 % (v + 1) # LONG
    BY OnePlace
<1>4. /\ x.val \in 0 .. 2^v - 1
      /\ WithCarry(v, x.f, x.val) = RolledThrough(v, 1, WithCarry(v, g, y))
      /\ x.f \cap ZSP = g \cap ZSP
  <2>1. RclCount(v, g, y, 1)
      BY <1>3, RclTurns
  <2> QED BY <2>1, Zenon DEF RclCount
<1>5. ("OF" \in x.f) <=> (Sign(v, y) # Sign(v, x.val))
    BY RclOverflow
<1> HIDE DEF x
<1> QED BY <1>2, <1>4, <1>5, Zenon DEF x, X, RclMoves

RcrMoves(v, fl, g, d, k, y) ==
  LET x == rcr(v, g, y, 1)
  IN  /\ x.val \in 0 .. 2^v - 1
      /\ WithCarry(v, x.f, x.val) = RoredThrough(v, k + 1, WithCarry(v, fl, d))
      /\ ("OF" \in x.f) <=> (Sign(v, y) # Sign(v, x.val))
      /\ x.f \cap ZSP = g \cap ZSP

LEMMA RcrStep ==
  ASSUME NEW v, Width(v), NEW fl, NEW g, NEW d \in 0 .. 2^v - 1, NEW y \in 0 .. 2^v - 1,
         NEW k \in Nat, WithCarry(v, g, y) = RoredThrough(v, k, WithCarry(v, fl, d))
  PROVE  RcrMoves(v, fl, g, d, k, y)
<1> DEFINE x == rcr(v, g, y, 1)
           X == WithCarry(v, fl, d)
<1>1. X \in 0 .. 2 * 2^v - 1
    BY CarryAbove
<1> HIDE DEF X
<1>2. RoredThrough(v, 1, RoredThrough(v, k, X)) = RoredThrough(v, k + 1, X)
    BY <1>1, RoredThroughNext
<1>3. 1 \in Nat
    OBVIOUS
<1>4. /\ x.val \in 0 .. 2^v - 1
      /\ WithCarry(v, x.f, x.val) = RoredThrough(v, 1, WithCarry(v, g, y))
      /\ x.f \cap ZSP = g \cap ZSP
  <2>1. RcrCount(v, g, y, 1)
      BY <1>3, RcrTurns
  <2> QED BY <2>1, Zenon DEF RcrCount
<1>5. ("OF" \in x.f) <=> (Sign(v, y) # Sign(v, x.val))
    BY RcrOverflow
<1> HIDE DEF x
<1> QED BY <1>2, <1>4, <1>5, Zenon DEF x, X, RcrMoves

\* A shift by all the places, and one of nothing, leave what comes in.
LEMMA ShiftedWhole ==
  ASSUME NEW v, Width(v), NEW d \in 0 .. 2^v - 1
  PROVE  /\ ShiftedLeft(v, v, d, 0) = 0 /\ ShiftedRight(v, v, d, 0) = 0
         /\ ShiftedLeft(v, 1, 0, 0) = 0 /\ ShiftedRight(v, 1, 0, 0) = 0
         /\ Shifted(v, 0, 1) = 0 /\ 0 \div 2^1 = 0
<1>1. /\ v \in Nat /\ v - v = 0 /\ 2^0 = 1 /\ 2^1 = 2
      /\ 2^v \in Nat /\ 2^v >= 1 /\ 2^(v - 1) \in Nat /\ 2^(v - 1) >= 1
    BY WidthPowers, TopPower
<1>2. /\ Places(d, 1, d, 0) /\ Places(d, 2^v, 0, d) /\ Places(0, 1, 0, 0) /\ Places(0, 2^v, 0, 0)
      /\ Places(0, 2, 0, 0) /\ Places(0, 2^(v - 1), 0, 0)
    BY <1>1 DEF Places
<1>3. /\ d % 1 = 0 /\ d \div 2^v = 0 /\ 0 \div 1 = 0 /\ 0 % 2^v = 0
      /\ 0 \div 2 = 0 /\ 0 % 2 = 0 /\ 0 \div 2^(v - 1) = 0 /\ 0 % 2^(v - 1) = 0
    BY <1>2, PlacesGive
<1>4. \A x \in Nat : 0 * x = 0 /\ 0 + 0 = 0
    OBVIOUS
<1>5. ShiftedLeft(v, v, d, 0) = 0 * 2^v + 0
    BY <1>1, <1>3, Zenon DEF ShiftedLeft, Shifted
<1>6. ShiftedRight(v, v, d, 0) = 0 + 0 * 1
    BY <1>1, <1>3, Zenon DEF ShiftedRight
<1>7. ShiftedLeft(v, 1, 0, 0) = 0 * 2 + 0 /\ Shifted(v, 0, 1) = 0 * 2
    BY <1>1, <1>3, Zenon DEF ShiftedLeft, Shifted
<1>8. ShiftedRight(v, 1, 0, 0) = 0 + 0 * 2^(v - 1)
    BY <1>1, <1>3, Zenon DEF ShiftedRight
<1> QED BY <1>1, <1>3, <1>4, <1>5, <1>6, <1>7, <1>8

\* What a step by one of the shifts leaves, and of the bits that come in.
ShldMoves(v, g, y, z) ==
  LET x == shld(v, g, y, z, 1)
  IN  /\ x.val = ShiftedLeft(v, 1, y, z) /\ x.val \in 0 .. 2^v - 1
      /\ ("CF" \in x.f) <=> Bit(y, v - 1)
      /\ ("OF" \in x.f) <=> (Sign(v, y) # Sign(v, x.val))
      /\ x.f \cap ZSP = ResultFlags(v, x.val)
      /\ shl(v, {}, z, 1).val = Shifted(v, z, 1) /\ Shifted(v, z, 1) \in 0 .. 2^v - 1

LEMMA ShldOne ==
  ASSUME NEW v, Width(v), NEW g, NEW y \in 0 .. 2^v - 1, NEW z \in 0 .. 2^v - 1
  PROVE  ShldMoves(v, g, y, z)
<1> DEFINE x == shld(v, g, y, z, 1)
<1>1. 1 \in Nat /\ 1 > 0 /\ 1 < v /\ 1 \in 0 .. v - 1
  <2>1. v \in Nat /\ v >= 2
      BY WidthPowers
  <2> QED BY <2>1
<1>2. /\ x.val = ShiftedLeft(v, 1, y, z)
      /\ ("CF" \in x.f) <=> Bit(y, v - 1)
      /\ x.f \cap ZSP = ResultFlags(v, x.val)
  <2>1. ShldCount(v, g, y, z, 1)
      BY <1>1, ShldSome
  <2> QED BY <2>1, Zenon DEF ShldCount
<1>3. ("OF" \in x.f) <=> (Sign(v, y) # Sign(v, x.val))
    BY ShiftsOverflow
<1>4. ShiftedLeft(v, 1, y, z) \in 0 .. 2^v - 1 /\ Shifted(v, z, 1) \in 0 .. 2^v - 1
    BY <1>1, ShiftedLeftNext DEF LeftMoves
<1>5. shl(v, {}, z, 1).val = Shifted(v, z, 1)
  <2>1. 0 \in 0 .. 2^v - 1
      BY TopPower
  <2>2. shld(v, {}, z, 0, 1).val = ShiftedLeft(v, 1, z, 0)
    <3>1. ShldCount(v, {}, z, 0, 1)
        BY <1>1, <2>1, ShldSome
    <3> QED BY <3>1, Zenon DEF ShldCount
  <2>3. ShiftedLeft(v, 1, z, 0) = Shifted(v, z, 1) + 0
    <3>1. 2^(v - 1) \in Nat /\ 2^(v - 1) >= 1
        BY TopPower
    <3>2. Places(0, 2^(v - 1), 0, 0)
        BY <3>1 DEF Places
    <3>3. 0 \div 2^(v - 1) = 0
        BY <3>2, PlacesGive
    <3> QED BY <3>3 DEF ShiftedLeft
  <2> QED BY <1>4, <2>2, <2>3 DEF shl
<1> HIDE DEF x
<1> QED BY <1>2, <1>3, <1>4, <1>5, Zenon DEF x, ShldMoves

ShrdMoves(v, g, y, z) ==
  LET x == shrd(v, g, y, z, 1)
  IN  /\ x.val = ShiftedRight(v, 1, y, z) /\ x.val \in 0 .. 2^v - 1
      /\ ("CF" \in x.f) <=> Bit(y, 0)
      /\ ("OF" \in x.f) <=> (Sign(v, y) # Sign(v, x.val))
      /\ x.f \cap ZSP = ResultFlags(v, x.val)
      /\ shr(v, g, y, 1) = shrd(v, g, y, 0, 1)
      /\ shr(v, {}, z, 1).val = z \div 2^1 /\ z \div 2^1 \in 0 .. 2^v - 1

LEMMA ShrdOne ==
  ASSUME NEW v, Width(v), NEW g, NEW y \in 0 .. 2^v - 1, NEW z \in 0 .. 2^v - 1
  PROVE  ShrdMoves(v, g, y, z)
<1> DEFINE x == shrd(v, g, y, z, 1)
<1>1. 1 \in Nat /\ 1 > 0 /\ 1 < v /\ 1 \in 0 .. v - 1 /\ 1 - 1 = 0 /\ ~ (1 >= v)
  <2>1. v \in Nat /\ v >= 2
      BY WidthPowers
  <2> QED BY <2>1
<1>2. /\ x.val = ShiftedRight(v, 1, y, z)
      /\ ("CF" \in x.f) <=> Bit(y, 0)
      /\ x.f \cap ZSP = ResultFlags(v, x.val)
  <2>1. /\ x.val = ShiftedRight(v, 1, y, z)
        /\ ("CF" \in x.f) <=> Bit(y, 1 - 1)
        /\ x.f \cap ZSP = ResultFlags(v, x.val)
    <3>1. ShrdCount(v, g, y, z, 1)
        BY <1>1, ShrdSome
    <3> QED BY <3>1, Zenon DEF ShrdCount
  <2> QED BY <1>1, <2>1, Zenon
<1>3. ("OF" \in x.f) <=> (Sign(v, y) # Sign(v, x.val))
    BY ShiftsOverflow
<1>4. ShiftedRight(v, 1, y, z) \in 0 .. 2^v - 1 /\ z \div 2^1 \in 0 .. 2^v - 1
    BY <1>1, ShiftedRightNext DEF RightMoves
<1>5. \A h, q : shr(v, h, q, 1) = shrd(v, h, q, 0, 1)
    BY <1>1, Zenon DEF shr
<1>6. shr(v, {}, z, 1).val = z \div 2^1
  <2>1. 0 \in 0 .. 2^v - 1
      BY TopPower
  <2>2. shrd(v, {}, z, 0, 1).val = ShiftedRight(v, 1, z, 0)
    <3>1. ShrdCount(v, {}, z, 0, 1)
        BY <1>1, <2>1, ShrdSome
    <3> QED BY <3>1, Zenon DEF ShrdCount
  <2>3. ShiftedRight(v, 1, z, 0) = z \div 2^1 + 0 * 2^(v - 1)
    <3>1. 0 % 2^1 = 0
        BY OnePlace
    <3> QED BY <3>1 DEF ShiftedRight
  <2>4. 0 * 2^(v - 1) = 0
      BY TopPower
  <2>5. ShiftedRight(v, 1, z, 0) = z \div 2^1 + 0
      BY <2>3, <2>4, Zenon
  <2> QED BY <1>4, <1>5, <2>2, <2>5
<1> HIDE DEF x
<1> QED BY <1>2, <1>3, <1>4, <1>5, <1>6, Zenon DEF x, ShrdMoves

SarMoves(v, g, y) ==
  LET x == sar(v, g, y, 1)
  IN  /\ x.val = ShiftedSigned(v, 1, y) /\ x.val \in 0 .. 2^v - 1
      /\ ("CF" \in x.f) <=> Bit(y, 0)
      /\ x.f \cap ZSP = ResultFlags(v, x.val)

LEMMA SarOne ==
  ASSUME NEW v, Width(v), NEW g, NEW y \in 0 .. 2^v - 1
  PROVE  SarMoves(v, g, y)
<1> DEFINE x == sar(v, g, y, 1)
<1>1. 1 \in 0 .. v - 1 /\ 1 > 0 /\ 1 - 1 = 0
  <2>1. v \in Nat /\ v >= 2
      BY WidthPowers
  <2> QED BY <2>1
<1>2. /\ x.val = ShiftedSigned(v, 1, y)
      /\ 1 > 0 => /\ ("CF" \in x.f) <=> Bit(y, 1 - 1)
                  /\ x.f \cap ZSP = ResultFlags(v, x.val)
  <2>1. SarCount(v, g, y, 1)
      BY <1>1, SarGives
  <2> QED BY <2>1, Zenon DEF SarCount
<1>3. ShiftedSigned(v, 1, y) \in 0 .. 2^v - 1
    BY <1>1, ShiftedSignedNext DEF SignedMoves
<1> HIDE DEF x
<1> QED BY <1>1, <1>2, <1>3, Zenon DEF x, SarMoves

\* No places at all.
LEMMA NothingMoved ==
  ASSUME NEW v, Width(v), NEW d \in 0 .. 2^v - 1, NEW g \in 0 .. 2^v - 1, NEW X \in 0 .. 2 * 2^v - 1
  PROVE  /\ Rolled(v, 0, d) = d /\ Rored(v, 0, d) = d
         /\ RolledThrough(v, 0, X) = X /\ RoredThrough(v, 0, X) = X
         /\ ShiftedLeft(v, 0, d, g) = d /\ Shifted(v, g, 0) = g
         /\ ShiftedRight(v, 0, d, g) = d /\ g \div 2^0 = g
         /\ ShiftedSigned(v, 0, d) = d
<1> DEFINE W == 2^v
<1>1. W \in Nat /\ W >= 1 /\ 2 * W \in Nat /\ 2 * W >= 1
    BY TopPower
<1>2. v \in Nat /\ v >= 2 /\ 2^0 = 1
    BY WidthPowers
<1>3. 0 % v = 0 /\ 0 % (v + 1) = 0 /\ v - 0 = v
    BY <1>2
<1>4. Turned(d, 1, W) = d /\ Turned(d, W, 1) = d
    BY <1>1, TurnedWhole
<1>5. Turned(X, 1, 2 * W) = X /\ Turned(X, 2 * W, 1) = X
    BY <1>1, TurnedWhole
<1>6. Rolled(v, 0, d) = d /\ Rored(v, 0, d) = d
    BY <1>2, <1>3, <1>4, Zenon DEF Rolled, Rored
<1>7. RolledThrough(v, 0, X) = X /\ RoredThrough(v, 0, X) = X
    BY <1>2, <1>3, <1>5, Zenon DEF RolledThrough, RoredThrough
<1>8. /\ Places(d, W, 0, d) /\ Places(g, W, 0, g) /\ Places(d, 1, d, 0) /\ Places(g, 1, g, 0)
    BY <1>1 DEF Places
<1>9. /\ d % W = d /\ g % W = g /\ g \div W = 0
      /\ d \div 1 = d /\ g \div 1 = g /\ g % 1 = 0
    BY <1>8, PlacesGive
<1>10. Shifted(v, d, 0) = d * 1 /\ Shifted(v, g, 0) = g * 1
    BY <1>2, <1>3, <1>9, Zenon DEF Shifted
<1>11. Shifted(v, d, 0) = d /\ Shifted(v, g, 0) = g
    BY <1>10
<1>12. ShiftedLeft(v, 0, d, g) = d + 0
    BY <1>3, <1>9, <1>11, Zenon DEF ShiftedLeft
<1>13. ShiftedRight(v, 0, d, g) = d + 0 * W
    BY <1>2, <1>3, <1>9, Zenon DEF ShiftedRight
<1>14. ShiftedLeft(v, 0, d, g) = d /\ ShiftedRight(v, 0, d, g) = d
  <2> HIDE DEF W
  <2> QED BY <1>1, <1>12, <1>13
<1>15. ShiftedSigned(v, 0, d) = d
  <2>1. Signed(v, d) \in - 2^(v - 1) .. 2^(v - 1) - 1 /\ Signed(v, d) % W = d
      BY SignedParts
  <2>2. Signed(v, d) \in Int
      BY <2>1, TopPower
  <2>3. Signed(v, d) \div 1 = Signed(v, d)
      BY <2>2
  <2> QED BY <1>2, <2>1, <2>3, Zenon DEF ShiftedSigned
<1> QED BY <1>2, <1>6, <1>7, <1>9, <1>11, <1>14, <1>15, Zenon

\* What comes in with a double shift is a number of the width.
LEMMA FillBelow ==
  ASSUME NEW v, Width(v), NEW x \in {0, 1, 2^(v - 1), 2^v - 2}
  PROVE  x \in 0 .. 2^v - 1
<1> DEFINE T == 2^(v - 1)
<1>1. T \in Nat /\ T >= 1 /\ 2^v = 2 * T
    BY TopPower
<1> QED BY <1>1
=============================================================================
