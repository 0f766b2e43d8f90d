-------------------------- MODULE X86NumbersProofs --------------------------
(***************************************************************************)
(* What the programs of X86Numbers compute, from what X86AluProofs knows   *)
(* of the primitives.                                                      *)
(***************************************************************************)
EXTENDS X86Numbers, X86AluProofs, WellFoundedInduction

-----------------------------------------------------------------------------
Undone == {"div", "idiv", "mul", "imul"}

\* The registers hold what the next instruction needs: after a division the
\* quotient and the remainder of what was given, after a product the product.
PairHeld ==
  /\ w = BYTE /\ n \in 0 .. 2
  /\ given.hi \in Byte /\ given.lo \in Byte /\ given.s \in Byte
  /\ have.hi \in Byte /\ have.lo \in Byte /\ have.fault \in BOOLEAN

Divided ==
  LET q == Signed(BYTE, have.lo)
      r == Signed(BYTE, have.hi)
      s == Signed(BYTE, given.s)
      pair == given.hi * Base + given.lo
  IN  /\ op = "div" /\ n = 1 =>
           /\ have.fault = (given.hi >= given.s)
           /\ ~ have.fault => have.hi < given.s /\ have.lo * given.s + have.hi = pair
      /\ op = "idiv" /\ n = 1 =>
           (have.fault <=> Magnitude_(Signed(WORD, pair)) >= Magnitude_(s) * 2^(BYTE - 1))
      /\ op = "idiv" /\ n = 1 /\ ~ have.fault =>
           /\ q * s + r = Signed(WORD, pair) /\ Magnitude_(r) < Magnitude_(s)
           /\ r # 0 => (r < 0) = Sign(BYTE, given.hi)
      /\ op \in {"div", "idiv"} /\ n = 2 => have.hi = given.hi /\ have.lo = given.lo

UInv ==
  op \in Undone =>
    /\ PairHeld
    /\ n = 0 => have.hi = given.hi /\ have.lo = given.lo
    /\ Divided
    /\ ProductWhole

LEMMA UInvInit == Init => UInv
<1> SUFFICES ASSUME Init, op \in Undone PROVE UInv
    BY DEF UInv
<1>1. InitUndo /\ n = 0
    BY DEF Init, InitLong, InitShift, Undone, Carrying, Decimals, Shifts, Rotations, Doubles
<1>2. Factors \subseteq Byte
    BY NumberAssumption DEF Byte, Base
<1>3. PairHeld /\ have.hi = given.hi /\ have.lo = given.lo
    BY <1>1, <1>2 DEF InitUndo, PairHeld
<1>4. Divided /\ ProductWhole
    BY <1>1 DEF Divided, ProductWhole
<1> QED BY <1>3, <1>4 DEF UInv

LEMMA DivKeeps == UInv /\ Div => UInv'
<1> SUFFICES ASSUME UInv, Div PROVE UInv'
    OBVIOUS
<1>1. op = "div" /\ n = 0 /\ op' = op /\ w' = w /\ given' = given /\ n' = 1
    BY DEF Div, Divide, Became
<1>2. PairHeld /\ have.hi = given.hi /\ have.lo = given.lo
    BY <1>1 DEF UInv, Undone
<1> DEFINE q == div(BYTE, f, given.hi, given.lo, given.s)
           h == given.hi
           l == given.lo
           s == given.s
<1>3. h \in Byte /\ l \in Byte /\ s \in Byte /\ w = BYTE
    BY <1>2 DEF PairHeld
<1>4. have' = IF q.ok THEN [hi |-> q.hi, lo |-> q.lo, fault |-> FALSE]
              ELSE [hi |-> h, lo |-> l, fault |-> TRUE]
    BY <1>2, <1>3 DEF Div, Divide, Became
<1>5. /\ q.ok \in BOOLEAN /\ (q.ok <=> h < s)
      /\ q.ok => q.lo \in Byte /\ q.hi \in Byte /\ q.hi < s /\ q.lo * s + q.hi = h * Base + l
    BY <1>3, DivGives DEF Byte
<1> HIDE DEF q
<1>6. PairHeld'
    BY <1>1, <1>2, <1>4, <1>5 DEF PairHeld, Byte
<1>7. have'.fault = (h >= s) /\ (~ have'.fault => have'.hi < s /\ have'.lo * s + have'.hi = h * Base + l)
  <2>1. h \in Int /\ s \in Int
      BY <1>3, Powers DEF Byte
  <2>2. CASE q.ok
    <3>1. have'.fault = FALSE /\ have'.hi = q.hi /\ have'.lo = q.lo /\ (h >= s) = FALSE
        BY <1>4, <1>5, <2>1, <2>2
    <3> QED BY <1>5, <2>2, <3>1
  <2>3. CASE ~ q.ok
    <3>1. have'.fault = TRUE /\ (h >= s) = TRUE
        BY <1>4, <1>5, <2>1, <2>3
    <3> QED BY <3>1
  <2> QED BY <2>2, <2>3
<1>8. Divided'
    BY <1>1, <1>7 DEF Divided
<1>9. ProductWhole'
    BY <1>1 DEF ProductWhole
<1> QED BY <1>1, <1>6, <1>8, <1>9 DEF UInv

LEMMA IDivKeeps == UInv /\ IDiv => UInv'
<1> SUFFICES ASSUME UInv, IDiv PROVE UInv'
    OBVIOUS
<1>1. op = "idiv" /\ n = 0 /\ op' = op /\ w' = w /\ given' = given /\ n' = 1
    BY DEF IDiv, Divide, Became
<1>2. PairHeld /\ have.hi = given.hi /\ have.lo = given.lo
    BY <1>1 DEF UInv, Undone
<1> DEFINE x == idiv(BYTE, f, given.hi, given.lo, given.s)
           h == given.hi
           l == given.lo
           s == given.s
           v == Signed(BYTE, s)
<1>3. h \in Byte /\ l \in Byte /\ s \in Byte /\ w = BYTE
    BY <1>2 DEF PairHeld
<1>4. have' = IF x.ok THEN [hi |-> x.hi, lo |-> x.lo, fault |-> FALSE]
              ELSE [hi |-> h, lo |-> l, fault |-> TRUE]
    BY <1>2, <1>3 DEF IDiv, Divide, Became
<1>5. /\ x.ok \in BOOLEAN
      /\ x.ok <=> ~ (Magnitude_(Signed(WORD, h * Base + l)) >= Magnitude_(v) * 2^(BYTE - 1))
      /\ x.ok => /\ x.lo \in Byte /\ x.hi \in Byte
                 /\ Signed(BYTE, x.lo) * v + Signed(BYTE, x.hi) = Signed(WORD, h * Base + l)
                 /\ Magnitude_(Signed(BYTE, x.hi)) < Magnitude_(v)
                 /\ Signed(BYTE, x.hi) # 0 => (Signed(BYTE, x.hi) < 0) = Sign(BYTE, h)
    BY <1>3, IDivGives DEF Byte, abs, Magnitude_, Top
<1> HIDE DEF x
<1>6. PairHeld'
    BY <1>1, <1>2, <1>4, <1>5 DEF PairHeld, Byte
<1>7. /\ have'.fault <=> ~ x.ok
      /\ x.ok => have'.lo = x.lo /\ have'.hi = x.hi
    BY <1>4, <1>5
<1>8. Divided'
  <2>1. have'.fault <=> Magnitude_(Signed(WORD, h * Base + l)) >= Magnitude_(v) * 2^(BYTE - 1)
      BY <1>5, <1>7, Zenon
  <2>2. ~ have'.fault => x.ok
      BY <1>5, <1>7, Zenon
  <2> QED BY <1>1, <1>5, <1>7, <2>1, <2>2 DEF Divided
<1>9. ProductWhole'
    BY <1>1 DEF ProductWhole
<1> QED BY <1>1, <1>6, <1>8, <1>9 DEF UInv

\* MUL, ADD and ADC.
LEMMA UnDivKeeps == UInv /\ UnDiv => UInv'
<1> SUFFICES ASSUME UInv, UnDiv PROVE UInv'
    OBVIOUS
<1>1. op = "div" /\ n = 1 /\ ~ have.fault /\ op' = op /\ w' = w /\ given' = given /\ n' = 2
    BY DEF UnDiv, MultiplyBack, Became
<1>2. PairHeld /\ Divided
    BY <1>1 DEF UInv, Undone
<1> DEFINE h == given.hi
           l == given.lo
           s == given.s
           q == have.lo
           r == have.hi
           p == mul(BYTE, f, q, s)
           low == add(BYTE, p.f, p.lo, r)
           high == adc(BYTE, low.f, p.hi, 0)
<1>3. h \in Byte /\ l \in Byte /\ s \in Byte /\ q \in Byte /\ r \in Byte /\ w = BYTE
    BY <1>2 DEF PairHeld
<1>4. q * s + r = h * Base + l
    BY <1>1, <1>2 DEF Divided
<1>5. have' = [hi |-> high.val, lo |-> low.val, fault |-> FALSE]
    BY <1>3 DEF UnDiv, MultiplyBack, Became
<1>6. p.lo \in Byte /\ p.hi \in Byte /\ p.lo + p.hi * Base = q * s
    BY <1>3, MulGives DEF Byte
<1> HIDE DEF p
<1>7. low.val = l /\ high.val = h
  <2> DEFINE x == p.lo
             y == p.hi
             a == low.val
             b == high.val
             z == 0
  <2>1. Base \in Nat /\ Base >= 1 /\ z \in Int /\ z = 0 /\ 0 \in Byte
      BY Powers DEF Byte
  <2>2. x \in Byte /\ y \in Byte /\ x + y * Base = q * s
      BY <1>6
  <2>3. /\ a \in Byte /\ b \in Byte
        /\ \E e \in Int : Base * (b + Base * e) + a = x + r + Base * (y + 0)
    <3>1. x \in Byte /\ y \in Byte /\ r \in Byte /\ 0 \in Byte
        BY <1>3, <2>1, <2>2
    <3> HIDE DEF r
    <3>2. a \in Byte /\ b \in Byte
        BY <3>1, PairAdded
    <3>3. \E e \in Int : Base * (b + Base * e) + a = x + r + Base * (y + 0)
        BY <3>1, PairAdded, SMT
    <3> QED BY <3>2, <3>3
  <2> HIDE DEF x, y, z, h, l, s, q, r, a, b, low, high
  <2>4. PICK e \in Int : Base * (b + Base * e) + a = x + r + Base * (y + 0)
      BY <2>3
  <2>5. Base * (b + Base * e) + a = Base * (h + Base * z) + l
      BY <1>3, <1>4, <2>1, <2>2, <2>4 DEF Byte
  <2>6. a = l /\ b = h
      BY <1>3, <2>1, <2>3, <2>5, PairIsNumber DEF Byte
  <2> QED BY <2>6 DEF a, b
<1> HIDE DEF low, high
<1>8. have'.hi = h /\ have'.lo = l /\ have'.fault = FALSE
    BY <1>5, <1>7
<1>9. PairHeld'
  <2>1. given' = given /\ n' \in 0 .. 2 /\ w' = BYTE
      BY <1>1, <1>3
  <2>2. have'.hi \in Byte /\ have'.lo \in Byte /\ have'.fault \in BOOLEAN
      BY <1>3, <1>8
  <2> HIDE DEF h, l, s
  <2> QED BY <1>2, <2>1, <2>2 DEF PairHeld, Byte
<1>10. Divided' /\ ProductWhole'
    BY <1>1, <1>8 DEF Divided, ProductWhole
<1> QED BY <1>1, <1>9, <1>10 DEF UInv

\* IMUL, ADD and ADC, with the sign of the remainder.
LEMMA UnIDivKeeps == UInv /\ UnIDiv => UInv'
<1> SUFFICES ASSUME UInv, UnIDiv PROVE UInv'
    OBVIOUS
<1>1. op = "idiv" /\ n = 1 /\ ~ have.fault /\ op' = op /\ w' = w /\ given' = given /\ n' = 2
    BY DEF UnIDiv, MultiplyBack, Became
<1>2. PairHeld /\ Divided
    BY <1>1 DEF UInv, Undone
<1> DEFINE h == given.hi
           l == given.lo
           s == given.s
           q == have.lo
           r == have.hi
           p == imul(BYTE, f, q, s)
           up == IF Sign(BYTE, r) THEN Base - 1 ELSE 0
           low == add(BYTE, p.f, p.lo, r)
           high == adc(BYTE, low.f, p.hi, up)
           m == Signed(BYTE, q) * Signed(BYTE, s)
<1>3. h \in Byte /\ l \in Byte /\ s \in Byte /\ q \in Byte /\ r \in Byte /\ w = BYTE
    BY <1>2 DEF PairHeld
<1>4. m + Signed(BYTE, r) = Signed(WORD, h * Base + l)
    BY <1>1, <1>2 DEF Divided
<1>5. have' = [hi |-> high.val, lo |-> low.val, fault |-> FALSE]
    BY <1>3 DEF UnIDiv, MultiplyBack, Became, Base
<1>6. /\ p.lo \in Byte /\ p.hi \in Byte
      /\ \E k \in Int : p.lo + p.hi * Base = m + Base * Base * k
    BY <1>3, IMulGives DEF Byte
<1>7. m \in Int
    BY <1>3, SignOfByte, Powers DEF Byte
<1> HIDE DEF p, m
<1>8. PICK k \in Int : p.lo + p.hi * Base = m + Base * Base * k
    BY <1>6
<1>9. low.val = l /\ high.val = h
  <2>1. Base \in Nat /\ Base >= 1 /\ Top \in Nat /\ up \in Byte
      BY Powers DEF Byte
  <2> DEFINE x == p.lo
             y == p.hi
             a == low.val
             b == high.val
             sr == Signed(BYTE, r)
             sw == Signed(WORD, h * Base + l)
             i == IF Sign(BYTE, r) THEN 1 ELSE 0
             j == IF sw < 0 THEN 1 ELSE 0
  <2>2. x \in Byte /\ y \in Byte /\ x + y * Base = m + Base * Base * k
      BY <1>6, <1>8
  <2>3. sr = r - Base * i /\ up = Base * i - i /\ i \in {0, 1}
    <3>1. /\ Sign(BYTE, r) <=> r >= Top
          /\ sr = IF r >= Top THEN r - Base ELSE r
        BY <1>3, SignOfByte DEF Byte
    <3> QED BY <1>3, <2>1, <3>1 DEF Byte
  <2>4. sw = (h * Base + l) - Base * Base * j /\ j \in {0, 1}
    <3> DEFINE z == h * Base + l
               BB == Base * Base
    <3>1. z \in Nat /\ z < Base * Base
      <4>1. h * Base <= (Base - 1) * Base
          BY <1>3, <2>1 DEF Byte
      <4> QED BY <1>3, <2>1, <4>1 DEF Byte
    <3>2. sw = IF z >= Top * Base THEN z - Base * Base ELSE z
        BY <3>1, SignOfWord
    <3> HIDE DEF z, sw, BB
    <3>3. sw < 0 => j = 1 /\ sw = z - BB
        BY <3>1, <3>2 DEF BB
    <3>4. ~ (sw < 0) => j = 0 /\ sw = z
      <4>1. z - BB < 0
          BY <3>1, <2>1 DEF BB
      <4> QED BY <3>2, <4>1 DEF BB
    <3> HIDE DEF j
    <3>5. sw = z - BB * j /\ j \in {0, 1}
      <4>1. BB \in Int /\ BB * 1 = BB /\ BB * 0 = 0
          BY <2>1 DEF BB
      <4> QED BY <3>1, <3>3, <3>4, <4>1
    <3> QED BY <3>5 DEF z, BB
  <2>5. m + sr = sw
      BY <1>4
  <2>11. /\ a \in Byte /\ b \in Byte
         /\ \E e \in Int : Base * (b + Base * e) + a = x + r + Base * (y + up)
    <3>1. x \in Byte /\ y \in Byte /\ r \in Byte /\ up \in Byte
        BY <1>3, <2>1, <2>2
    <3> HIDE DEF r, up
    <3>2. a \in Byte /\ b \in Byte
        BY <3>1, PairAdded
    <3>3. \E e \in Int : Base * (b + Base * e) + a = x + r + Base * (y + up)
        BY <3>1, PairAdded, SMT
    <3> QED BY <3>2, <3>3
  <2> HIDE DEF x, y, h, l, s, q, r, up, sr, sw, i, j, a, b, low, high
  <2>6. k - j + i \in Int
      BY <2>3, <2>4
  <2>7. x + r + Base * (y + up) = Base * (h + Base * (k - j + i)) + l
    <3> DEFINE BB == Base * Base
    <3>1. BB \in Nat
        BY <2>1
    <3>2. Base * (y + up) = y * Base + BB * i - Base * i
        BY <1>3, <2>1, <2>2, <2>3 DEF Byte
    <3>3. Base * (h + Base * (k - j + i)) = h * Base + BB * k - BB * j + BB * i
        BY <1>3, <2>1, <2>3, <2>4 DEF Byte
    <3> HIDE DEF BB
    <3>4. x + y * Base = m + BB * k /\ sw = (h * Base + l) - BB * j
        BY <2>2, <2>4 DEF BB
    <3> QED BY <1>3, <1>7, <2>1, <2>2, <2>3, <2>4, <2>5, <3>1, <3>2, <3>3, <3>4 DEF Byte
  <2>8. PICK e \in Int : Base * (b + Base * e) + a = x + r + Base * (y + up)
      BY <2>11
  <2> DEFINE t == k - j + i
  <2>9. t \in Int
      BY <2>6
  <2>10. Base * (b + Base * e) + a = Base * (h + Base * t) + l
      BY <2>7, <2>8
  <2> HIDE DEF t
  <2>12. a = l /\ b = h
      BY <1>3, <2>9, <2>10, <2>11, PairIsNumber DEF Byte
  <2> QED BY <2>12 DEF a, b
<1> HIDE DEF low, high
<1>10. have'.hi = h /\ have'.lo = l /\ have'.fault = FALSE
    BY <1>5, <1>9
<1>11. PairHeld'
  <2>1. given' = given /\ n' \in 0 .. 2 /\ w' = BYTE
      BY <1>1, <1>3
  <2>2. have'.hi \in Byte /\ have'.lo \in Byte /\ have'.fault \in BOOLEAN
      BY <1>3, <1>10
  <2> HIDE DEF h, l, s
  <2> QED BY <1>2, <2>1, <2>2 DEF PairHeld, Byte
<1>12. Divided' /\ ProductWhole'
    BY <1>1, <1>10 DEF Divided, ProductWhole
<1> QED BY <1>1, <1>11, <1>12 DEF UInv

LEMMA MulKeeps == UInv /\ Mul => UInv'
<1> SUFFICES ASSUME UInv, Mul PROVE UInv'
    OBVIOUS
<1>1. op = "mul" /\ n = 0 /\ op' = op /\ w' = w /\ given' = given /\ n' = 1
    BY DEF Mul, Multiply, Became
<1>2. PairHeld /\ have.hi = given.hi /\ have.lo = given.lo
    BY <1>1 DEF UInv, Undone
<1> DEFINE l == given.lo
           s == given.s
           p == mul(BYTE, f, l, s)
<1>3. given.hi \in Byte /\ l \in Byte /\ s \in Byte /\ w = BYTE
    BY <1>2 DEF PairHeld
<1>4. have' = [hi |-> p.hi, lo |-> p.lo, fault |-> FALSE] /\ f' = p.f
    BY <1>2, <1>3 DEF Mul, Multiply, Became
<1>5. /\ p.lo \in Byte /\ p.hi \in Byte /\ p.lo + p.hi * Base = l * s
      /\ "CF" \in p.f <=> p.hi # 0
      /\ "OF" \in p.f <=> p.hi # 0
    BY <1>3, MulGives DEF Byte
<1> HIDE DEF p
<1>6. have'.hi = p.hi /\ have'.lo = p.lo /\ have'.fault = FALSE
    BY <1>4
<1>7. PairHeld'
  <2>1. given' = given /\ n' \in 0 .. 2 /\ w' = BYTE
      BY <1>1, <1>3
  <2>2. have'.hi \in Byte /\ have'.lo \in Byte /\ have'.fault \in BOOLEAN
      BY <1>5, <1>6
  <2> HIDE DEF l, s
  <2> QED BY <1>2, <2>1, <2>2 DEF PairHeld, Byte
<1>8. Divided'
    BY <1>1 DEF Divided
<1>9. PairIs(have)' = p.lo + p.hi * Base
    BY <1>1, <1>3, <1>6 DEF PairIs, Base
<1>10. ProductWhole'
    BY <1>1, <1>4, <1>5, <1>6, <1>9 DEF ProductWhole
<1> QED BY <1>1, <1>7, <1>8, <1>10 DEF UInv

LEMMA IMulKeeps == UInv /\ IMul => UInv'
<1> SUFFICES ASSUME UInv, IMul PROVE UInv'
    OBVIOUS
<1>1. op = "imul" /\ n = 0 /\ op' = op /\ w' = w /\ given' = given /\ n' = 1
    BY DEF IMul, Multiply, Became
<1>2. PairHeld /\ have.hi = given.hi /\ have.lo = given.lo
    BY <1>1 DEF UInv, Undone
<1> DEFINE l == given.lo
           s == given.s
           p == imul(BYTE, f, l, s)
           m == Signed(BYTE, l) * Signed(BYTE, s)
<1>3. given.hi \in Byte /\ l \in Byte /\ s \in Byte /\ w = BYTE
    BY <1>2 DEF PairHeld
<1>4. have' = [hi |-> p.hi, lo |-> p.lo, fault |-> FALSE] /\ f' = p.f
    BY <1>2, <1>3 DEF IMul, Multiply, Became
<1>5. /\ p.lo \in Byte /\ p.hi \in Byte /\ Signed(WORD, p.lo + p.hi * Base) = m
      /\ "CF" \in p.f <=> Signed(BYTE, p.lo) # m
      /\ "OF" \in p.f <=> Signed(BYTE, p.lo) # m
    BY <1>3, IMulGives DEF Byte
<1> HIDE DEF p
<1>6. have'.hi = p.hi /\ have'.lo = p.lo /\ have'.fault = FALSE
    BY <1>4
<1>7. PairHeld'
  <2>1. given' = given /\ n' \in 0 .. 2 /\ w' = BYTE
      BY <1>1, <1>3
  <2>2. have'.hi \in Byte /\ have'.lo \in Byte /\ have'.fault \in BOOLEAN
      BY <1>5, <1>6
  <2> HIDE DEF l, s
  <2> QED BY <1>2, <2>1, <2>2 DEF PairHeld, Byte
<1>8. Divided'
    BY <1>1 DEF Divided
<1>9. PairIs(have)' = p.lo + p.hi * Base
    BY <1>1, <1>3, <1>6 DEF PairIs, Base
<1>10. ProductWhole'
  <2>1. w' = BYTE /\ 2 * w' = WORD
      BY <1>1, <1>3, BytesAreNoLongs
  <2> QED BY <1>1, <1>4, <1>5, <1>6, <1>9, <2>1 DEF ProductWhole
<1> QED BY <1>1, <1>7, <1>8, <1>10 DEF UInv

\* The other steps are of other computations.
LEMMA UInvStep == UInv /\ [Next]_vars => UInv'
<1> SUFFICES ASSUME UInv, [Next]_vars PROVE UInv'
    OBVIOUS
<1>1. CASE Div
    BY <1>1, DivKeeps
<1>2. CASE IDiv
    BY <1>2, IDivKeeps
<1>3. CASE UnDiv
    BY <1>3, UnDivKeeps
<1>4. CASE UnIDiv
    BY <1>4, UnIDivKeeps
<1>5. CASE Mul
    BY <1>5, MulKeeps
<1>6. CASE IMul
    BY <1>6, IMulKeeps
<1>7. CASE Add \/ Sub \/ Twice \/ Half \/ AddPacked \/ SubPacked \/ AddUnpacked \/ SubUnpacked
  <2>1. op \notin Undone /\ op' = op
      BY <1>7 DEF Add, Sub, Twice, Half, AddPacked, SubPacked, AddUnpacked, SubUnpacked,
                  Done, Undone
  <2> QED BY <2>1 DEF UInv
<1>8. CASE ShiftByOne \/ Split \/ Join
  <2>1. op \notin Undone /\ op' = op
      BY <1>8 DEF ShiftByOne, Split, Join, AX, Became, Undone, Shifts, Rotations, Doubles
  <2> QED BY <2>1 DEF UInv
<1>9. CASE UNCHANGED vars
  <2>1. UNCHANGED <<op, w, given, have, f, n>>
      BY <1>9 DEF vars
  <2> QED BY <2>1 DEF UInv, PairHeld, Divided, ProductWhole, PairIs
<1> QED BY <1>1, <1>2, <1>3, <1>4, <1>5, <1>6, <1>7, <1>8, <1>9 DEF Next

LEMMA UInvUndoes == UInv => DivisionUndoesProduct
<1> SUFFICES ASSUME UInv PROVE DivisionUndoesProduct
    OBVIOUS
<1>1. CASE op \in Undone
  <2>1. w = BYTE /\ 2^w = Base
      BY <1>1 DEF UInv, PairHeld, Base
  <2>2. 2 * w = WORD /\ PairIs(given) = given.hi * Base + given.lo
      BY <1>1, <2>1, BytesAreNoLongs, Powers DEF PairIs, UInv, PairHeld, Byte
  <2>3. DivisionUndone
      BY <1>1, <2>1, <2>2 DEF UInv, Divided, DivisionUndone
  <2> QED BY <1>1, <2>3 DEF UInv, DivisionUndoesProduct
<1>2. CASE op \notin Undone
    BY <1>2 DEF Undone, DivisionUndoesProduct, DivisionUndone, ProductWhole
<1> QED BY <1>1, <1>2

\* What MUL, ADD and ADC make of the quotient and the remainder of DIV is the
\* dividend again, and the same of the signed instructions; a product is in two
\* bytes as a whole: for every width of a byte and all operands (mul_byte,
\* imul_byte, div_byte, idiv_byte).
THEOREM DivisionUndoesProductHolds == Spec => []DivisionUndoesProduct
<1>1. Init => UInv
    BY UInvInit
<1>2. UInv /\ [Next]_vars => UInv'
    BY UInvStep
<1>3. UInv => DivisionUndoesProduct
    BY UInvUndoes
<1> QED BY <1>1, <1>2, <1>3, PTL DEF Spec
-----------------------------------------------------------------------------
\* A set of numbers has a smallest one.
LEMMA Smallest ==
  ASSUME NEW T, T \subseteq Nat, T # {}
  PROVE  \E x \in T : \A y \in T : ~ (y < x)
<1>1. IsWellFoundedOn(OpToRel(<, Nat), Nat)
    BY NatLessThanWellFounded, Zenon
<1>2. PICK x \in T : \A y \in T : ~ (<<y, x>> \in OpToRel(<, Nat))
    BY <1>1, WFMin, Zenon
<1>3. \A y \in T : y < x => <<y, x>> \in OpToRel(<, Nat)
    BY Zenon DEF OpToRel
<1> QED BY <1>2, <1>3

\* The function in Number, for as many limbs as there are.
Bases == {2^BYTE, RADIX^2, RADIX}
Summed(base, x, m, g) ==
  g = [k \in 0 .. m |-> IF k = 0 THEN 0 ELSE g[k - 1] + x[k] * base^(k - 1)]
Upto(base, x) == CHOOSE g : Summed(base, x, Limbs, g)

\* Number is that function at the limbs done.
LEMMA NumberIsUpto == ASSUME NEW base, NEW x PROVE Number(base, x) = Upto(base, x)[n]
BY DEF Number, Upto, Summed

\* What LimbAssumption says of the powers of a base.
LEMMA BasePowers ==
  ASSUME NEW base \in Bases
  PROVE  /\ base^0 = 1 /\ base \in Int
         /\ \A k \in 0 .. Limbs : base^k \in Nat /\ base^k >= 1
         /\ \A k \in 1 .. Limbs : base^k = base^(k - 1) * base
<1>1. base^0 = 1
    BY LimbAssumption DEF Bases
<1>2. \A k \in 1 .. Limbs : base^k \in Nat \ {0} /\ base^k = base^(k - 1) * base
    BY LimbAssumption DEF Bases
<1>3. Limbs \in Nat /\ Limbs >= 1
    BY NumberAssumption
<1>4. base \in Int
  <2>1. 2^BYTE \in Int /\ RADIX \in Int
      BY Powers, Nibbles DEF Base
  <2>2. RADIX^2 \in Int
      BY <2>1, LimbAssumption
  <2> QED BY <2>1, <2>2 DEF Bases
<1>5. \A k \in 0 .. Limbs : base^k \in Nat /\ base^k >= 1
  <2> SUFFICES ASSUME NEW k \in 0 .. Limbs PROVE base^k \in Nat /\ base^k >= 1
      OBVIOUS
  <2>1. CASE k = 0
      BY <1>1, <2>1
  <2>2. CASE k # 0
      BY <1>2, <1>3, <2>2
  <2> QED BY <2>1, <2>2
<1> QED BY <1>1, <1>2, <1>4, <1>5

\* There is such a function.
LEMMA SummedExists ==
  ASSUME NEW base, NEW x
  PROVE  \A m \in 0 .. Limbs : \E g : Summed(base, x, m, g)
<1> DEFINE T == {m \in 0 .. Limbs : ~ \E g : Summed(base, x, m, g)}
<1>1. Limbs \in Nat
    BY NumberAssumption
<1> SUFFICES ASSUME T # {} PROVE FALSE
    OBVIOUS
<1>2. PICK m \in T : \A y \in T : ~ (y < m)
  <2>1. T \subseteq Nat
      BY <1>1
  <2> HIDE DEF T
  <2> QED BY <2>1, Smallest
<1>3. m \in 0 .. Limbs /\ ~ \E g : Summed(base, x, m, g)
    OBVIOUS
<1>4. CASE m = 0
  <2>1. Summed(base, x, 0, [k \in 0 .. 0 |-> 0])
      BY DEF Summed
  <2> QED BY <1>3, <1>4, <2>1
<1>5. CASE m # 0
  <2>1. m - 1 \in 0 .. Limbs /\ m - 1 < m
      BY <1>1, <1>3, <1>5
  <2>2. PICK g : Summed(base, x, m - 1, g)
      BY <1>2, <2>1
  <2> DEFINE v == g[m - 1] + x[m] * base^(m - 1)
             h == [k \in 0 .. m |-> IF k = m THEN v ELSE g[k]]
  <2>3. \A k \in 0 .. m - 1 : g[k] = IF k = 0 THEN 0 ELSE g[k - 1] + x[k] * base^(k - 1)
      BY <2>2 DEF Summed
  <2>4. \A k \in 0 .. m : h[k] = IF k = 0 THEN 0 ELSE h[k - 1] + x[k] * base^(k - 1)
    <3> SUFFICES ASSUME NEW k \in 0 .. m
                 PROVE  h[k] = IF k = 0 THEN 0 ELSE h[k - 1] + x[k] * base^(k - 1)
        OBVIOUS
    <3>1. CASE k = m
      <4>1. h[m] = v /\ h[m - 1] = g[m - 1]
          BY <1>1, <1>3, <1>5
      <4> QED BY <1>5, <3>1, <4>1
    <3>2. CASE k # m /\ k # 0
      <4>1. h[k] = g[k] /\ h[k - 1] = g[k - 1] /\ k \in 0 .. m - 1
          BY <1>1, <1>3, <3>2
      <4> QED BY <2>3, <3>2, <4>1
    <3>3. CASE k # m /\ k = 0
      <4>1. h[k] = g[k] /\ k \in 0 .. m - 1
          BY <1>1, <1>3, <3>3
      <4> QED BY <2>3, <3>3, <4>1
    <3> QED BY <3>1, <3>2, <3>3
  <2>5. h = [k \in 0 .. m |-> h[k]]
      OBVIOUS
  <2> HIDE DEF h
  <2>6. Summed(base, x, m, h)
      BY <2>4, <2>5 DEF Summed
  <2> QED BY <1>3, <2>6
<1> QED BY <1>4, <1>5

\* The function adds a limb at a time, and its values are numbers.
LEMMA UptoSteps ==
  ASSUME NEW base \in Bases, NEW x \in [1 .. Limbs -> Int]
  PROVE  /\ Upto(base, x)[0] = 0
         /\ \A k \in 1 .. Limbs :
              Upto(base, x)[k] = Upto(base, x)[k - 1] + x[k] * base^(k - 1)
         /\ \A k \in 0 .. Limbs : Upto(base, x)[k] \in Int
<1> DEFINE g == Upto(base, x)
<1>1. Limbs \in Nat
    BY NumberAssumption
<1>2. Summed(base, x, Limbs, g)
  <2>1. \E h : Summed(base, x, Limbs, h)
      BY <1>1, SummedExists
  <2> QED BY <2>1 DEF Upto
<1> HIDE DEF g
<1>3. \A k \in 0 .. Limbs : g[k] = IF k = 0 THEN 0 ELSE g[k - 1] + x[k] * base^(k - 1)
    BY <1>2 DEF Summed
<1>4. g[0] = 0
    BY <1>1, <1>3
<1>5. \A k \in 1 .. Limbs : g[k] = g[k - 1] + x[k] * base^(k - 1)
    BY <1>1, <1>3
<1>6. \A k \in 0 .. Limbs : g[k] \in Int
  <2> DEFINE T == {k \in 0 .. Limbs : g[k] \notin Int}
  <2> SUFFICES ASSUME T # {} PROVE FALSE
      OBVIOUS
  <2>1. PICK m \in T : \A y \in T : ~ (y < m)
    <3>1. T \subseteq Nat
        BY <1>1
    <3> HIDE DEF T
    <3> QED BY <3>1, Smallest
  <2>2. m \in 0 .. Limbs /\ g[m] \notin Int
      OBVIOUS
  <2>3. m # 0
      BY <1>4, <2>2
  <2>4. m - 1 \in 0 .. Limbs /\ m - 1 < m /\ m \in 1 .. Limbs
      BY <1>1, <2>2, <2>3
  <2>5. g[m - 1] \in Int
      BY <2>1, <2>4
  <2>6. x[m] \in Int /\ base^(m - 1) \in Int
      BY <2>4, BasePowers
  <2> QED BY <1>5, <2>2, <2>4, <2>5, <2>6
<1> QED BY <1>4, <1>5, <1>6 DEF g

ChangedAt(p, x, y) == \A k \in 1 .. Limbs : k # p => y[k] = x[k]

MovedAt(base, p, x, y) ==
  \A k \in 0 .. Limbs :
    Upto(base, y)[k] = Upto(base, x)[k] + (IF k >= p THEN (y[p] - x[p]) * base^(p - 1) ELSE 0)

\* A limb that changes changes the sums from there on.
LEMMA UptoChanged ==
  ASSUME NEW base \in Bases, NEW x \in [1 .. Limbs -> Int], NEW y \in [1 .. Limbs -> Int],
         NEW p \in 1 .. Limbs, ChangedAt(p, x, y)
  PROVE  MovedAt(base, p, x, y)
<1> DEFINE g == Upto(base, x)
           h == Upto(base, y)
           d == (y[p] - x[p]) * base^(p - 1)
           T == {k \in 0 .. Limbs : h[k] # g[k] + (IF k >= p THEN d ELSE 0)}
<1>1. Limbs \in Nat
    BY NumberAssumption
<1>2. /\ g[0] = 0 /\ h[0] = 0
      /\ \A k \in 1 .. Limbs : g[k] = g[k - 1] + x[k] * base^(k - 1)
      /\ \A k \in 1 .. Limbs : h[k] = h[k - 1] + y[k] * base^(k - 1)
      /\ \A k \in 0 .. Limbs : g[k] \in Int /\ h[k] \in Int
    BY UptoSteps
<1> SUFFICES ASSUME T # {} PROVE FALSE
    BY DEF MovedAt
<1>3. PICK m \in T : \A k \in T : ~ (k < m)
  <2>1. T \subseteq Nat
      BY <1>1
  <2> HIDE DEF T
  <2> QED BY <2>1, Smallest
<1>4. m \in 0 .. Limbs /\ h[m] # g[m] + (IF m >= p THEN d ELSE 0)
    OBVIOUS
<1> HIDE DEF g, h
<1>5. m # 0
    BY <1>1, <1>2, <1>4
<1>6. m - 1 \in 0 .. Limbs /\ m - 1 < m /\ m \in 1 .. Limbs /\ p - 1 \in 0 .. Limbs
    BY <1>1, <1>4, <1>5
<1>7. h[m - 1] = g[m - 1] + (IF m - 1 >= p THEN d ELSE 0)
    BY <1>3, <1>6
<1>8. /\ g[m] = g[m - 1] + x[m] * base^(m - 1)
      /\ h[m] = h[m - 1] + y[m] * base^(m - 1)
      /\ g[m - 1] \in Int /\ h[m - 1] \in Int
    BY <1>2, <1>6
<1>9. x[m] \in Int /\ y[m] \in Int /\ x[p] \in Int /\ y[p] \in Int
    BY <1>6
<1>10. base^(m - 1) \in Int /\ base^(p - 1) \in Int
    BY <1>6, BasePowers
<1>11. CASE m = p
    BY <1>4, <1>7, <1>8, <1>9, <1>10, <1>11
<1>12. CASE m # p
  <2>1. y[m] = x[m] /\ (m - 1 >= p <=> m >= p)
      BY <1>6, <1>12 DEF ChangedAt
  <2>2. d \in Int
      BY <1>9, <1>10
  <2> HIDE DEF d
  <2>3. x[m] * base^(m - 1) \in Int
      BY <1>9, <1>10
  <2> QED BY <1>4, <1>7, <1>8, <2>1, <2>2, <2>3
<1> QED BY <1>11, <1>12

\* A number of k limbs is below base^k.
LEMMA UptoBounded ==
  ASSUME NEW base \in Bases, NEW x \in [1 .. Limbs -> 0 .. base - 1]
  PROVE  \A k \in 0 .. Limbs : Upto(base, x)[k] \in 0 .. base^k - 1
<1> DEFINE g == Upto(base, x)
           T == {k \in 0 .. Limbs : g[k] \notin 0 .. base^k - 1}
<1>1. Limbs \in Nat /\ base \in Int
    BY NumberAssumption, BasePowers
<1>2. /\ g[0] = 0
      /\ \A k \in 1 .. Limbs : g[k] = g[k - 1] + x[k] * base^(k - 1)
  <2>1. x \in [1 .. Limbs -> Int]
      BY <1>1
  <2> QED BY <2>1, UptoSteps
<1> SUFFICES ASSUME T # {} PROVE FALSE
    OBVIOUS
<1>3. PICK m \in T : \A k \in T : ~ (k < m)
  <2>1. T \subseteq Nat
      BY <1>1
  <2> HIDE DEF T
  <2> QED BY <2>1, Smallest
<1>4. m \in 0 .. Limbs /\ g[m] \notin 0 .. base^m - 1
    OBVIOUS
<1> HIDE DEF g
<1>5. m # 0
    BY <1>1, <1>2, <1>4, BasePowers
<1>6. m - 1 \in 0 .. Limbs /\ m - 1 < m /\ m \in 1 .. Limbs
    BY <1>1, <1>4, <1>5
<1> DEFINE r == g[m - 1]
           q == base^(m - 1)
           v == x[m]
<1>7. r \in 0 .. q - 1
    BY <1>3, <1>6
<1>8. q \in Nat /\ base^m = q * base /\ v \in 0 .. base - 1 /\ g[m] = r + v * q
    BY <1>2, <1>6, BasePowers
<1> HIDE DEF r, q, v
<1>9. v * q <= (base - 1) * q /\ v * q >= 0 /\ (base - 1) * q = q * base - q
    BY <1>1, <1>8
<1>10. r + v * q \in 0 .. q * base - 1
  <2> DEFINE vq == v * q
             bq == q * base
  <2>1. vq \in Int /\ bq \in Int /\ vq <= bq - q /\ vq >= 0
      BY <1>1, <1>8, <1>9
  <2> HIDE DEF vq, bq
  <2>2. r + vq \in 0 .. bq - 1
      BY <1>7, <1>8, <2>1
  <2> QED BY <2>2 DEF vq, bq
<1> QED BY <1>4, <1>8, <1>10

-----------------------------------------------------------------------------
\* r and the carry are the sum of k limbs of x and y, or with sign -1 the
\* difference; a limb alone likewise.
Ways == {1, -1}
Sums(sign, base, r, x, y, c, k) ==
  Upto(base, r)[k] + sign * (c * base^k) = Upto(base, x)[k] + sign * Upto(base, y)[k]
LimbSums(sign, base, v, x, y, c, c2) ==
  v + sign * (base * c2) = x + sign * y + sign * c

\* One instruction more: the limb at n + 1 of h becomes what the limbs of a and
\* b give with the carry, so the numbers of n + 1 limbs are as those of n.
LEMMA SumGrows ==
  ASSUME NEW base \in Bases, NEW p \in 1 .. Limbs,
         NEW h \in [1 .. Limbs -> Int], NEW h2 \in [1 .. Limbs -> Int],
         NEW a \in [1 .. Limbs -> Int], NEW b \in [1 .. Limbs -> Int],
         NEW c \in Int, NEW c2 \in Int, NEW sign \in Ways,
         ChangedAt(p, h, h2), Sums(sign, base, h, a, b, c, p - 1),
         LimbSums(sign, base, h2[p], a[p], b[p], c, c2)
  PROVE  Sums(sign, base, h2, a, b, c2, p)
<1> DEFINE P == base^(p - 1)
           uh == Upto(base, h)[p - 1]
           ua == Upto(base, a)[p - 1]
           ub == Upto(base, b)[p - 1]
<1>1. Limbs \in Nat /\ p - 1 \in 0 .. Limbs /\ p \in 0 .. Limbs /\ ~ (p - 1 >= p)
    BY NumberAssumption
<1>2. base \in Int /\ P \in Int /\ base^p = P * base
    BY <1>1, BasePowers
<1>3. uh \in Int /\ ua \in Int /\ ub \in Int
    BY <1>1, UptoSteps
<1>4. Upto(base, a)[p] = ua + a[p] * P /\ Upto(base, b)[p] = ub + b[p] * P
    BY <1>1, UptoSteps
<1>5. Upto(base, h2)[p - 1] = uh
  <2>1. MovedAt(base, p, h, h2)
      BY UptoChanged, Zenon
  <2> DEFINE d == (h2[p] - h[p]) * P
  <2>2. \A k \in 0 .. Limbs :
          Upto(base, h2)[k] = Upto(base, h)[k] + (IF k >= p THEN d ELSE 0)
      BY <2>1 DEF MovedAt
  <2> HIDE DEF d
  <2>3. Upto(base, h2)[p - 1] = uh + 0
      BY <1>1, <2>2
  <2> QED BY <1>3, <2>3
<1>6. Upto(base, h2)[p] = uh + h2[p] * P
    BY <1>1, <1>5, UptoSteps
<1>7. a[p] \in Int /\ b[p] \in Int /\ h2[p] \in Int
    BY <1>1
<1> DEFINE x == a[p]
           y == b[p]
           z == h2[p]
<1>8. x \in Int /\ y \in Int /\ z \in Int /\ z + sign * (base * c2) = x + sign * y + sign * c
    BY <1>7 DEF LimbSums
<1>9. uh + sign * (c * P) = ua + sign * ub
    BY DEF Sums
<1> HIDE DEF P, uh, ua, ub, x, y, z
<1>10. uh + z * P + sign * (c2 * (P * base)) = (ua + x * P) + sign * (ub + y * P)
  <2>1. z = x + sign * y + sign * c - sign * (base * c2)
      BY <1>2, <1>8 DEF Ways
  <2>2. uh = ua + sign * ub - sign * (c * P)
      BY <1>2, <1>3, <1>9 DEF Ways
  <2>3. CASE sign = 1
    <3>1. z * P = x * P + y * P + c * P - (base * c2) * P
        BY <1>2, <1>8, <2>1, <2>3
    <3> QED BY <1>2, <1>3, <1>8, <2>2, <2>3, <3>1
  <2>4. CASE sign = -1
    <3>1. z * P = x * P - y * P - c * P + (base * c2) * P
        BY <1>2, <1>8, <2>1, <2>4
    <3> QED BY <1>2, <1>3, <1>8, <2>2, <2>4, <3>1
  <2> QED BY <2>3, <2>4 DEF Ways
<1> QED BY <1>2, <1>4, <1>6, <1>10 DEF x, y, z, Sums

\* The limbs from k + 1 up have been halved.
Halves(base, r, x, c, k) ==
  2 * (Upto(base, r)[Limbs] - Upto(base, r)[k]) + c * base^k
    = Upto(base, x)[Limbs] - Upto(base, x)[k]

\* The same from the top down: a limb of h is half the limb of a and the bit
\* that came from above.
LEMMA HalfGrows ==
  ASSUME NEW base \in Bases, NEW p \in 1 .. Limbs,
         NEW h \in [1 .. Limbs -> Int], NEW h2 \in [1 .. Limbs -> Int],
         NEW a \in [1 .. Limbs -> Int], NEW c \in Int, NEW c2 \in Int,
         ChangedAt(p, h, h2), Halves(base, h, a, c, p), 2 * h2[p] + c2 = a[p] + base * c
  PROVE  Halves(base, h2, a, c2, p - 1)
<1> DEFINE P == base^(p - 1)
           ht == Upto(base, h)[Limbs]
           hp == Upto(base, h)[p]
           ho == Upto(base, h)[p - 1]
           at == Upto(base, a)[Limbs]
           ap == Upto(base, a)[p]
           ao == Upto(base, a)[p - 1]
           x == a[p]
           y == h[p]
           z == h2[p]
<1>1. Limbs \in Nat /\ Limbs \in 0 .. Limbs /\ p - 1 \in 0 .. Limbs /\ p \in 0 .. Limbs
      /\ Limbs >= p /\ ~ (p - 1 >= p)
    BY NumberAssumption
<1>2. base \in Int /\ P \in Int /\ base^p = P * base
    BY <1>1, BasePowers
<1>3. ht \in Int /\ hp \in Int /\ ho \in Int /\ at \in Int /\ ap \in Int /\ ao \in Int
    BY <1>1, UptoSteps
<1>4. ap = ao + x * P /\ hp = ho + y * P
    BY <1>1, UptoSteps
<1>5. Upto(base, h2)[Limbs] = ht + (z - y) * P /\ Upto(base, h2)[p - 1] = ho
  <2>0. MovedAt(base, p, h, h2)
      BY UptoChanged, Zenon
  <2>1. \A k \in 0 .. Limbs :
          Upto(base, h2)[k] = Upto(base, h)[k] + (IF k >= p THEN (z - y) * P ELSE 0)
      BY <2>0 DEF MovedAt
  <2>2. Upto(base, h2)[p - 1] = ho + 0
      BY <1>1, <2>1
  <2> QED BY <1>1, <1>3, <2>1, <2>2
<1>6. x \in Int /\ y \in Int /\ z \in Int /\ 2 * z + c2 = x + base * c
    BY <1>1
<1>7. 2 * (ht - hp) + c * (P * base) = at - ap
    BY <1>2 DEF Halves
<1> HIDE DEF P, ht, hp, ho, at, ap, ao, x, y, z
<1>8. 2 * ((ht + (z - y) * P) - ho) + c2 * P = at - ao
  <2>1. (2 * z + c2) * P = (x + base * c) * P
      BY <1>6
  <2>2. 2 * (z * P) + c2 * P = x * P + c * (P * base)
      BY <1>2, <1>6, <2>1
  <2>3. (z - y) * P = z * P - y * P
      BY <1>2, <1>6
  <2> DEFINE zp == z * P
             yp == y * P
             xp == x * P
             cp == c * (P * base)
             kp == c2 * P
  <2>4. zp \in Int /\ yp \in Int /\ xp \in Int /\ cp \in Int /\ kp \in Int
      BY <1>2, <1>6
  <2>5. /\ ap = ao + xp /\ hp = ho + yp /\ 2 * (ht - hp) + cp = at - ap
        /\ 2 * zp + kp = xp + cp /\ (z - y) * P = zp - yp
      BY <1>4, <1>7, <2>2, <2>3
  <2> HIDE DEF zp, yp, xp, cp, kp
  <2>6. 2 * ((ht + (zp - yp)) - ho) + kp = at - ao
      BY <1>3, <2>4, <2>5
  <2> QED BY <2>5, <2>6 DEF kp
<1> QED BY <1>5, <1>8 DEF P, at, ao, Halves
-----------------------------------------------------------------------------
\* The sign of a long number is that of its last limb.
LEMMA SignedNumber ==
  ASSUME NEW x \in [1 .. Limbs -> Byte]
  PROVE  LET P == Base^(Limbs - 1)
             u == Upto(Base, x)
         IN  /\ P \in Nat /\ P >= 1 /\ 2^(BYTE * Limbs - 1) = Top * P
             /\ u[Limbs - 1] \in 0 .. P - 1 /\ u[Limbs] \in Int
             /\ Signed(BYTE * Limbs, u[Limbs]) = P * Signed(BYTE, x[Limbs]) + u[Limbs - 1]
<1> DEFINE P == Base^(Limbs - 1)
           u == Upto(Base, x)
           H == 2^(BYTE * Limbs - 1)
           r == u[Limbs - 1]
           v == u[Limbs]
           t == x[Limbs]
<1>1. /\ Limbs \in Nat /\ Limbs \in 1 .. Limbs /\ Limbs \in 0 .. Limbs /\ Limbs - 1 \in 0 .. Limbs
      /\ Base \in Nat /\ Top \in Nat /\ Top >= 1 /\ Base = 2 * Top /\ Base \in Bases
    BY NumberAssumption, Powers DEF Bases, Base
<1>2. P \in Nat /\ P >= 1 /\ Base^Limbs = P * Base
    BY <1>1, BasePowers
<1>3. x \in [1 .. Limbs -> Int] /\ x \in [1 .. Limbs -> 0 .. Base - 1]
    BY <1>1 DEF Byte
<1>4. v = r + t * P /\ r \in 0 .. P - 1 /\ t \in 0 .. Base - 1
  <2>1. v = r + t * P
      BY <1>1, <1>3, UptoSteps
  <2>2. r \in 0 .. P - 1
      BY <1>1, <1>3, UptoBounded
  <2> QED BY <1>1, <1>3, <2>1, <2>2
<1>5. H \in Nat /\ 2 * H = Base^Limbs /\ 2^(BYTE * Limbs) = 2 * H
    BY <1>1, LimbAssumption DEF Base
<1> HIDE DEF P, H, r, v, u, t
<1>6. H = Top * P
  <2>1. 2 * H = 2 * (Top * P)
      BY <1>1, <1>2, <1>5
  <2> DEFINE z == Top * P
  <2>2. z \in Int
      BY <1>1, <1>2
  <2> HIDE DEF z
  <2> QED BY <1>5, <2>1, <2>2 DEF z
<1>7. t >= Top <=> v >= H
  <2>1. CASE t >= Top
    <3>1. t * P >= Top * P
        BY <1>1, <1>2, <1>4, <2>1
    <3>2. t * P \in Int /\ Top * P \in Int
        BY <1>1, <1>2, <1>4
    <3> QED BY <1>2, <1>4, <1>5, <1>6, <2>1, <3>1, <3>2
  <2>2. CASE ~ (t >= Top)
    <3>1. t * P <= (Top - 1) * P /\ (Top - 1) * P = Top * P - P
        BY <1>1, <1>2, <1>4, <2>2
    <3> QED BY <1>1, <1>2, <1>4, <1>5, <1>6, <2>2, <3>1
  <2> QED BY <2>1, <2>2
<1>8. v \in Nat /\ v < 2 * H /\ H >= 1
  <2>1. t * P >= 0 /\ t * P <= (Base - 1) * P /\ (Base - 1) * P = P * Base - P
      BY <1>1, <1>2, <1>4
  <2>2. H >= 1
      BY <1>1, <1>2, <1>6
  <2> QED BY <1>2, <1>4, <1>5, <2>1, <2>2
<1>9. Sign(BYTE * Limbs, v) <=> t >= Top
  <2>1. (v \div H) % 2 = 1 <=> v >= H
      BY <1>5, <1>8, UpperHalf
  <2> QED BY <1>7, <2>1 DEF Sign, Bit, H
<1>10. Signed(BYTE * Limbs, v) = IF t >= Top THEN v - 2 * H ELSE v
    BY <1>5, <1>9 DEF Signed
<1>11. Signed(BYTE, t) = IF t >= Top THEN t - Base ELSE t
    BY <1>4, SignOfByte
<1>12. Signed(BYTE * Limbs, v) = P * Signed(BYTE, t) + r
  <2>1. P * (t - Base) = t * P - P * Base /\ P * t = t * P /\ t * P \in Int /\ P * Base \in Int
      BY <1>1, <1>2, <1>4
  <2>2. CASE t >= Top
    <3>1. Signed(BYTE * Limbs, v) = v - P * Base
        BY <1>2, <1>5, <1>10, <2>2
    <3> QED BY <1>4, <1>11, <2>1, <2>2, <3>1
  <2>3. CASE ~ (t >= Top)
      BY <1>4, <1>10, <1>11, <2>1, <2>3
  <2> QED BY <2>2, <2>3
<1> QED BY <1>2, <1>4, <1>6, <1>8, <1>12 DEF P, H, r, v, u, t

\* Whether a number with a rest fits is decided by the number alone.
LEMMA Scaled ==
  ASSUME NEW P \in Nat, P >= 1, NEW T \in Nat, NEW s \in Int, NEW r \in 0 .. P - 1
  PROVE  /\ P * s + r \in - (T * P) .. T * P - 1 <=> s \in - T .. T - 1
         /\ P * s + r < 0 <=> s < 0
<1> DEFINE ps == P * s
           tp == T * P
<1>1. ps \in Int /\ tp \in Int /\ tp >= 0
    OBVIOUS
<1>2. s >= T => ps >= tp
    OBVIOUS
<1>3. s <= T - 1 => ps <= tp - P
  <2>1. s <= T - 1 => P * s <= P * (T - 1)
      OBVIOUS
  <2> QED BY <2>1
<1>4. s >= - T => ps >= - tp
    OBVIOUS
<1>5. s <= - T - 1 => ps <= - tp - P
  <2>1. s <= - T - 1 => P * s <= P * (- T - 1)
      OBVIOUS
  <2>2. P * (- T - 1) = - tp - P
      OBVIOUS
  <2> QED BY <2>1, <2>2
<1>6. (s >= 0 => ps >= 0) /\ (s <= -1 => ps <= - P)
    OBVIOUS
<1> HIDE DEF ps, tp
<1>7. ps + r \in - tp .. tp - 1 <=> s \in - T .. T - 1
    BY <1>1, <1>2, <1>3, <1>4, <1>5
<1>8. ps + r < 0 <=> s < 0
    BY <1>1, <1>6
<1> QED BY <1>7, <1>8 DEF ps, tp

\* The signed result of whole numbers, from the signed result of the last limbs
\* and the carry into them.
LEMMA SignedEnd ==
  ASSUME NEW h \in [1 .. Limbs -> Byte], NEW a \in [1 .. Limbs -> Byte],
         NEW b \in [1 .. Limbs -> Byte], NEW c \in {0, 1}, NEW sign \in Ways,
         Sums(sign, Base, h, a, b, c, Limbs - 1)
  PROVE  LET all == Signed(BYTE * Limbs, Upto(Base, a)[Limbs])
                      + sign * Signed(BYTE * Limbs, Upto(Base, b)[Limbs])
             last == Signed(BYTE, a[Limbs]) + sign * Signed(BYTE, b[Limbs]) + sign * c
             half == 2^(BYTE * Limbs - 1)
         IN  /\ all \in - half .. half - 1 <=> last \in - Top .. Top - 1
             /\ all < 0 <=> last < 0
<1> DEFINE P == Base^(Limbs - 1)
           sa == Signed(BYTE * Limbs, Upto(Base, a)[Limbs])
           sb == Signed(BYTE * Limbs, Upto(Base, b)[Limbs])
           la == Signed(BYTE, a[Limbs])
           lb == Signed(BYTE, b[Limbs])
           ra == Upto(Base, a)[Limbs - 1]
           rb == Upto(Base, b)[Limbs - 1]
           r == Upto(Base, h)[Limbs - 1]
           half == 2^(BYTE * Limbs - 1)
           s == la + sign * lb + sign * c
<1>1. /\ P \in Nat /\ P >= 1 /\ half = Top * P
      /\ r \in 0 .. P - 1 /\ ra \in 0 .. P - 1 /\ rb \in 0 .. P - 1
      /\ sa = P * la + ra /\ sb = P * lb + rb
    BY SignedNumber
<1>2. la \in Int /\ lb \in Int /\ Top \in Nat
  <2>1. Limbs \in 1 .. Limbs /\ Top \in Nat /\ Base \in Nat
      BY NumberAssumption, Powers
  <2>2. a[Limbs] \in 0 .. Base - 1 /\ b[Limbs] \in 0 .. Base - 1
      BY <2>1 DEF Byte
  <2>3. la \in - Top .. Top - 1 /\ lb \in - Top .. Top - 1
      BY <2>2, SignOfByte
  <2> QED BY <2>1, <2>3
<1>3. r + sign * (c * P) = ra + sign * rb
    BY DEF Sums
<1> HIDE DEF P, sa, sb, la, lb, ra, rb, r, half
<1>4. sa + sign * sb = P * s + r
  <2>1. CASE sign = 1
    <3>1. P * s = P * la + P * lb + c * P
        BY <1>1, <1>2, <2>1
    <3> QED BY <1>1, <1>2, <1>3, <2>1, <3>1
  <2>2. CASE sign = -1
    <3>1. P * s = P * la - P * lb - c * P
        BY <1>1, <1>2, <2>2
    <3> QED BY <1>1, <1>2, <1>3, <2>2, <3>1
  <2> QED BY <2>1, <2>2 DEF Ways
<1>5. s \in Int
    BY <1>2 DEF Ways
<1> HIDE DEF s
<1>6. /\ P * s + r \in - (Top * P) .. Top * P - 1 <=> s \in - Top .. Top - 1
      /\ P * s + r < 0 <=> s < 0
    BY <1>1, <1>2, <1>5, Scaled
<1>7. /\ sa + sign * sb \in - half .. half - 1 <=> s \in - Top .. Top - 1
      /\ sa + sign * sb < 0 <=> s < 0
    BY <1>1, <1>4, <1>6
<1> QED BY <1>7 DEF sa, sb, s, la, lb, half

\* What the lemmas on sums ask of bytes.
LEMMA BytesAreInts ==
  /\ Byte \subseteq Int /\ Base \in Bases /\ Base \in Nat /\ Base >= 1
  /\ Limbs \in Nat /\ Limbs >= 1 /\ 0 \in Byte
  /\ \A x \in [1 .. Limbs -> Byte] : x \in [1 .. Limbs -> Int]
BY Powers, NumberAssumption DEF Byte, Bases, Base

\* Nothing is computed yet.
LEMMA SumsAtZero ==
  ASSUME NEW base \in Bases, NEW x \in [1 .. Limbs -> Int], NEW a \in [1 .. Limbs -> Int],
         NEW b \in [1 .. Limbs -> Int], NEW sign \in Ways
  PROVE  Sums(sign, base, x, a, b, 0, 0)
<1>1. Upto(base, x)[0] = 0 /\ Upto(base, a)[0] = 0 /\ Upto(base, b)[0] = 0
    BY UptoSteps
<1>2. base^0 = 1
    BY BasePowers
<1> QED BY <1>1, <1>2 DEF Sums

\* Nothing is halved yet.
LEMMA HalvesAtTop ==
  ASSUME NEW base \in Bases, NEW x \in [1 .. Limbs -> Int], NEW a \in [1 .. Limbs -> Int]
  PROVE  Halves(base, x, a, 0, Limbs)
<1>1. Limbs \in 0 .. Limbs
    BY NumberAssumption
<1>2. /\ \A k \in 0 .. Limbs : Upto(base, x)[k] \in Int
      /\ \A k \in 0 .. Limbs : Upto(base, a)[k] \in Int
    BY UptoSteps
<1>3. \A k \in 0 .. Limbs : base^k \in Int
    BY BasePowers
<1>4. Upto(base, x)[Limbs] \in Int /\ Upto(base, a)[Limbs] \in Int /\ base^Limbs \in Int
    BY <1>1, <1>2, <1>3
<1> QED BY <1>4 DEF Halves

\* The flags tell the sign of the sum, or difference, of whole numbers, as far
\* as there is room for it, and likewise of a limb alone.
SignsTold(sign, fl, a, b) ==
  LET whole == Signed(BYTE * Limbs, Upto(Base, a)[Limbs])
                 + sign * Signed(BYTE * Limbs, Upto(Base, b)[Limbs])
      half == 2^(BYTE * Limbs - 1)
  IN  /\ "OF" \in fl <=> whole \notin - half .. half - 1
      /\ "SF" \in fl <=> (whole < 0) # ("OF" \in fl)
LimbSigns(sign, fl, x, y, c) ==
  LET last == Signed(BYTE, x) + sign * Signed(BYTE, y) + sign * c
  IN  /\ "OF" \in fl <=> last \notin - Top .. Top - 1
      /\ "SF" \in fl <=> (last < 0) # ("OF" \in fl)

\* The flags of the last limb tell the sign of the whole.
LEMMA SignsEnd ==
  ASSUME NEW h \in [1 .. Limbs -> Byte], NEW a \in [1 .. Limbs -> Byte],
         NEW b \in [1 .. Limbs -> Byte], NEW c \in {0, 1}, NEW sign \in Ways, NEW fl,
         Sums(sign, Base, h, a, b, c, Limbs - 1), LimbSigns(sign, fl, a[Limbs], b[Limbs], c)
  PROVE  SignsTold(sign, fl, a, b)
<1> DEFINE all == Signed(BYTE * Limbs, Upto(Base, a)[Limbs])
                    + sign * Signed(BYTE * Limbs, Upto(Base, b)[Limbs])
           last == Signed(BYTE, a[Limbs]) + sign * Signed(BYTE, b[Limbs]) + sign * c
           half == 2^(BYTE * Limbs - 1)
<1>1. /\ all \in - half .. half - 1 <=> last \in - Top .. Top - 1
      /\ all < 0 <=> last < 0
    BY SignedEnd
<1>2. /\ "OF" \in fl <=> last \notin - Top .. Top - 1
      /\ "SF" \in fl <=> (last < 0) # ("OF" \in fl)
    BY DEF LimbSigns
<1> HIDE DEF all, last, half
<1>3. /\ "OF" \in fl <=> all \notin - half .. half - 1
      /\ "SF" \in fl <=> (all < 0) # ("OF" \in fl)
    BY <1>1, <1>2
<1> QED BY <1>3 DEF SignsTold, all, half

-----------------------------------------------------------------------------
\* The limb that an instruction stores.
LEMMA ByteStored == ASSUME NEW v \in Byte PROVE v % 2^BYTE = v
<1>1. Base \in Nat /\ Base >= 1 /\ v \in 0 .. Base - 1 /\ v = Base * 0 + v
    BY Powers DEF Byte
<1>2. v % Base = v
    BY <1>1, Parted
<1> QED BY <1>2 DEF Base

\* Long numbers, as their operands and results are held.
LongHeld ==
  /\ w = BYTE /\ n \in 0 .. Limbs
  /\ given.a \in [1 .. Limbs -> Byte] /\ given.b \in [1 .. Limbs -> Byte]
  /\ have \in [1 .. Limbs -> Byte]

\* An instruction that gives the right limb and carry keeps the sums right.
LEMMA LimbDone ==
  ASSUME LongHeld, n < Limbs, NEW x, x.val \in Byte, Done(x), At = n + 1,
         NEW sign \in Ways, NEW a \in [1 .. Limbs -> Byte], NEW b \in [1 .. Limbs -> Byte],
         Sums(sign, Base, have, a, b, CF, n),
         LimbSums(sign, Base, x.val, a[n + 1], b[n + 1], CF, One(x.f, "CF"))
  PROVE  LongHeld' /\ Sums(sign, Base, have', a, b, CF', n')
<1>1. PICK p \in 1 .. Limbs : p = n + 1
    BY BytesAreInts DEF LongHeld
<1>2. n = p - 1 /\ n' = p /\ At = p
    BY <1>1, BytesAreInts DEF LongHeld, Done
<1>3. have' = [have EXCEPT ![p] = x.val % 2^BYTE] /\ f' = x.f
    BY <1>2 DEF Done
<1>4. have' \in [1 .. Limbs -> Byte] /\ have'[p] = x.val /\ ChangedAt(p, have, have')
  <2>1. have' = [have EXCEPT ![p] = x.val]
      BY <1>3, ByteStored
  <2> QED BY <2>1 DEF LongHeld, ChangedAt
<1>5. LongHeld'
    BY <1>2, <1>4, BytesAreInts DEF LongHeld, Done
<1>6. CF' = One(x.f, "CF") /\ CF \in Int /\ CF' \in Int
    BY <1>3 DEF CF, One
<1>7. LimbSums(sign, Base, have'[p], a[p], b[p], CF, CF')
    BY <1>1, <1>4, <1>6
<1>8. Sums(sign, Base, have, a, b, CF, p - 1)
    BY <1>2
<1>9. Sums(sign, Base, have', a, b, CF', p)
  <2> DEFINE h == have
             h2 == have'
             c == CF
             c2 == CF'
  <2>1. /\ h \in [1 .. Limbs -> Int] /\ h2 \in [1 .. Limbs -> Int] /\ Base \in Bases
        /\ a \in [1 .. Limbs -> Int] /\ b \in [1 .. Limbs -> Int] /\ c \in Int /\ c2 \in Int
      BY <1>4, <1>6, BytesAreInts DEF LongHeld
  <2>2. /\ ChangedAt(p, h, h2) /\ LimbSums(sign, Base, h2[p], a[p], b[p], c, c2)
        /\ Sums(sign, Base, h, a, b, c, p - 1)
      BY <1>4, <1>7, <1>8
  <2> HIDE DEF h, h2, c, c2
  <2>3. Sums(sign, Base, h2, a, b, c2, p)
      BY <2>1, <2>2, SumGrows, Zenon
  <2> QED BY <2>3 DEF h2, c2
<1> QED BY <1>2, <1>5, <1>9
-----------------------------------------------------------------------------
\* Long numbers: what is computed so far is right with the carry, and after the
\* last limb the flags tell the sign of the whole.
Way == IF op = "sub" THEN -1 ELSE 1
Second == IF op = "twice" THEN given.a ELSE given.b

LInv ==
  op \in Carrying =>
    /\ LongHeld
    /\ op # "half" => Sums(Way, Base, have, given.a, Second, CF, n)
    /\ op \in {"add", "sub"} /\ n = Limbs => SignsTold(Way, f, given.a, given.b)
    /\ op = "half" => Halves(Base, have, given.a, CF, Limbs - n)

\* Before the first instruction all of this holds.
LEMMA LInvInit == Init => LInv
<1> SUFFICES ASSUME Init, op \in Carrying PROVE LInv
    BY DEF LInv
<1>1. InitLong /\ n = 0
    BY DEF Init, InitShift, InitUndo, Carrying, Shifts, Rotations, Doubles, Undoing
<1>2. PICK a \in Operands, b \in (IF op \in {"twice", "half"} THEN {Zero} ELSE Operands) :
        given = [a |-> a, b |-> b]
    BY <1>1 DEF InitLong
<1>3. Operands = [1 .. Limbs -> Binary] /\ Binary \subseteq Byte
    BY NumberAssumption DEF Operands, Numbers, Byte, Base, Carrying, Decimals
<1>4. have \in [1 .. Limbs -> Byte] /\ Zero \in [1 .. Limbs -> Byte]
    BY <1>1, BytesAreInts DEF InitLong, Zero
<1>5. LongHeld
  <2>1. a \in [1 .. Limbs -> Byte] /\ b \in [1 .. Limbs -> Byte]
      BY <1>3, <1>4
  <2>2. given.a = a /\ given.b = b
      BY <1>2
  <2> QED BY <1>1, <1>4, <2>1, <2>2, BytesAreInts DEF InitLong, LongHeld
<1>6. f = {} /\ CF = 0
    BY <1>1 DEF InitLong, CF, One
<1>7. /\ have \in [1 .. Limbs -> Int] /\ given.a \in [1 .. Limbs -> Int]
      /\ Second \in [1 .. Limbs -> Int] /\ Base \in Bases /\ Way \in Ways
    BY <1>5, BytesAreInts DEF LongHeld, Second, Way, Ways
<1>8. Sums(Way, Base, have, given.a, Second, 0, 0)
    BY <1>7, SumsAtZero
<1>9. Halves(Base, have, given.a, 0, Limbs)
    BY <1>7, HalvesAtTop
<1>10. Limbs - n = Limbs /\ n # Limbs
    BY <1>1, BytesAreInts
<1> QED BY <1>1, <1>5, <1>6, <1>8, <1>9, <1>10 DEF LInv

\* The operands of the next instruction.
LEMMA NextLimb ==
  ASSUME LongHeld, n < Limbs
  PROVE  n + 1 \in 1 .. Limbs /\ given.a[n + 1] \in Byte /\ given.b[n + 1] \in Byte
BY BytesAreInts DEF LongHeld

\* Each of the four kinds of programs keeps it.
LEMMA AddKeeps == LInv /\ Add => LInv'
<1> SUFFICES ASSUME LInv, Add PROVE LInv'
    OBVIOUS
<1> DEFINE a == given.a
           b == given.b
           c == One(f, "CF")
           x == adc(BYTE, f, a[n + 1], b[n + 1])
<1>1. /\ op = "add" /\ n < Limbs /\ op' = op /\ given' = given /\ n' = n + 1
      /\ Done(x) /\ At = n + 1 /\ f' = x.f /\ Way = 1 /\ Second = b
    BY DEF Add, Done, At, A, B, Way, Second
<1>2. LongHeld /\ Sums(1, Base, have, a, b, CF, n)
    BY <1>1 DEF LInv, Carrying
<1>3. a[n + 1] \in Byte /\ b[n + 1] \in Byte
    BY <1>1, <1>2, NextLimb
<1>4. x.val \in Byte /\ x.val + Base * One(x.f, "CF") = a[n + 1] + b[n + 1] + c
    BY <1>3, AdcGives DEF Byte
<1>5. LET s == Signed(BYTE, a[n + 1]) + Signed(BYTE, b[n + 1]) + c
      IN  /\ "OF" \in x.f <=> s \notin - Top .. Top - 1
          /\ "SF" \in x.f <=> (s < 0) # ("OF" \in x.f)
    BY <1>3, AdcSigns
<1>6. a \in [1 .. Limbs -> Byte] /\ b \in [1 .. Limbs -> Byte] /\ 1 \in Ways
    BY <1>2 DEF LongHeld, Ways
<1> HIDE DEF x, a, b
<1>7. LimbSums(1, Base, x.val, a[n + 1], b[n + 1], CF, One(x.f, "CF"))
  <2>1. One(x.f, "CF") \in Int /\ CF = c /\ c \in Int
      BY DEF One, CF
  <2>2. Base \in Int /\ x.val \in Int /\ a[n + 1] \in Int /\ b[n + 1] \in Int
    <3>1. \A y \in Byte : y \in Int
        BY Powers DEF Byte
    <3>2. Base \in Int
        BY Powers
    <3> QED BY <1>3, <1>4, <3>1, <3>2
  <2> HIDE DEF c
  <2> QED BY <1>4, <2>1, <2>2 DEF LimbSums
<1>8. LongHeld' /\ Sums(1, Base, have', a, b, CF', n')
    BY <1>1, <1>2, <1>4, <1>6, <1>7, LimbDone
<1>9. ASSUME n + 1 = Limbs PROVE SignsTold(1, f', a, b)
  <2>1. Sums(1, Base, have, a, b, c, Limbs - 1)
    <3>1. n = Limbs - 1
        BY <1>2, <1>9, BytesAreInts DEF LongHeld
    <3> QED BY <1>2, <3>1 DEF CF
  <2>2. LimbSigns(1, x.f, a[Limbs], b[Limbs], c)
    <3>1. /\ Signed(BYTE, a[Limbs]) \in Int /\ Signed(BYTE, b[Limbs]) \in Int
      <4>1. Signed(BYTE, a[Limbs]) \in - Top .. Top - 1
          BY <1>3, <1>9, SignOfByte DEF Byte
      <4>2. Signed(BYTE, b[Limbs]) \in - Top .. Top - 1
          BY <1>3, <1>9, SignOfByte DEF Byte
      <4> QED BY <4>1, <4>2, Powers
    <3>2. c \in Int
        BY DEF One
    <3> DEFINE sa == Signed(BYTE, a[Limbs])
               sb == Signed(BYTE, b[Limbs])
    <3>3. /\ "OF" \in x.f <=> sa + sb + c \notin - Top .. Top - 1
          /\ "SF" \in x.f <=> (sa + sb + c < 0) # ("OF" \in x.f)
        BY <1>5, <1>9
    <3> HIDE DEF sa, sb, c
    <3>4. sa + 1 * sb + 1 * c = sa + sb + c
        BY <3>1, <3>2 DEF sa, sb
    <3> QED BY <3>3, <3>4 DEF LimbSigns, sa, sb
  <2>3. c \in {0, 1} /\ have \in [1 .. Limbs -> Byte]
      BY <1>2 DEF One, LongHeld
  <2> HIDE DEF c
  <2>4. SignsTold(1, x.f, a, b)
      BY <1>6, <2>1, <2>2, <2>3, SignsEnd
  <2> QED BY <1>1, <2>4
<1>10. Way' = 1 /\ Second' = b /\ given'.a = a /\ given'.b = b /\ op' = "add"
    BY <1>1 DEF Way, Second, a, b
<1> QED BY <1>1, <1>8, <1>9, <1>10 DEF LInv
LEMMA SubKeeps == LInv /\ Sub => LInv'
<1> SUFFICES ASSUME LInv, Sub PROVE LInv'
    OBVIOUS
<1> DEFINE a == given.a
           b == given.b
           c == One(f, "CF")
           x == sbb(BYTE, f, a[n + 1], b[n + 1])
<1>1. /\ op = "sub" /\ n < Limbs /\ op' = op /\ given' = given /\ n' = n + 1
      /\ Done(x) /\ At = n + 1 /\ f' = x.f /\ Way = -1 /\ Second = b
    BY DEF Sub, Done, At, A, B, Way, Second
<1>2. LongHeld /\ Sums(-1, Base, have, a, b, CF, n)
    BY <1>1 DEF LInv, Carrying
<1>3. a[n + 1] \in Byte /\ b[n + 1] \in Byte
    BY <1>1, <1>2, NextLimb
<1>4. x.val \in Byte /\ x.val - Base * One(x.f, "CF") = a[n + 1] - b[n + 1] - c
    BY <1>3, SbbGives
<1>5. LET s == Signed(BYTE, a[n + 1]) - Signed(BYTE, b[n + 1]) - c
      IN  /\ "OF" \in x.f <=> s \notin - Top .. Top - 1
          /\ "SF" \in x.f <=> (s < 0) # ("OF" \in x.f)
    BY <1>3, SbbSigns
<1>6. a \in [1 .. Limbs -> Byte] /\ b \in [1 .. Limbs -> Byte] /\ -1 \in Ways
    BY <1>2 DEF LongHeld, Ways
<1> HIDE DEF x, a, b
<1>7. LimbSums(-1, Base, x.val, a[n + 1], b[n + 1], CF, One(x.f, "CF"))
  <2>1. One(x.f, "CF") \in Int /\ CF = c /\ c \in Int
      BY DEF One, CF
  <2>2. Base \in Int /\ x.val \in Int /\ a[n + 1] \in Int /\ b[n + 1] \in Int
    <3>1. \A y \in Byte : y \in Int
        BY Powers DEF Byte
    <3>2. Base \in Int
        BY Powers
    <3> QED BY <1>3, <1>4, <3>1, <3>2
  <2> HIDE DEF c
  <2> QED BY <1>4, <2>1, <2>2 DEF LimbSums
<1>8. LongHeld' /\ Sums(-1, Base, have', a, b, CF', n')
    BY <1>1, <1>2, <1>4, <1>6, <1>7, LimbDone
<1>9. ASSUME n + 1 = Limbs PROVE SignsTold(-1, f', a, b)
  <2>1. Sums(-1, Base, have, a, b, c, Limbs - 1)
    <3>1. n = Limbs - 1
        BY <1>2, <1>9, BytesAreInts DEF LongHeld
    <3> QED BY <1>2, <3>1 DEF CF
  <2>2. LimbSigns(-1, x.f, a[Limbs], b[Limbs], c)
    <3>1. /\ Signed(BYTE, a[Limbs]) \in Int /\ Signed(BYTE, b[Limbs]) \in Int
      <4>1. Signed(BYTE, a[Limbs]) \in - Top .. Top - 1
          BY <1>3, <1>9, SignOfByte DEF Byte
      <4>2. Signed(BYTE, b[Limbs]) \in - Top .. Top - 1
          BY <1>3, <1>9, SignOfByte DEF Byte
      <4> QED BY <4>1, <4>2, Powers
    <3>2. c \in Int
        BY DEF One
    <3> DEFINE sa == Signed(BYTE, a[Limbs])
               sb == Signed(BYTE, b[Limbs])
    <3>3. /\ "OF" \in x.f <=> sa - sb - c \notin - Top .. Top - 1
          /\ "SF" \in x.f <=> (sa - sb - c < 0) # ("OF" \in x.f)
        BY <1>5, <1>9
    <3> HIDE DEF sa, sb, c
    <3>4. sa + (-1) * sb + (-1) * c = sa - sb - c
        BY <3>1, <3>2 DEF sa, sb
    <3> QED BY <3>3, <3>4 DEF LimbSigns, sa, sb
  <2>3. c \in {0, 1} /\ have \in [1 .. Limbs -> Byte]
      BY <1>2 DEF One, LongHeld
  <2> HIDE DEF c
  <2>4. SignsTold(-1, x.f, a, b)
      BY <1>6, <2>1, <2>2, <2>3, SignsEnd
  <2> QED BY <1>1, <2>4
<1>10. Way' = -1 /\ Second' = b /\ given'.a = a /\ given'.b = b /\ op' = "sub"
    BY <1>1 DEF Way, Second, a, b
<1> QED BY <1>1, <1>8, <1>9, <1>10 DEF LInv

LEMMA TwiceKeeps == LInv /\ Twice => LInv'
<1> SUFFICES ASSUME LInv, Twice PROVE LInv'
    OBVIOUS
<1> DEFINE a == given.a
           c == One(f, "CF")
           x == rcl(BYTE, f, a[n + 1], 1)
<1>1. /\ op = "twice" /\ n < Limbs /\ op' = op /\ given' = given /\ n' = n + 1
      /\ Done(x) /\ At = n + 1 /\ f' = x.f /\ Way = 1 /\ Second = a
    BY DEF Twice, Done, At, A, Way, Second
<1>2. LongHeld /\ Sums(1, Base, have, a, a, CF, n)
    BY <1>1 DEF LInv, Carrying
<1>3. a[n + 1] \in Byte
    BY <1>1, <1>2, NextLimb
<1>4. x.val \in Byte /\ x.val + Base * One(x.f, "CF") = 2 * a[n + 1] + c
    BY <1>3, RclGives
<1>5. a \in [1 .. Limbs -> Byte] /\ 1 \in Ways
    BY <1>2 DEF LongHeld, Ways
<1> HIDE DEF x, a
<1>6. LimbSums(1, Base, x.val, a[n + 1], a[n + 1], CF, One(x.f, "CF"))
  <2>1. One(x.f, "CF") \in Int /\ CF = c /\ c \in Int
      BY DEF One, CF
  <2>2. Base \in Int /\ x.val \in Int /\ a[n + 1] \in Int
    <3>1. \A y \in Byte : y \in Int
        BY Powers DEF Byte
    <3>2. Base \in Int
        BY Powers
    <3> QED BY <1>3, <1>4, <3>1, <3>2
  <2> HIDE DEF c
  <2> QED BY <1>4, <2>1, <2>2 DEF LimbSums
<1>7. LongHeld' /\ Sums(1, Base, have', a, a, CF', n')
    BY <1>1, <1>2, <1>4, <1>5, <1>6, LimbDone
<1>8. Way' = 1 /\ Second' = a /\ given'.a = a /\ op' = "twice"
    BY <1>1 DEF Way, Second, a
<1> QED BY <1>7, <1>8 DEF LInv

LEMMA HalfKeeps == LInv /\ Half => LInv'
<1> SUFFICES ASSUME LInv, Half PROVE LInv'
    OBVIOUS
<1> DEFINE a == given.a
           c == One(f, "CF")
<1>1. op = "half" /\ n < Limbs /\ op' = op /\ given' = given /\ n' = n + 1 /\ w' = w
    BY DEF Half, Done
<1>2. LongHeld /\ Halves(Base, have, a, CF, Limbs - n)
    BY <1>1 DEF LInv, Carrying
<1>3. PICK p \in 1 .. Limbs : p = Limbs - n
    BY <1>1, <1>2, BytesAreInts DEF LongHeld
<1> DEFINE x == rcr(BYTE, f, a[p], 1)
<1>4. have' = [have EXCEPT ![p] = x.val % 2^BYTE] /\ f' = x.f
    BY <1>1, <1>3 DEF Half, Done, At, A
<1>5. /\ a \in [1 .. Limbs -> Byte] /\ have \in [1 .. Limbs -> Byte] /\ a[p] \in Byte
      /\ n' \in 0 .. Limbs /\ Limbs - n' = p - 1 /\ w = BYTE
    BY <1>1, <1>2, <1>3, BytesAreInts DEF LongHeld
<1>6. x.val \in Byte /\ 2 * x.val + One(x.f, "CF") = a[p] + Base * c
    BY <1>5, RcrGives
<1> HIDE DEF x, a
<1>7. have' \in [1 .. Limbs -> Byte] /\ have'[p] = x.val /\ ChangedAt(p, have, have')
  <2>1. have' = [have EXCEPT ![p] = x.val]
      BY <1>4, <1>6, ByteStored
  <2> QED BY <1>5, <1>6, <2>1 DEF ChangedAt
<1>8. LongHeld'
    BY <1>1, <1>2, <1>5, <1>7 DEF LongHeld
<1>9. Halves(Base, have', a, CF', p - 1)
  <2> DEFINE h == have
             h2 == have'
             c2 == CF'
  <2>1. /\ h \in [1 .. Limbs -> Int] /\ h2 \in [1 .. Limbs -> Int]
        /\ a \in [1 .. Limbs -> Int] /\ Base \in Bases
      BY <1>5, <1>7, BytesAreInts
  <2>2. c \in Int /\ c2 = One(x.f, "CF") /\ c2 \in Int
      BY <1>4 DEF CF, One
  <2>3. ChangedAt(p, h, h2) /\ Halves(Base, h, a, c, p) /\ 2 * h2[p] + c2 = a[p] + Base * c
      BY <1>2, <1>3, <1>6, <1>7, <2>2 DEF CF
  <2> HIDE DEF h, h2, c, c2
  <2>4. Halves(Base, h2, a, c2, p - 1)
      BY <2>1, <2>2, <2>3, HalfGrows, Zenon
  <2> QED BY <2>4 DEF h2, c2
<1>10. given'.a = a /\ op' = "half"
    BY <1>1 DEF a
<1> QED BY <1>5, <1>8, <1>9, <1>10 DEF LInv

\* No other action is of these programs.
LEMMA LInvStep == LInv /\ [Next]_vars => LInv'
<1> SUFFICES ASSUME LInv, [Next]_vars, op \in Carrying PROVE LInv'
  <2>1. [Next]_vars => op' = op
      BY DEF Next, vars, Add, Sub, Twice, Half, AddPacked, SubPacked, AddUnpacked,
             SubUnpacked, Done, ShiftByOne, Div, IDiv, Divide, UnDiv, UnIDiv, MultiplyBack,
             Became, Mul, IMul, Multiply, Split, Join, AX
  <2> QED BY <2>1 DEF LInv
<1>1. CASE Add
    BY <1>1, AddKeeps
<1>2. CASE Sub
    BY <1>2, SubKeeps
<1>3. CASE Twice
    BY <1>3, TwiceKeeps
<1>4. CASE Half
    BY <1>4, HalfKeeps
<1>5. CASE UNCHANGED vars
  <2>1. /\ op' = op /\ w' = w /\ given' = given /\ have' = have /\ f' = f /\ n' = n
      BY <1>5 DEF vars
  <2>2. /\ CF' = CF /\ Way' = Way /\ Second' = Second
      BY <2>1 DEF CF, Way, Second
  <2> QED BY <2>1, <2>2 DEF LInv, LongHeld
<1>6. CASE \/ AddPacked \/ SubPacked \/ AddUnpacked \/ SubUnpacked \/ ShiftByOne
           \/ Div \/ IDiv \/ UnDiv \/ UnIDiv \/ Mul \/ IMul \/ Split \/ Join
    BY <1>6 DEF AddPacked, SubPacked, AddUnpacked, SubUnpacked, ShiftByOne, Div, IDiv, UnDiv,
                UnIDiv, Mul, IMul, Split, Join, Carrying, Shifts, Rotations, Doubles
<1> QED BY <1>1, <1>2, <1>3, <1>4, <1>5, <1>6 DEF Next

\* The numbers of LongNumbers are sums up to the limbs done.
LEMMA LInvLong == LInv => LongNumbers
<1> SUFFICES ASSUME LInv, op \in Carrying PROVE LongNumbers
    BY DEF LongNumbers, LInv, Carrying
<1> DEFINE h == Number(Base, have)
           a == Number(Base, given.a)
           b == Number(Base, given.b)
           c == CF
           P == Base^n
           half == 2^(BYTE * Limbs - 1)
<1>1. /\ LongHeld
      /\ op # "half" => Sums(Way, Base, have, given.a, Second, c, n)
      /\ op \in {"add", "sub"} /\ n = Limbs => SignsTold(Way, f, given.a, given.b)
      /\ op = "half" => Halves(Base, have, given.a, c, Limbs - n)
    BY DEF LInv
<1>2. h = Upto(Base, have)[n] /\ a = Upto(Base, given.a)[n] /\ b = Upto(Base, given.b)[n]
    BY NumberIsUpto
<1>3. /\ n \in 0 .. Limbs /\ Base \in Bases
      /\ have \in [1 .. Limbs -> Int]
      /\ given.a \in [1 .. Limbs -> Int] /\ given.b \in [1 .. Limbs -> Int]
    BY <1>1, BytesAreInts DEF LongHeld
<1>4. h \in Int /\ a \in Int /\ b \in Int /\ P \in Int /\ c \in Int
  <2>1. \A k \in 0 .. Limbs : Upto(Base, have)[k] \in Int
      BY <1>3, UptoSteps
  <2>2. \A k \in 0 .. Limbs : Upto(Base, given.a)[k] \in Int
      BY <1>3, UptoSteps
  <2>3. \A k \in 0 .. Limbs : Upto(Base, given.b)[k] \in Int
      BY <1>3, UptoSteps
  <2>4. \A k \in 0 .. Limbs : Base^k \in Int
      BY <1>3, BasePowers
  <2> HIDE DEF h, a, b
  <2> QED BY <1>2, <1>3, <2>1, <2>2, <2>3, <2>4 DEF CF, One
<1>5. Base = 2^BYTE
    BY DEF Base
<1>6. op = "add" => SumOf(2^BYTE, have, given.a, given.b)
  <2> SUFFICES ASSUME op = "add" PROVE h + c * P = a + b
      BY <1>5 DEF SumOf
  <2>1. Sums(1, Base, have, given.a, given.b, c, n)
      BY <1>1 DEF Way, Second
  <2>2. h + 1 * (c * P) = a + 1 * b
      BY <1>2, <2>1 DEF Sums
  <2> HIDE DEF h, a, b, c, P
  <2> QED BY <1>4, <2>2
<1>7. op = "sub" => DifferenceOf(2^BYTE, have, given.a, given.b)
  <2> SUFFICES ASSUME op = "sub" PROVE h - c * P = a - b
      BY <1>5 DEF DifferenceOf
  <2>1. Sums(-1, Base, have, given.a, given.b, c, n)
      BY <1>1 DEF Way, Second
  <2>2. h + (-1) * (c * P) = a + (-1) * b
      BY <1>2, <2>1 DEF Sums
  <2> HIDE DEF h, a, b, c, P
  <2> QED BY <1>4, <2>2
<1>8. op = "twice" => Number(2^BYTE, have) + CF * 2^(BYTE * n) = 2 * Number(2^BYTE, given.a)
  <2> SUFFICES ASSUME op = "twice" PROVE h + c * 2^(BYTE * n) = 2 * a
      BY <1>5
  <2>1. Sums(1, Base, have, given.a, given.a, c, n)
      BY <1>1 DEF Way, Second
  <2>2. h + 1 * (c * P) = a + 1 * a
      BY <1>2, <2>1 DEF Sums
  <2>3. 2^(BYTE * n) = P
      BY <1>3, LimbAssumption DEF Base
  <2> HIDE DEF h, a, b, c, P
  <2> QED BY <1>4, <2>2, <2>3
<1>9. op = "half" /\ n = Limbs => 2 * Number(2^BYTE, have) + CF = Number(2^BYTE, given.a)
  <2> SUFFICES ASSUME op = "half", n = Limbs PROVE 2 * h + c = a
      BY <1>5
  <2>1. Halves(Base, have, given.a, c, 0)
      BY <1>1, BytesAreInts
  <2>2. Base^0 = 1
      BY <1>3, BasePowers
  <2>3. Upto(Base, have)[0] = 0 /\ Upto(Base, given.a)[0] = 0
      BY <1>3, UptoSteps
  <2>4. 2 * (h - 0) + c * 1 = a - 0
      BY <1>2, <2>1, <2>2, <2>3 DEF Halves
  <2> HIDE DEF h, a, b, c, P
  <2> QED BY <1>4, <2>4
<1>10. op \in {"add", "sub"} /\ n = Limbs =>
         /\ ("OF" \in f) <=> SignedResult \notin - half .. half - 1
         /\ ("SF" \in f) <=> (SignedResult < 0) # ("OF" \in f)
  <2> SUFFICES ASSUME op \in {"add", "sub"}, n = Limbs
               PROVE  /\ ("OF" \in f) <=> SignedResult \notin - half .. half - 1
                      /\ ("SF" \in f) <=> (SignedResult < 0) # ("OF" \in f)
      OBVIOUS
  <2> DEFINE sa == Signed(BYTE * Limbs, a)
             sb == Signed(BYTE * Limbs, b)
  <2>1. SignsTold(Way, f, given.a, given.b)
      BY <1>1
  <2>2. /\ "OF" \in f <=> sa + Way * sb \notin - half .. half - 1
        /\ "SF" \in f <=> (sa + Way * sb < 0) # ("OF" \in f)
    <3>1. Upto(Base, given.a)[Limbs] = a /\ Upto(Base, given.b)[Limbs] = b
        BY <1>2
    <3> HIDE DEF a, b
    <3> QED BY <2>1, <3>1 DEF SignsTold
  <2>3. SignedResult = IF op = "add" THEN sa + sb ELSE sa - sb
      BY <1>5 DEF SignedResult
  <2>4. sa \in Int /\ sb \in Int
    <3>1. 2^(BYTE * Limbs) \in Int
        BY LimbAssumption
    <3> HIDE DEF a, b
    <3> QED BY <1>4, <3>1 DEF Signed
  <2> HIDE DEF sa, sb, half
  <2>5. sa + Way * sb = SignedResult
      BY <2>3, <2>4 DEF Way
  <2> QED BY <2>2, <2>5
<1> QED BY <1>6, <1>7, <1>8, <1>9, <1>10 DEF LongNumbers

\* ADC after ADC, SBB after SBB, RCL and RCR through the bytes of a number
\* compute on the number, and the flags of the last tell its sign.
THEOREM LongNumbersHolds == Spec => []LongNumbers
<1>1. Spec => []LInv
  <2>1. Init => LInv
      BY LInvInit
  <2>2. LInv /\ [Next]_vars => LInv'
      BY LInvStep
  <2> QED BY <2>1, <2>2, PTL DEF Spec
<1> QED BY <1>1, LInvLong, PTL
-----------------------------------------------------------------------------
\* Decimal numbers: a limb is a packed byte of two digits, or a digit, and is
\* worth what it counts for in base RADIX^2, or RADIX.
Figures == 0 .. RADIX - 1
PackedBytes == {Nib * h + l : h \in Figures, l \in Figures}
Limb(o) == IF o \in {"daa", "das"} THEN PackedBytes ELSE Figures
LimbBase(o) == IF o \in {"daa", "das"} THEN RADIX^2 ELSE RADIX
Worth(o, y) == IF o \in {"daa", "das"} THEN (y \div Nib) * RADIX + (y % Nib) ELSE y
Decimal(o, x) == [k \in 1 .. Limbs |-> Worth(o, x[k])]
DecimalWay == IF op \in {"das", "aas"} THEN -1 ELSE 1

\* The digits of a packed byte can be had back.
LEMMA PackedByte ==
  ASSUME NEW h \in Figures, NEW l \in Figures
  PROVE  /\ Nib * h + l \in PackedBytes /\ Nib * h + l \in Byte
         /\ (Nib * h + l) \div Nib = h /\ (Nib * h + l) % Nib = l
<1>1. Nib \in Nat /\ Nib >= 2 /\ Base = Nib * Nib /\ RADIX \in Nat /\ RADIX <= Nib
    BY Nibbles
<1>2. h \in 0 .. Nib - 1 /\ l \in 0 .. Nib - 1
    BY <1>1 DEF Figures
<1> DEFINE N == Nib
           v == N * h + l
<1>3. v \in Int /\ v >= 0 /\ v <= N * N - 1
  <2>1. /\ N * h >= 0 /\ N * h <= N * (N - 1) /\ N * (N - 1) = N * N - N
        /\ N * h \in Int /\ N * N \in Int
      BY <1>1, <1>2
  <2> QED BY <1>1, <1>2, <2>1
<1>4. v = N * h + l /\ N \in Nat /\ N >= 1
    BY <1>1
<1>5. v \in PackedBytes
    BY DEF PackedBytes
<1>6. v \in Byte
    BY <1>1, <1>3 DEF Byte
<1> HIDE DEF v, N
<1>7. v \div N = h /\ v % N = l
  <2>1. l \in 0 .. N - 1 /\ h \in Int
      BY <1>2 DEF N
  <2> QED BY <1>3, <1>4, <2>1, Parted
<1> QED BY <1>5, <1>6, <1>7 DEF v, N

LEMMA PackedParts ==
  ASSUME NEW y \in PackedBytes
  PROVE  \E h \in Figures, l \in Figures : y = Nib * h + l
BY DEF PackedBytes

LEMMA PackedWorth ==
  ASSUME NEW h \in Figures, NEW l \in Figures, NEW o \in {"daa", "das"}
  PROVE  Worth(o, Nib * h + l) = h * RADIX + l
BY PackedByte DEF Worth

\* Limbs are bytes, and worth numbers below the base.
LEMMA LimbsAreBytes ==
  ASSUME NEW o
  PROVE  /\ LimbBase(o) \in Bases /\ LimbBase(o) \in Int /\ 0 \in Limb(o)
         /\ \A y \in Limb(o) : y \in Byte /\ y % 2^BYTE = y /\ Worth(o, y) \in Int
         /\ \A x \in [1 .. Limbs -> Limb(o)] : Decimal(o, x) \in [1 .. Limbs -> Int]
<1>1. LimbBase(o) \in Bases /\ LimbBase(o) \in Int
  <2>1. LimbBase(o) \in Bases
      BY DEF LimbBase, Bases
  <2> QED BY <2>1, BasePowers
<1>2. Nib \in Nat /\ RADIX \in Nat /\ RADIX >= 1 /\ RADIX <= Nib /\ 0 \in Figures
    BY Nibbles DEF Figures
<1>3. 0 \in Limb(o)
  <2>1. Nib * 0 + 0 \in PackedBytes
      BY <1>2, PackedByte
  <2> QED BY <1>2, <2>1 DEF Limb
<1>4. \A y \in Limb(o) : y \in Byte /\ y % 2^BYTE = y /\ Worth(o, y) \in Int
  <2> SUFFICES ASSUME NEW y \in Limb(o) PROVE y \in Byte /\ y % 2^BYTE = y /\ Worth(o, y) \in Int
      OBVIOUS
  <2>1. CASE o \in {"daa", "das"}
    <3>1. PICK h \in Figures, l \in Figures : y = Nib * h + l
        BY <2>1, PackedParts DEF Limb
    <3>2. y \in Byte
        BY <3>1, PackedByte
    <3>3. Worth(o, y) = h * RADIX + l
        BY <2>1, <3>1, PackedWorth
    <3> QED BY <1>2, <3>2, <3>3, ByteStored DEF Figures
  <2>2. CASE o \notin {"daa", "das"}
    <3>1. y \in Figures /\ Worth(o, y) = y
        BY <2>2 DEF Limb, Worth
    <3>2. RADIX <= Base /\ Base \in Nat
        BY Nibbles
    <3>3. y \in Byte
        BY <1>2, <3>1, <3>2 DEF Figures, Byte
    <3> QED BY <1>2, <3>1, <3>3, ByteStored DEF Figures
  <2> QED BY <2>1, <2>2
<1>5. \A x \in [1 .. Limbs -> Limb(o)] : Decimal(o, x) \in [1 .. Limbs -> Int]
    BY <1>4 DEF Decimal
<1> QED BY <1>1, <1>3, <1>4, <1>5

DecimalHeld ==
  /\ n \in 0 .. Limbs
  /\ given.a \in [1 .. Limbs -> Limb(op)] /\ given.b \in [1 .. Limbs -> Limb(op)]
  /\ have \in [1 .. Limbs -> Limb(op)]

DecimalSums(sign) ==
  Sums(sign, LimbBase(op), Decimal(op, have), Decimal(op, given.a), Decimal(op, given.b), CF, n)

\* What a decimal adjustment leaves, and the carry in the flags, is the sum or
\* the difference of the limbs.
LEMMA DecimalDone ==
  ASSUME DecimalHeld, n < Limbs, NEW x, NEW v \in Limb(op), v = x.val % 2^BYTE, Done(x),
         At = n + 1, NEW sign \in Ways, DecimalSums(sign),
         LimbSums(sign, LimbBase(op), Worth(op, v), Worth(op, given.a[n + 1]),
                  Worth(op, given.b[n + 1]), CF, One(x.f, "CF"))
  PROVE  DecimalHeld' /\ DecimalSums(sign)'
<1>1. PICK p \in 1 .. Limbs : p = n + 1
    BY BytesAreInts DEF DecimalHeld
<1>2. n = p - 1 /\ n' = p /\ At = p /\ op' = op /\ given' = given
    BY <1>1, BytesAreInts DEF DecimalHeld, Done
<1>3. have' = [have EXCEPT ![p] = v] /\ f' = x.f
    BY <1>2 DEF Done
<1>4. have' \in [1 .. Limbs -> Limb(op)] /\ have'[p] = v /\ ChangedAt(p, have, have')
    BY <1>3 DEF DecimalHeld, ChangedAt
<1>5. DecimalHeld'
    BY <1>2, <1>4, BytesAreInts DEF DecimalHeld
<1>6. CF' = One(x.f, "CF") /\ CF \in Int /\ CF' \in Int
    BY <1>3 DEF CF, One
<1> DEFINE base == LimbBase(op)
           h == Decimal(op, have)
           h2 == Decimal(op, have')
           a == Decimal(op, given.a)
           b == Decimal(op, given.b)
           c == CF
           c2 == CF'
<1>7. /\ h \in [1 .. Limbs -> Int] /\ h2 \in [1 .. Limbs -> Int] /\ base \in Bases
      /\ a \in [1 .. Limbs -> Int] /\ b \in [1 .. Limbs -> Int]
    BY <1>4, LimbsAreBytes DEF DecimalHeld
<1>8. ChangedAt(p, h, h2) /\ h2[p] = Worth(op, v)
    BY <1>4 DEF ChangedAt, Decimal
<1>9. a[p] = Worth(op, given.a[n + 1]) /\ b[p] = Worth(op, given.b[n + 1])
    BY <1>1 DEF Decimal
<1>10. LimbSums(sign, base, h2[p], a[p], b[p], c, c2)
    BY <1>6, <1>8, <1>9
<1>11. Sums(sign, base, h, a, b, c, p - 1)
    BY <1>2 DEF DecimalSums
<1>12. c \in Int /\ c2 \in Int
    BY <1>6
<1>13. Sums(sign, base, h2, a, b, c2, p)
  <2> HIDE DEF base, h, h2, a, b, c, c2
  <2> QED BY <1>7, <1>8, <1>10, <1>11, <1>12, SumGrows, Zenon
<1>14. DecimalSums(sign)'
    BY <1>2, <1>13 DEF DecimalSums
<1> QED BY <1>5, <1>14

\* ADC with DAA, SBB with DAS, ADC with AAA, SBB with AAS keep the sums right.
LEMMA AddPackedKeeps ==
  ASSUME DecimalHeld, DecimalSums(1), AddPacked
  PROVE  DecimalHeld' /\ DecimalSums(1)'
<1> DEFINE a == given.a[n + 1]
           b == given.b[n + 1]
           c == One(f, "CF")
           s == adc(BYTE, f, a, b)
           x == daa(s.f, s.val)
           R == RADIX
<1>1. op = "daa" /\ n < Limbs /\ At = n + 1 /\ Done(x)
    BY DEF AddPacked, At, A, B
<1>2. a \in PackedBytes /\ b \in PackedBytes
    BY <1>1, BytesAreInts DEF DecimalHeld, Limb
<1>3. PICK ah \in Figures, al \in Figures : a = Nib * ah + al
    BY <1>2, PackedParts
<1>4. PICK bh \in Figures, bl \in Figures : b = Nib * bh + bl
    BY <1>2, PackedParts
<1>5. \E h \in Figures, l \in Figures :
        /\ x.val = Nib * h + l
        /\ h * RADIX + l + (RADIX * RADIX) * One(x.f, "CF")
             = (ah * RADIX + al) + (bh * RADIX + bl) + c
  <2> DEFINE s1 == adc(BYTE, f, Nib * ah + al, Nib * bh + bl)
             x1 == daa(s1.f, s1.val)
  <2>1. /\ ah \in 0 .. RADIX - 1 /\ al \in 0 .. RADIX - 1
        /\ bh \in 0 .. RADIX - 1 /\ bl \in 0 .. RADIX - 1
      BY DEF Figures
  <2>2. Leaves(x1, (ah * RADIX + al) + (bh * RADIX + bl) + c)
      BY <2>1, DaaGives, Zenon
  <2>3. x1 = x
      BY <1>3, <1>4
  <2> QED BY <2>2, <2>3 DEF Figures, Leaves
<1>6. PICK h \in Figures, l \in Figures :
        /\ x.val = Nib * h + l
        /\ h * R + l + (R * R) * One(x.f, "CF") = (ah * R + al) + (bh * R + bl) + c
    BY <1>5
<1>7. /\ Worth(op, x.val) = h * R + l /\ Worth(op, a) = ah * R + al
      /\ Worth(op, b) = bh * R + bl
    BY <1>1, <1>3, <1>4, <1>6, PackedWorth
<1>8. x.val \in Limb(op) /\ x.val = x.val % 2^BYTE
    BY <1>1, <1>6, PackedByte, ByteStored DEF Limb
<1>9. LimbBase(op) = R * R
    BY <1>1, LimbAssumption DEF LimbBase
<1>10. CF = c /\ c \in Int /\ One(x.f, "CF") \in Int
    BY DEF CF, One
<1>11. R \in Int /\ h \in Int /\ l \in Int /\ ah \in Int /\ al \in Int /\ bh \in Int /\ bl \in Int
    BY Nibbles DEF Figures
<1>12. LimbSums(1, LimbBase(op), Worth(op, x.val), Worth(op, a), Worth(op, b), CF, One(x.f, "CF"))
  <2> DEFINE c2 == One(x.f, "CF")
             u == R * R
             p == h * R + l
             q == ah * R + al
             r == bh * R + bl
  <2>1. u \in Int /\ p \in Int /\ q \in Int /\ r \in Int /\ c2 \in Int /\ c \in Int
      BY <1>10, <1>11
  <2>2. p + u * c2 = q + r + c
    <3> DEFINE hr == h * R
               uc == u * c2
    <3>1. hr \in Int /\ uc \in Int
        BY <1>10, <1>11
    <3>2. hr + l + uc = q + r + c
        BY <1>6
    <3> HIDE DEF hr, uc, q, r, c, c2
    <3>3. (hr + l) + uc = q + r + c
        BY <1>11, <3>1, <3>2
    <3> QED BY <3>3 DEF hr, uc
  <2> HIDE DEF c2, u, p, q, r, c
  <2>3. p + 1 * (u * c2) = q + 1 * r + 1 * c
      BY <2>1, <2>2
  <2> QED BY <1>7, <1>9, <1>10, <2>3 DEF LimbSums, c2, u, p, q, r
<1> HIDE DEF a, b, x
<1>13. 1 \in Ways
    BY DEF Ways
<1> QED BY <1>1, <1>8, <1>12, <1>13, DecimalDone DEF a, b

LEMMA SubPackedKeeps ==
  ASSUME DecimalHeld, DecimalSums(-1), SubPacked
  PROVE  DecimalHeld' /\ DecimalSums(-1)'
<1> DEFINE a == given.a[n + 1]
           b == given.b[n + 1]
           c == One(f, "CF")
           s == sbb(BYTE, f, a, b)
           x == das(s.f, s.val)
           R == RADIX
<1>1. op = "das" /\ n < Limbs /\ At = n + 1 /\ Done(x)
    BY DEF SubPacked, At, A, B
<1>2. a \in PackedBytes /\ b \in PackedBytes
    BY <1>1, BytesAreInts DEF DecimalHeld, Limb
<1>3. PICK ah \in Figures, al \in Figures : a = Nib * ah + al
    BY <1>2, PackedParts
<1>4. PICK bh \in Figures, bl \in Figures : b = Nib * bh + bl
    BY <1>2, PackedParts
<1>5. \E h \in Figures, l \in Figures :
        /\ x.val = Nib * h + l
        /\ h * RADIX + l - (RADIX * RADIX) * One(x.f, "CF")
             = (ah * RADIX + al) - (bh * RADIX + bl) - c
  <2> DEFINE s1 == sbb(BYTE, f, Nib * ah + al, Nib * bh + bl)
             x1 == das(s1.f, s1.val)
  <2>1. /\ ah \in 0 .. RADIX - 1 /\ al \in 0 .. RADIX - 1
        /\ bh \in 0 .. RADIX - 1 /\ bl \in 0 .. RADIX - 1
      BY DEF Figures
  <2>2. LeavesLess(x1, (ah * RADIX + al) - (bh * RADIX + bl) - c)
      BY <2>1, DasGives, Zenon
  <2>3. x1 = x
      BY <1>3, <1>4
  <2> QED BY <2>2, <2>3 DEF Figures, LeavesLess
<1>6. PICK h \in Figures, l \in Figures :
        /\ x.val = Nib * h + l
        /\ h * R + l - (R * R) * One(x.f, "CF") = (ah * R + al) - (bh * R + bl) - c
    BY <1>5
<1>7. /\ Worth(op, x.val) = h * R + l /\ Worth(op, a) = ah * R + al
      /\ Worth(op, b) = bh * R + bl
    BY <1>1, <1>3, <1>4, <1>6, PackedWorth
<1>8. x.val \in Limb(op) /\ x.val = x.val % 2^BYTE
    BY <1>1, <1>6, PackedByte, ByteStored DEF Limb
<1>9. LimbBase(op) = R * R
    BY <1>1, LimbAssumption DEF LimbBase
<1>10. CF = c /\ c \in Int /\ One(x.f, "CF") \in Int
    BY DEF CF, One
<1>11. R \in Int /\ h \in Int /\ l \in Int /\ ah \in Int /\ al \in Int /\ bh \in Int /\ bl \in Int
    BY Nibbles DEF Figures
<1>12. LimbSums(-1, LimbBase(op), Worth(op, x.val), Worth(op, a), Worth(op, b), CF, One(x.f, "CF"))
  <2> DEFINE c2 == One(x.f, "CF")
             u == R * R
             p == h * R + l
             q == ah * R + al
             r == bh * R + bl
  <2>1. u \in Int /\ p \in Int /\ q \in Int /\ r \in Int /\ c2 \in Int /\ c \in Int
      BY <1>10, <1>11
  <2>2. p - u * c2 = q - r - c
    <3> DEFINE hr == h * R
               uc == u * c2
    <3>1. hr \in Int /\ uc \in Int
        BY <1>10, <1>11
    <3>2. hr + l - uc = q - r - c
        BY <1>6
    <3> HIDE DEF hr, uc, q, r, c, c2
    <3>3. (hr + l) - uc = q - r - c
        BY <1>11, <3>1, <3>2
    <3> QED BY <3>3 DEF hr, uc
  <2> HIDE DEF c2, u, p, q, r, c
  <2>3. p + (-1) * (u * c2) = q + (-1) * r + (-1) * c
      BY <2>1, <2>2
  <2> QED BY <1>7, <1>9, <1>10, <2>3 DEF LimbSums, c2, u, p, q, r
<1> HIDE DEF a, b, x
<1>13. -1 \in Ways
    BY DEF Ways
<1> QED BY <1>1, <1>8, <1>12, <1>13, DecimalDone DEF a, b

LEMMA AddUnpackedKeeps ==
  ASSUME DecimalHeld, DecimalSums(1), AddUnpacked
  PROVE  DecimalHeld' /\ DecimalSums(1)'
<1> DEFINE a == given.a[n + 1]
           b == given.b[n + 1]
           c == One(f, "CF")
           s == adc(BYTE, f, a, b)
           x == aaa(s.f, s.val)
           v == x.val % 2^BYTE
<1>1. op = "aaa" /\ n < Limbs /\ At = n + 1 /\ Done(x)
    BY DEF AddUnpacked, At, A, B
<1>2. a \in Figures /\ b \in Figures
    BY <1>1, BytesAreInts DEF DecimalHeld, Limb
<1>3. v \in Figures /\ v + RADIX * One(x.f, "CF") = a + b + c
    BY <1>2, DigitsAdded DEF Figures, Base
<1>4. Worth(op, v) = v /\ Worth(op, a) = a /\ Worth(op, b) = b /\ v \in Limb(op)
    BY <1>1, <1>3 DEF Worth, Limb
<1>5. LimbBase(op) = RADIX
    BY <1>1 DEF LimbBase
<1>6. CF = c /\ c \in Int /\ One(x.f, "CF") \in Int
    BY DEF CF, One
<1>7. RADIX \in Int /\ v \in Int /\ a \in Int /\ b \in Int
    BY <1>2, <1>3, Nibbles DEF Figures
<1>8. LimbSums(1, LimbBase(op), Worth(op, v), Worth(op, a), Worth(op, b), CF, One(x.f, "CF"))
  <2> DEFINE c2 == One(x.f, "CF")
  <2>1. c2 \in Int /\ v + RADIX * c2 = a + b + c
      BY <1>3, <1>6
  <2> HIDE DEF c2, c, v, a, b
  <2>2. v + 1 * (RADIX * c2) = a + 1 * b + 1 * c
      BY <1>6, <1>7, <2>1
  <2> QED BY <1>4, <1>5, <1>6, <2>2 DEF LimbSums, c2
<1>9. v = x.val % 2^BYTE /\ 1 \in Ways
    BY DEF Ways
<1> HIDE DEF a, b, x, v
<1> QED BY <1>1, <1>4, <1>8, <1>9, DecimalDone DEF a, b

LEMMA SubUnpackedKeeps ==
  ASSUME DecimalHeld, DecimalSums(-1), SubUnpacked
  PROVE  DecimalHeld' /\ DecimalSums(-1)'
<1> DEFINE a == given.a[n + 1]
           b == given.b[n + 1]
           c == One(f, "CF")
           s == sbb(BYTE, f, a, b)
           x == aas(s.f, s.val)
           v == x.val % 2^BYTE
<1>1. op = "aas" /\ n < Limbs /\ At = n + 1 /\ Done(x)
    BY DEF SubUnpacked, At, A, B
<1>2. a \in Figures /\ b \in Figures
    BY <1>1, BytesAreInts DEF DecimalHeld, Limb
<1>3. v \in Figures /\ v - RADIX * One(x.f, "CF") = a - b - c
    BY <1>2, DigitsSubtracted DEF Figures, Base
<1>4. Worth(op, v) = v /\ Worth(op, a) = a /\ Worth(op, b) = b /\ v \in Limb(op)
    BY <1>1, <1>3 DEF Worth, Limb
<1>5. LimbBase(op) = RADIX
    BY <1>1 DEF LimbBase
<1>6. CF = c /\ c \in Int /\ One(x.f, "CF") \in Int
    BY DEF CF, One
<1>7. RADIX \in Int /\ v \in Int /\ a \in Int /\ b \in Int
    BY <1>2, <1>3, Nibbles DEF Figures
<1>8. LimbSums(-1, LimbBase(op), Worth(op, v), Worth(op, a), Worth(op, b), CF, One(x.f, "CF"))
  <2> DEFINE c2 == One(x.f, "CF")
  <2>1. c2 \in Int /\ v - RADIX * c2 = a - b - c
      BY <1>3, <1>6
  <2> HIDE DEF c2, c, v, a, b
  <2>2. v + (-1) * (RADIX * c2) = a + (-1) * b + (-1) * c
      BY <1>6, <1>7, <2>1
  <2> QED BY <1>4, <1>5, <1>6, <2>2 DEF LimbSums, c2
<1>9. v = x.val % 2^BYTE /\ -1 \in Ways
    BY DEF Ways
<1> HIDE DEF a, b, x, v
<1> QED BY <1>1, <1>4, <1>8, <1>9, DecimalDone DEF a, b

\* AAM leaves the digits of what was given, and AAD joins them.
Joined ==
  /\ n \in 0 .. 2 /\ have.lo \in Byte /\ have.hi \in Byte
  /\ n = 0 => have.lo = given.lo
  /\ n = 1 => have.lo < RADIX /\ RADIX * have.hi + have.lo = given.lo /\ given.lo \in Byte
  /\ n = 2 => have.lo = given.lo /\ have.hi = 0

DInv ==
  /\ op \in Decimals => DecimalHeld /\ DecimalSums(DecimalWay)
  /\ op = "aam" => Joined

\* Before the first instruction all of this holds.
LEMMA DInvInit == Init => DInv
<1> SUFFICES ASSUME Init PROVE DInv
    OBVIOUS
<1>1. ASSUME op \in Decimals PROVE DecimalHeld /\ DecimalSums(DecimalWay)
  <2>1. InitLong /\ n = 0
      BY <1>1 DEF Init, InitShift, InitUndo, Decimals, Shifts, Rotations, Doubles, Undoing
  <2>2. PICK a \in Operands, b \in Operands : given = [a |-> a, b |-> b]
      BY <1>1, <2>1 DEF InitLong, Decimals
  <2>3. Operands = [1 .. Limbs -> IF op \in {"daa", "das"} THEN Packed ELSE Unpacked]
      BY <1>1 DEF Operands, Numbers, Carrying, Decimals
  <2>4. Packed \subseteq PackedBytes /\ Unpacked \subseteq Figures
    <3>1. Packed \subseteq PackedBytes
      <4> SUFFICES ASSUME NEW y \in Packed PROVE y \in PackedBytes
          OBVIOUS
      <4> DEFINE h == y \div Nib
                 l == y % Nib
      <4>1. Nib \in Nat /\ Nib >= 2 /\ y \in Nat
          BY Nibbles, NumberAssumption
      <4>2. h \in Int /\ l \in Int /\ h >= 0 /\ l >= 0 /\ y = Nib * h + l
        <5>1. h \in Int /\ l \in 0 .. Nib - 1 /\ y = Nib * h + l
            BY <4>1, DivMod
        <5>2. h >= 0
          <6> HIDE DEF h, l
          <6> SUFFICES ASSUME h <= -1 PROVE FALSE
              BY <5>1
          <6>1. Nib * h <= - Nib
              BY <4>1, <5>1
          <6> QED BY <4>1, <5>1, <6>1
        <5> HIDE DEF h, l
        <5> QED BY <4>1, <5>1, <5>2
      <4>3. h < RADIX /\ l < RADIX
          BY NumberAssumption DEF Nib
      <4> HIDE DEF h, l
      <4>4. h \in Figures /\ l \in Figures
          BY <4>2, <4>3, Nibbles DEF Figures
      <4> QED BY <4>2, <4>4 DEF PackedBytes
    <3>2. Unpacked \subseteq Figures
        BY NumberAssumption DEF Figures
    <3> QED BY <3>1, <3>2
  <2>5. a \in [1 .. Limbs -> Limb(op)] /\ b \in [1 .. Limbs -> Limb(op)]
      BY <2>2, <2>3, <2>4 DEF Limb
  <2>6. have \in [1 .. Limbs -> Limb(op)]
      BY <2>1, LimbsAreBytes DEF InitLong, Zero
  <2>7. DecimalHeld
    <3>1. given.a = a /\ given.b = b
        BY <2>2
    <3> QED BY <2>1, <2>5, <2>6, <3>1, BytesAreInts DEF DecimalHeld
  <2>8. CF = 0
      BY <2>1 DEF InitLong, CF, One
  <2>9. /\ Decimal(op, have) \in [1 .. Limbs -> Int] /\ Decimal(op, given.a) \in [1 .. Limbs -> Int]
        /\ Decimal(op, given.b) \in [1 .. Limbs -> Int] /\ LimbBase(op) \in Bases
        /\ DecimalWay \in Ways
      BY <2>7, LimbsAreBytes DEF DecimalHeld, DecimalWay, Ways
  <2>10. DecimalSums(DecimalWay)
      BY <2>1, <2>8, <2>9, SumsAtZero DEF DecimalSums
  <2> QED BY <2>7, <2>10
<1>2. ASSUME op = "aam" PROVE Joined
  <2>1. InitUndo /\ n = 0
      BY <1>2 DEF Init, InitLong, InitShift, Carrying, Decimals, Shifts, Rotations, Doubles
  <2>2. Factors \subseteq Byte
      BY NumberAssumption DEF Byte, Base
  <2> QED BY <2>1, <2>2 DEF InitUndo, Joined
<1> QED BY <1>1, <1>2 DEF DInv

\* AAM splits, AAD joins.
LEMMA SplitKeeps == DInv /\ Split => Joined'
<1> SUFFICES ASSUME DInv, Split PROVE Joined'
    OBVIOUS
<1> DEFINE x == aam(f, have.lo)
<1>1. /\ op = "aam" /\ n = 0 /\ n' = 1 /\ given' = given
      /\ have' = [hi |-> x.val \div Base, lo |-> x.val % Base, fault |-> FALSE]
    BY DEF Split, AX, Became, Base
<1>2. have.lo \in Byte /\ have.lo = given.lo
    BY <1>1 DEF DInv, Joined
<1>3. /\ x.val % Base \in 0 .. RADIX - 1 /\ x.val \div Base \in Byte /\ x.val % Base \in Byte
      /\ RADIX * (x.val \div Base) + (x.val % Base) = have.lo
    BY <1>2, AamGives
<1> DEFINE h == x.val \div Base
           l == x.val % Base
<1>4. /\ have'.hi = h /\ have'.lo = l /\ h \in Byte /\ l \in Byte
      /\ l < RADIX /\ RADIX * h + l = given.lo
    BY <1>1, <1>2, <1>3, Nibbles
<1> HIDE DEF h, l
<1> QED BY <1>1, <1>2, <1>4 DEF Joined

LEMMA JoinKeeps == DInv /\ Join => Joined'
<1> SUFFICES ASSUME DInv, Join PROVE Joined'
    OBVIOUS
<1> DEFINE h == have.hi
           l == have.lo
           x == aad(f, h * Base + l)
<1>1. /\ op = "aam" /\ n = 1 /\ n' = 2 /\ given' = given
      /\ have' = [hi |-> x.val \div Base, lo |-> x.val % Base, fault |-> FALSE]
    BY DEF Join, AX, Became, Base
<1>2. h \in Byte /\ l \in Byte /\ RADIX * h + l = given.lo /\ given.lo \in Byte
    BY <1>1 DEF DInv, Joined
<1>3. RADIX * h + l \in Byte
    BY <1>2
<1>4. x.val % Base = RADIX * h + l /\ x.val \div Base = 0
  <2> HIDE DEF h, l
  <2> QED BY <1>2, <1>3, AadGives
<1>5. have'.hi = 0 /\ have'.lo = given.lo
    BY <1>1, <1>2, <1>4
<1> QED BY <1>1, <1>2, <1>5, BytesAreInts DEF Joined

\* No other action is of the decimal programs.
LEMMA DInvStep == DInv /\ [Next]_vars => DInv'
<1> SUFFICES ASSUME DInv, [Next]_vars PROVE DInv'
    OBVIOUS
<1>1. op' = op
    BY DEF Next, vars, Add, Sub, Twice, Half, AddPacked, SubPacked, AddUnpacked,
           SubUnpacked, Done, ShiftByOne, Div, IDiv, Divide, UnDiv, UnIDiv, MultiplyBack,
           Became, Mul, IMul, Multiply, Split, Join, AX
<1>2. DecimalWay' = DecimalWay
    BY <1>1 DEF DecimalWay
<1>3. ASSUME op \in Decimals PROVE DecimalHeld' /\ DecimalSums(DecimalWay)'
  <2>1. DecimalHeld /\ DecimalSums(DecimalWay)
      BY <1>3 DEF DInv
  <2>2. CASE AddPacked
    <3>1. DecimalWay = 1
        BY <2>2 DEF AddPacked, DecimalWay
    <3>2. DecimalHeld' /\ DecimalSums(1)'
        BY <2>1, <2>2, <3>1, AddPackedKeeps
    <3> QED BY <1>2, <3>1, <3>2 DEF DecimalSums
  <2>3. CASE SubPacked
    <3>1. DecimalWay = -1
        BY <2>3 DEF SubPacked, DecimalWay
    <3>2. DecimalHeld' /\ DecimalSums(-1)'
        BY <2>1, <2>3, <3>1, SubPackedKeeps
    <3> QED BY <1>2, <3>1, <3>2 DEF DecimalSums
  <2>4. CASE AddUnpacked
    <3>1. DecimalWay = 1
        BY <2>4 DEF AddUnpacked, DecimalWay
    <3>2. DecimalHeld' /\ DecimalSums(1)'
        BY <2>1, <2>4, <3>1, AddUnpackedKeeps
    <3> QED BY <1>2, <3>1, <3>2 DEF DecimalSums
  <2>5. CASE SubUnpacked
    <3>1. DecimalWay = -1
        BY <2>5 DEF SubUnpacked, DecimalWay
    <3>2. DecimalHeld' /\ DecimalSums(-1)'
        BY <2>1, <2>5, <3>1, SubUnpackedKeeps
    <3> QED BY <1>2, <3>1, <3>2 DEF DecimalSums
  <2>6. CASE UNCHANGED vars
      BY <1>2, <2>1, <2>6 DEF vars, DecimalHeld, DecimalSums, CF
  <2>7. CASE \/ Add \/ Sub \/ Twice \/ Half \/ ShiftByOne
             \/ Div \/ IDiv \/ UnDiv \/ UnIDiv \/ Mul \/ IMul \/ Split \/ Join
      BY <1>3, <2>7 DEF Add, Sub, Twice, Half, ShiftByOne, Div, IDiv, UnDiv,
             UnIDiv, Mul, IMul, Split, Join, Decimals, Shifts, Rotations, Doubles
  <2> QED BY <2>2, <2>3, <2>4, <2>5, <2>6, <2>7 DEF Next
<1>4. ASSUME op = "aam" PROVE Joined'
  <2>1. CASE Split
      BY <2>1, SplitKeeps
  <2>2. CASE Join
      BY <2>2, JoinKeeps
  <2>3. CASE UNCHANGED vars
      BY <1>4, <2>3 DEF vars, DInv, Joined
  <2>4. CASE Next /\ ~ Split /\ ~ Join
      BY <1>4, <2>4 DEF Next, Add, Sub, Twice, Half, AddPacked, SubPacked, AddUnpacked,
           SubUnpacked, ShiftByOne, Shifts, Rotations, Doubles, Div, IDiv, UnDiv, UnIDiv, Mul, IMul
  <2> QED BY <2>1, <2>2, <2>3, <2>4
<1> QED BY <1>1, <1>3, <1>4 DEF DInv

\* The numbers of DecimalNumbers are sums up to the limbs done.
LEMMA DInvDecimal == DInv => DecimalNumbers
<1> SUFFICES ASSUME DInv PROVE DecimalNumbers
    OBVIOUS
<1> DEFINE base == LimbBase(op)
           h == Number(base, Decimal(op, have))
           a == Number(base, Decimal(op, given.a))
           b == Number(base, Decimal(op, given.b))
           c == CF
           P == base^n
<1>1. ASSUME op \in Decimals
      PROVE  /\ DecimalWay = 1 => h + c * P = a + b
             /\ DecimalWay = -1 => h - c * P = a - b
  <2>1. DecimalHeld /\ DecimalSums(DecimalWay)
      BY <1>1 DEF DInv
  <2>2. /\ h = Upto(base, Decimal(op, have))[n] /\ a = Upto(base, Decimal(op, given.a))[n]
        /\ b = Upto(base, Decimal(op, given.b))[n]
      BY NumberIsUpto
  <2>3. h + DecimalWay * (c * P) = a + DecimalWay * b
      BY <2>1, <2>2 DEF DecimalSums, Sums
  <2>4. /\ n \in 0 .. Limbs /\ base \in Bases /\ Decimal(op, have) \in [1 .. Limbs -> Int]
        /\ Decimal(op, given.a) \in [1 .. Limbs -> Int] /\ Decimal(op, given.b) \in [1 .. Limbs -> Int]
      BY <2>1, LimbsAreBytes DEF DecimalHeld
  <2>5. h \in Int /\ a \in Int /\ b \in Int /\ P \in Int /\ c \in Int
    <3>1. \A k \in 0 .. Limbs : Upto(base, Decimal(op, have))[k] \in Int
        BY <2>4, UptoSteps
    <3>2. \A k \in 0 .. Limbs : Upto(base, Decimal(op, given.a))[k] \in Int
        BY <2>4, UptoSteps
    <3>3. \A k \in 0 .. Limbs : Upto(base, Decimal(op, given.b))[k] \in Int
        BY <2>4, UptoSteps
    <3>4. \A k \in 0 .. Limbs : base^k \in Int
        BY <2>4, BasePowers
    <3> HIDE DEF h, a, b, base
    <3> QED BY <2>2, <2>4, <3>1, <3>2, <3>3, <3>4 DEF CF, One
  <2> HIDE DEF h, a, b, c, P
  <2> QED BY <2>3, <2>5
<1>2. op \in {"daa", "das"} =>
        /\ base = RADIX^2 /\ Decimal(op, have) = Digits(have)
        /\ Decimal(op, given.a) = Digits(given.a) /\ Decimal(op, given.b) = Digits(given.b)
    BY DEF LimbBase, Decimal, Worth, Digits, Nib
<1>3. op \in {"aaa", "aas"} =>
        /\ base = RADIX /\ Decimal(op, have) = have
        /\ Decimal(op, given.a) = given.a /\ Decimal(op, given.b) = given.b
  <2> SUFFICES ASSUME op \in {"aaa", "aas"}
               PROVE  /\ base = RADIX /\ Decimal(op, have) = have
                      /\ Decimal(op, given.a) = given.a /\ Decimal(op, given.b) = given.b
      OBVIOUS
  <2>1. DecimalHeld
      BY DEF DInv, Decimals
  <2> QED BY <2>1 DEF LimbBase, Decimal, Worth, DecimalHeld
<1>4. op = "daa" => SumOf(RADIX^2, Digits(have), Digits(given.a), Digits(given.b))
    BY <1>1, <1>2 DEF SumOf, Decimals, DecimalWay
<1>5. op = "das" => DifferenceOf(RADIX^2, Digits(have), Digits(given.a), Digits(given.b))
    BY <1>1, <1>2 DEF DifferenceOf, Decimals, DecimalWay
<1>6. op = "aaa" => SumOf(RADIX, have, given.a, given.b)
    BY <1>1, <1>3 DEF SumOf, Decimals, DecimalWay
<1>7. op = "aas" => DifferenceOf(RADIX, have, given.a, given.b)
    BY <1>1, <1>3 DEF DifferenceOf, Decimals, DecimalWay
<1>8. op = "aam" => Joined
    BY DEF DInv
<1> QED BY <1>4, <1>5, <1>6, <1>7, <1>8 DEF DecimalNumbers, Joined

\* ADC with DAA, SBB with DAS, ADC with AAA and SBB with AAS, limb after limb,
\* compute on decimal numbers of any length, and AAD joins what AAM splits.
THEOREM DecimalNumbersHolds == Spec => []DecimalNumbers
<1>1. Spec => []DInv
  <2>1. Init => DInv
      BY DInvInit
  <2>2. DInv /\ [Next]_vars => DInv'
      BY DInvStep
  <2> QED BY <2>1, <2>2, PTL DEF Spec
<1> QED BY <1>1, DInvDecimal, PTL

-----------------------------------------------------------------------------
\* Shifts: after n steps by one the operand is moved by n places.

\* The bits that a shift takes in: zeros unless it is a double one.
Incoming == IF op \in Doubles THEN have.fill ELSE 0

\* Numbers of the width, and no bits to come in unless the shift is a double one.
ShiftHeld ==
  /\ Width(w) /\ n \in Nat
  /\ given.d \in 0 .. 2^w - 1 /\ given.fill \in 0 .. 2^w - 1
  /\ have.d \in 0 .. 2^w - 1 /\ have.fill \in 0 .. 2^w - 1
  /\ op \notin Doubles => given.fill = 0
  /\ given.fill = 0 => have.fill = 0

\* What is there before the first step, and OF after it; rotations leave SF,
\* ZF and PF alone.
FirstStep ==
  /\ n = 0 => have.d = given.d /\ f = given.f
  /\ n = 1 /\ op # "sar" => (("OF" \in f) <=> Sign(w, given.d) # Sign(w, have.d))
  /\ op \in Rotations => f \cap ZSP = given.f \cap ZSP

\* After n steps the operand is what n places at once make of it, and the
\* carry is the bit that went last.
RolHeld ==
  /\ have.d = Rolled(w, n, given.d)
  /\ n > 0 => (("CF" \in f) <=> Bit(have.d, 0))

RorHeld ==
  /\ have.d = Rored(w, n, given.d)
  /\ n > 0 => (("CF" \in f) <=> Sign(w, have.d))

RclHeld == WithCarry(w, f, have.d) = RolledThrough(w, n, WithCarry(w, given.f, given.d))
RcrHeld == WithCarry(w, f, have.d) = RoredThrough(w, n, WithCarry(w, given.f, given.d))

ShlHeld ==
  /\ n <= w => /\ have.d = ShiftedLeft(w, n, given.d, given.fill)
               /\ Incoming = Shifted(w, given.fill, n)
  /\ n > 0 /\ n <= w => /\ ("CF" \in f) <=> Bit(given.d, w - n)
                        /\ f \cap ZSP = ResultFlags(w, have.d)
  /\ n >= w /\ given.fill = 0 => have.d = 0

ShrHeld ==
  /\ n <= w => /\ have.d = ShiftedRight(w, n, given.d, given.fill)
               /\ Incoming = given.fill \div 2^n
  /\ n > 0 /\ n <= w => /\ ("CF" \in f) <=> Bit(given.d, n - 1)
                        /\ f \cap ZSP = ResultFlags(w, have.d)
  /\ n >= w /\ given.fill = 0 => have.d = 0

SarHeld ==
  n < w => /\ have.d = ShiftedSigned(w, n, given.d)
           /\ n > 0 => /\ ("CF" \in f) <=> Bit(given.d, n - 1)
                       /\ f \cap ZSP = ResultFlags(w, have.d)

\* The loop invariant of the shifts.
SInv ==
  op \in Shifts =>
    /\ ShiftHeld /\ FirstStep
    /\ op = "rol" => RolHeld
    /\ op = "ror" => RorHeld
    /\ op = "rcl" => RclHeld
    /\ op = "rcr" => RcrHeld
    /\ op \in {"shl", "shld"} => ShlHeld
    /\ op \in {"shr", "shrd"} => ShrHeld
    /\ op = "sar" => SarHeld

\* Nothing is moved at the start.
LEMMA SInvInit == Init => SInv
<1> SUFFICES ASSUME Init, op \in Shifts PROVE SInv
    BY DEF SInv
<1>1. InitShift /\ n = 0
    BY DEF Init, InitLong, InitUndo, Carrying, Decimals, Shifts, Rotations, Doubles, Undoing
<1>2. PICK d \in 0 .. 2^w - 1,
           fill \in (IF op \in Doubles THEN {0, 1, 2^(w - 1), 2^w - 2} ELSE {0}) :
        given = [d |-> d, fill |-> fill, f |-> f] /\ have = [d |-> d, fill |-> fill]
    BY <1>1 DEF InitShift
<1>3. Width(w)
    BY <1>1, NumberAssumption DEF InitShift, Width
<1>4. /\ given.d = d /\ given.fill = fill /\ given.f = f /\ have.d = d /\ have.fill = fill
      /\ op \notin Doubles => fill = 0
    BY <1>2
<1>5. fill \in 0 .. 2^w - 1
  <2>1. fill \in {0, 1, 2^(w - 1), 2^w - 2}
      BY <1>2
  <2> QED BY <1>3, <2>1, FillBelow
<1>6. ShiftHeld
    BY <1>1, <1>3, <1>4, <1>5 DEF ShiftHeld
<1>7. FirstStep
    BY <1>1, <1>4 DEF FirstStep
<1> DEFINE X == WithCarry(w, f, d)
<1>8. X \in 0 .. 2 * 2^w - 1
    BY <1>3, CarryAbove
<1>9. /\ Rolled(w, 0, d) = d /\ Rored(w, 0, d) = d
      /\ RolledThrough(w, 0, X) = X /\ RoredThrough(w, 0, X) = X
      /\ ShiftedLeft(w, 0, d, fill) = d /\ Shifted(w, fill, 0) = fill
      /\ ShiftedRight(w, 0, d, fill) = d /\ fill \div 2^0 = fill
      /\ ShiftedSigned(w, 0, d) = d
  <2> HIDE DEF X
  <2> QED BY <1>3, <1>5, <1>8, NothingMoved
<1>10. RolHeld /\ RorHeld
    BY <1>1, <1>4, <1>9 DEF RolHeld, RorHeld
<1>11. RclHeld /\ RcrHeld
    BY <1>1, <1>4, <1>9 DEF RclHeld, RcrHeld
<1>12. ~ (0 >= w) /\ ~ (0 > 0)
    BY <1>3, WidthPowers
<1>13. Incoming = fill
    BY <1>4 DEF Incoming
<1>14. ShlHeld
    BY <1>1, <1>4, <1>9, <1>12, <1>13, Zenon DEF ShlHeld
<1>15. ShrHeld
    BY <1>1, <1>4, <1>9, <1>12, <1>13, Zenon DEF ShrHeld
<1>16. SarHeld
    BY <1>1, <1>4, <1>9, <1>12, Zenon DEF SarHeld
<1> QED BY <1>6, <1>7, <1>10, <1>11, <1>14, <1>15, <1>16 DEF SInv

\* What every step by one does, to the operands and to the bits that come in.
LEMMA StepTaken ==
  ASSUME SInv, ShiftByOne
  PROVE  LET x == Shift(op, f, have, 1)
         IN  /\ op \in Shifts /\ ShiftHeld /\ FirstStep
             /\ op' = op /\ w' = w /\ given' = given /\ n' = n + 1
             /\ have'.d = x.val /\ f' = x.f
             /\ have'.fill \in 0 .. 2^w - 1 /\ (given.fill = 0 => have'.fill = 0)
             /\ op = "shld" => have'.fill = Shifted(w, have.fill, 1)
             /\ op # "shld" => have'.fill = have.fill \div 2^1
<1> DEFINE x == Shift(op, f, have, 1)
           rest == IF op = "shld" THEN shl(w, {}, have.fill, 1) ELSE shr(w, {}, have.fill, 1)
<1>1. op \in Shifts /\ ShiftHeld /\ FirstStep
    BY DEF SInv, ShiftByOne
<1>2. /\ op' = op /\ w' = w /\ given' = given /\ n' = n + 1
      /\ have' = [d |-> x.val, fill |-> rest.val] /\ f' = x.f
    BY DEF ShiftByOne
<1>3. have'.d = x.val /\ have'.fill = rest.val
    BY <1>2
<1>4. /\ Width(w) /\ have.d \in 0 .. 2^w - 1 /\ have.fill \in 0 .. 2^w - 1
      /\ given.fill = 0 => have.fill = 0
    BY <1>1 DEF ShiftHeld
<1>5. /\ shl(w, {}, have.fill, 1).val = Shifted(w, have.fill, 1)
      /\ Shifted(w, have.fill, 1) \in 0 .. 2^w - 1
      /\ shr(w, {}, have.fill, 1).val = have.fill \div 2^1
      /\ have.fill \div 2^1 \in 0 .. 2^w - 1
  <2>1. ShldMoves(w, f, have.d, have.fill) /\ ShrdMoves(w, f, have.d, have.fill)
      BY <1>4, ShldOne, ShrdOne
  <2> QED BY <2>1 DEF ShldMoves, ShrdMoves
<1>6. Shifted(w, 0, 1) = 0 /\ 0 \div 2^1 = 0
    BY <1>4, ShiftedWhole
<1> HIDE DEF x
<1>7. /\ op = "shld" => have'.fill = Shifted(w, have.fill, 1)
      /\ op # "shld" => have'.fill = have.fill \div 2^1
    BY <1>3, <1>5
<1>8. have'.fill \in 0 .. 2^w - 1
    BY <1>5, <1>7
<1>9. given.fill = 0 => have'.fill = 0
    BY <1>4, <1>6, <1>7
<1> QED BY <1>1, <1>2, <1>3, <1>7, <1>8, <1>9, Zenon DEF x

\* What every step keeps, when its result is a number of the width.
LEMMA HeldNext ==
  ASSUME SInv, ShiftByOne, have'.d \in 0 .. 2^w - 1,
         op \in Rotations => f' \cap ZSP = f \cap ZSP,
         op # "sar" => (("OF" \in f') <=> (Sign(w, have.d) # Sign(w, have'.d)))
  PROVE  ShiftHeld' /\ FirstStep'
<1>1. /\ ShiftHeld /\ FirstStep
      /\ op' = op /\ w' = w /\ given' = given /\ n' = n + 1
      /\ have'.fill \in 0 .. 2^w - 1 /\ (given.fill = 0 => have'.fill = 0)
    BY StepTaken, Zenon
<1>2. n + 1 \in Nat /\ n + 1 # 0 /\ (n + 1 = 1 => n = 0)
    BY <1>1 DEF ShiftHeld
<1>3. ShiftHeld'
    BY <1>1, <1>2, Zenon DEF ShiftHeld, Width
<1>4. n' = 0 => have'.d = given'.d /\ f' = given'.f
    BY <1>1, <1>2
<1>5. op' \in Rotations => f' \cap ZSP = given'.f \cap ZSP
    BY <1>1, Zenon DEF FirstStep
<1>6. n' = 1 /\ op' # "sar" => (("OF" \in f') <=> (Sign(w', given'.d) # Sign(w', have'.d)))
  <2>1. n' = 1 => have.d = given'.d
      BY <1>1, <1>2 DEF FirstStep
  <2> QED BY <1>1, <2>1, Zenon
<1> QED BY <1>3, <1>4, <1>5, <1>6, Zenon DEF FirstStep

\* Each step by one is a place more of the count at once.
LEMMA RolKeeps == ASSUME SInv, ShiftByOne, op = "rol" PROVE SInv'
<1> DEFINE x == rol(w, f, have.d, 1)
<1>1. /\ op \in Shifts /\ ShiftHeld /\ op' = op /\ w' = w /\ given' = given /\ n' = n + 1
      /\ have'.d = Shift(op, f, have, 1).val /\ f' = Shift(op, f, have, 1).f
    BY StepTaken, Zenon
<1>2. Shift(op, f, have, 1) = x
    BY DEF Shift
<1>3. Width(w) /\ given.d \in 0 .. 2^w - 1 /\ n \in Nat /\ have.d = Rolled(w, n, given.d)
    BY <1>1 DEF ShiftHeld, SInv, RolHeld
<1>4. /\ x.val \in 0 .. 2^w - 1
      /\ x.val = Rolled(w, n + 1, given.d)
      /\ ("CF" \in x.f) <=> Bit(x.val, 0)
      /\ ("OF" \in x.f) <=> (Sign(w, have.d) # Sign(w, x.val))
      /\ x.f \cap ZSP = f \cap ZSP
  <2>1. RolMoves(w, f, given.d, n, have.d)
      BY <1>3, RolStep
  <2> QED BY <2>1, Zenon DEF RolMoves
<1>5. have'.d = x.val /\ f' = x.f
    BY <1>1, <1>2, Zenon
<1> HIDE DEF x
<1>6. ShiftHeld' /\ FirstStep'
    BY <1>4, <1>5, HeldNext
<1>7. RolHeld'
    BY <1>1, <1>4, <1>5, Zenon DEF RolHeld
<1> QED BY <1>1, <1>6, <1>7 DEF SInv

LEMMA RorKeeps == ASSUME SInv, ShiftByOne, op = "ror" PROVE SInv'
<1> DEFINE x == ror(w, f, have.d, 1)
<1>1. /\ op \in Shifts /\ ShiftHeld /\ op' = op /\ w' = w /\ given' = given /\ n' = n + 1
      /\ have'.d = Shift(op, f, have, 1).val /\ f' = Shift(op, f, have, 1).f
    BY StepTaken, Zenon
<1>2. Shift(op, f, have, 1) = x
    BY DEF Shift
<1>3. Width(w) /\ given.d \in 0 .. 2^w - 1 /\ n \in Nat /\ have.d = Rored(w, n, given.d)
    BY <1>1 DEF ShiftHeld, SInv, RorHeld
<1>4. /\ x.val \in 0 .. 2^w - 1
      /\ x.val = Rored(w, n + 1, given.d)
      /\ ("CF" \in x.f) <=> Sign(w, x.val)
      /\ ("OF" \in x.f) <=> (Sign(w, have.d) # Sign(w, x.val))
      /\ x.f \cap ZSP = f \cap ZSP
  <2>1. RorMoves(w, f, given.d, n, have.d)
      BY <1>3, RorStep
  <2> QED BY <2>1, Zenon DEF RorMoves
<1>5. have'.d = x.val /\ f' = x.f
    BY <1>1, <1>2, Zenon
<1> HIDE DEF x
<1>6. ShiftHeld' /\ FirstStep'
    BY <1>4, <1>5, HeldNext
<1>7. RorHeld'
    BY <1>1, <1>4, <1>5, Zenon DEF RorHeld
<1> QED BY <1>1, <1>6, <1>7 DEF SInv

LEMMA RclKeeps == ASSUME SInv, ShiftByOne, op = "rcl" PROVE SInv'
<1> DEFINE x == rcl(w, f, have.d, 1)
           X == WithCarry(w, given.f, given.d)
<1>1. /\ op \in Shifts /\ ShiftHeld /\ op' = op /\ w' = w /\ given' = given /\ n' = n + 1
      /\ have'.d = Shift(op, f, have, 1).val /\ f' = Shift(op, f, have, 1).f
    BY StepTaken, Zenon
<1>2. Shift(op, f, have, 1) = x
    BY DEF Shift
<1>3. /\ Width(w) /\ given.d \in 0 .. 2^w - 1 /\ have.d \in 0 .. 2^w - 1 /\ n \in Nat
      /\ WithCarry(w, f, have.d) = RolledThrough(w, n, X)
    BY <1>1 DEF ShiftHeld, SInv, RclHeld
<1>4. /\ x.val \in 0 .. 2^w - 1
      /\ WithCarry(w, x.f, x.val) = RolledThrough(w, n + 1, X)
      /\ ("OF" \in x.f) <=> (Sign(w, have.d) # Sign(w, x.val))
      /\ x.f \cap ZSP = f \cap ZSP
  <2>1. RclMoves(w, given.f, f, given.d, n, have.d)
      BY <1>3, RclStep
  <2> QED BY <2>1, Zenon DEF RclMoves
<1>5. have'.d = x.val /\ f' = x.f
    BY <1>1, <1>2, Zenon
<1> HIDE DEF x
<1>6. ShiftHeld' /\ FirstStep'
    BY <1>4, <1>5, HeldNext
<1>7. RclHeld'
    BY <1>1, <1>4, <1>5, Zenon DEF RclHeld
<1> QED BY <1>1, <1>6, <1>7 DEF SInv

LEMMA RcrKeeps == ASSUME SInv, ShiftByOne, op = "rcr" PROVE SInv'
<1> DEFINE x == rcr(w, f, have.d, 1)
           X == WithCarry(w, given.f, given.d)
<1>1. /\ op \in Shifts /\ ShiftHeld /\ op' = op /\ w' = w /\ given' = given /\ n' = n + 1
      /\ have'.d = Shift(op, f, have, 1).val /\ f' = Shift(op, f, have, 1).f
    BY StepTaken, Zenon
<1>2. Shift(op, f, have, 1) = x
    BY DEF Shift
<1>3. /\ Width(w) /\ given.d \in 0 .. 2^w - 1 /\ have.d \in 0 .. 2^w - 1 /\ n \in Nat
      /\ WithCarry(w, f, have.d) = RoredThrough(w, n, X)
    BY <1>1 DEF ShiftHeld, SInv, RcrHeld
<1>4. /\ x.val \in 0 .. 2^w - 1
      /\ WithCarry(w, x.f, x.val) = RoredThrough(w, n + 1, X)
      /\ ("OF" \in x.f) <=> (Sign(w, have.d) # Sign(w, x.val))
      /\ x.f \cap ZSP = f \cap ZSP
  <2>1. RcrMoves(w, given.f, f, given.d, n, have.d)
      BY <1>3, RcrStep
  <2> QED BY <2>1, Zenon DEF RcrMoves
<1>5. have'.d = x.val /\ f' = x.f
    BY <1>1, <1>2, Zenon
<1> HIDE DEF x
<1>6. ShiftHeld' /\ FirstStep'
    BY <1>4, <1>5, HeldNext
<1>7. RcrHeld'
    BY <1>1, <1>4, <1>5, Zenon DEF RcrHeld
<1> QED BY <1>1, <1>6, <1>7 DEF SInv

\* The shifts of one number are the double ones with nothing to come in.
LEMMA LeftStep ==
  ASSUME ShiftHeld, op \in {"shl", "shld"}
  PROVE  Shift(op, f, have, 1) = shld(w, f, have.d, Incoming, 1)
BY DEF Shift, Incoming, Doubles, shl

LEMMA LeftKeeps == ASSUME SInv, ShiftByOne, op \in {"shl", "shld"} PROVE SInv'
<1> DEFINE x == shld(w, f, have.d, Incoming, 1)
<1>1. /\ op \in Shifts /\ ShiftHeld /\ op' = op /\ w' = w /\ given' = given /\ n' = n + 1
      /\ have'.d = Shift(op, f, have, 1).val /\ f' = Shift(op, f, have, 1).f
      /\ op = "shld" => have'.fill = Shifted(w, have.fill, 1)
      /\ have'.fill \in 0 .. 2^w - 1 /\ (given.fill = 0 => have'.fill = 0)
    BY StepTaken, Zenon
<1>2. ShlHeld
    BY <1>1 DEF SInv
<1>3. /\ Width(w) /\ given.d \in 0 .. 2^w - 1 /\ have.d \in 0 .. 2^w - 1 /\ n \in Nat
      /\ given.fill \in 0 .. 2^w - 1 /\ have.fill \in 0 .. 2^w - 1
      /\ op \notin Doubles => given.fill = 0
      /\ given.fill = 0 => have.fill = 0
    BY <1>1 DEF ShiftHeld
<1>4. 0 \in 0 .. 2^w - 1 /\ w \in Nat
    BY <1>3, TopPower, WidthPowers
<1>5. Incoming \in 0 .. 2^w - 1
    BY <1>3, <1>4 DEF Incoming
<1>6. /\ x.val = ShiftedLeft(w, 1, have.d, Incoming) /\ x.val \in 0 .. 2^w - 1
      /\ ("CF" \in x.f) <=> Bit(have.d, w - 1)
      /\ ("OF" \in x.f) <=> (Sign(w, have.d) # Sign(w, x.val))
      /\ x.f \cap ZSP = ResultFlags(w, x.val)
  <2>1. ShldMoves(w, f, have.d, Incoming)
      BY <1>3, <1>5, ShldOne
  <2> QED BY <2>1, Zenon DEF ShldMoves
<1>7. have'.d = x.val /\ f' = x.f
    BY <1>1, LeftStep, Zenon
<1>8. /\ Shifted(w, 0, 1) = 0 /\ ShiftedLeft(w, 1, 0, 0) = 0
      /\ ShiftedLeft(w, w, given.d, 0) = 0
    BY <1>3, ShiftedWhole
<1>9. Incoming' = Shifted(w, Incoming, 1)
  <2>1. CASE op = "shld"
      BY <1>1, <2>1 DEF Incoming, Doubles
  <2>2. CASE op = "shl"
      BY <1>1, <1>8, <2>2 DEF Incoming, Doubles
  <2> QED BY <2>1, <2>2
<1>10. given.fill = 0 => Incoming = 0
    BY <1>3 DEF Incoming
<1> HIDE DEF x
<1>11. ShiftHeld' /\ FirstStep'
    BY <1>6, <1>7, HeldNext DEF Rotations
<1>12. ASSUME n + 1 <= w
       PROVE  /\ have'.d = ShiftedLeft(w, n + 1, given.d, given.fill)
              /\ Incoming' = Shifted(w, given.fill, n + 1)
              /\ ("CF" \in f') <=> Bit(given.d, w - (n + 1))
              /\ f' \cap ZSP = ResultFlags(w, have'.d)
  <2>1. n \in 0 .. w - 1 /\ n <= w
      BY <1>3, <1>4, <1>12
  <2>2. have.d = ShiftedLeft(w, n, given.d, given.fill) /\ Incoming = Shifted(w, given.fill, n)
      BY <1>2, <2>1 DEF ShlHeld
  <2>3. /\ ShiftedLeft(w, 1, have.d, Incoming) = ShiftedLeft(w, n + 1, given.d, given.fill)
        /\ Shifted(w, Incoming, 1) = Shifted(w, given.fill, n + 1)
        /\ Bit(have.d, w - 1) <=> Bit(given.d, w - (n + 1))
    <3>1. LeftMoves(w, given.d, given.fill, n)
        BY <1>3, <2>1, ShiftedLeftNext
    <3> QED BY <2>2, <3>1, Zenon DEF LeftMoves
  <2> QED BY <1>6, <1>7, <1>9, <2>3, Zenon
<1>13. ASSUME n + 1 >= w, given.fill = 0
       PROVE  have'.d = 0
  <2>1. CASE n >= w
    <3>1. have.d = 0 /\ Incoming = 0
        BY <1>2, <1>10, <1>13, <2>1 DEF ShlHeld
    <3> QED BY <1>6, <1>7, <1>8, <3>1, Zenon
  <2>2. CASE n < w
    <3>1. n + 1 <= w /\ n + 1 = w
        BY <1>3, <1>4, <1>13, <2>2
    <3>2. have'.d = ShiftedLeft(w, n + 1, given.d, given.fill)
        BY <1>12, <3>1
    <3> QED BY <1>8, <1>13, <3>1, <3>2, Zenon
  <2> QED BY <1>3, <1>4, <2>1, <2>2
<1>14. ShlHeld'
  <2>1. /\ n' <= w' => /\ have'.d = ShiftedLeft(w', n', given'.d, given'.fill)
                       /\ Incoming' = Shifted(w', given'.fill, n')
                       /\ ("CF" \in f') <=> Bit(given'.d, w' - n')
                       /\ f' \cap ZSP = ResultFlags(w', have'.d)
        /\ n' >= w' /\ given'.fill = 0 => have'.d = 0
      BY <1>1, <1>12, <1>13, Zenon
  <2> QED BY <2>1, Zenon DEF ShlHeld
<1> QED BY <1>1, <1>11, <1>14 DEF SInv

LEMMA RightStep ==
  ASSUME ShiftHeld, op \in {"shr", "shrd"}
  PROVE  Shift(op, f, have, 1) = shrd(w, f, have.d, Incoming, 1)
<1>1. Width(w) /\ have.d \in 0 .. 2^w - 1 /\ have.fill \in 0 .. 2^w - 1
    BY DEF ShiftHeld
<1>2. ShrdMoves(w, f, have.d, have.fill)
    BY <1>1, ShrdOne
<1>3. shr(w, f, have.d, 1) = shrd(w, f, have.d, 0, 1)
    BY <1>2 DEF ShrdMoves
<1> QED BY <1>3 DEF Shift, Incoming, Doubles

LEMMA RightKeeps == ASSUME SInv, ShiftByOne, op \in {"shr", "shrd"} PROVE SInv'
<1> DEFINE x == shrd(w, f, have.d, Incoming, 1)
<1>1. /\ op \in Shifts /\ ShiftHeld /\ op' = op /\ w' = w /\ given' = given /\ n' = n + 1
      /\ have'.d = Shift(op, f, have, 1).val /\ f' = Shift(op, f, have, 1).f
      /\ op # "shld" => have'.fill = have.fill \div 2^1
      /\ have'.fill \in 0 .. 2^w - 1 /\ (given.fill = 0 => have'.fill = 0)
    BY StepTaken, Zenon
<1>2. ShrHeld
    BY <1>1 DEF SInv
<1>3. /\ Width(w) /\ given.d \in 0 .. 2^w - 1 /\ have.d \in 0 .. 2^w - 1 /\ n \in Nat
      /\ given.fill \in 0 .. 2^w - 1 /\ have.fill \in 0 .. 2^w - 1
      /\ op \notin Doubles => given.fill = 0
      /\ given.fill = 0 => have.fill = 0
    BY <1>1 DEF ShiftHeld
<1>4. 0 \in 0 .. 2^w - 1 /\ w \in Nat /\ n' - 1 = n
    BY <1>1, <1>3, TopPower, WidthPowers
<1>5. Incoming \in 0 .. 2^w - 1
    BY <1>3, <1>4 DEF Incoming
<1>6. /\ x.val = ShiftedRight(w, 1, have.d, Incoming) /\ x.val \in 0 .. 2^w - 1
      /\ ("CF" \in x.f) <=> Bit(have.d, 0)
      /\ ("OF" \in x.f) <=> (Sign(w, have.d) # Sign(w, x.val))
      /\ x.f \cap ZSP = ResultFlags(w, x.val)
  <2>1. ShrdMoves(w, f, have.d, Incoming)
      BY <1>3, <1>5, ShrdOne
  <2> QED BY <2>1, Zenon DEF ShrdMoves
<1>7. have'.d = x.val /\ f' = x.f
    BY <1>1, RightStep, Zenon
<1>8. /\ 0 \div 2^1 = 0 /\ ShiftedRight(w, 1, 0, 0) = 0
      /\ ShiftedRight(w, w, given.d, 0) = 0
    BY <1>3, ShiftedWhole
<1>9. Incoming' = Incoming \div 2^1
  <2>1. CASE op = "shrd"
      BY <1>1, <2>1 DEF Incoming, Doubles
  <2>2. CASE op = "shr"
      BY <1>1, <1>8, <2>2 DEF Incoming, Doubles
  <2> QED BY <2>1, <2>2
<1>10. given.fill = 0 => Incoming = 0
    BY <1>3 DEF Incoming
<1> HIDE DEF x
<1>11. ShiftHeld' /\ FirstStep'
    BY <1>6, <1>7, HeldNext DEF Rotations
<1>12. ASSUME n + 1 <= w
       PROVE  /\ have'.d = ShiftedRight(w, n + 1, given.d, given.fill)
              /\ Incoming' = given.fill \div 2^(n + 1)
              /\ ("CF" \in f') <=> Bit(given.d, n)
              /\ f' \cap ZSP = ResultFlags(w, have'.d)
  <2>1. n \in 0 .. w - 1 /\ n <= w
      BY <1>3, <1>4, <1>12
  <2>2. have.d = ShiftedRight(w, n, given.d, given.fill) /\ Incoming = given.fill \div 2^n
      BY <1>2, <2>1 DEF ShrHeld
  <2>3. /\ ShiftedRight(w, 1, have.d, Incoming) = ShiftedRight(w, n + 1, given.d, given.fill)
        /\ Incoming \div 2^1 = given.fill \div 2^(n + 1)
        /\ Bit(have.d, 0) <=> Bit(given.d, n)
    <3>1. RightMoves(w, given.d, given.fill, n)
        BY <1>3, <2>1, ShiftedRightNext
    <3> QED BY <2>2, <3>1, Zenon DEF RightMoves
  <2> QED BY <1>6, <1>7, <1>9, <2>3, Zenon
<1>13. ASSUME n + 1 >= w, given.fill = 0
       PROVE  have'.d = 0
  <2>1. CASE n >= w
    <3>1. have.d = 0 /\ Incoming = 0
        BY <1>2, <1>10, <1>13, <2>1 DEF ShrHeld
    <3> QED BY <1>6, <1>7, <1>8, <3>1, Zenon
  <2>2. CASE n < w
    <3>1. n + 1 <= w /\ n + 1 = w
        BY <1>3, <1>4, <1>13, <2>2
    <3>2. have'.d = ShiftedRight(w, n + 1, given.d, given.fill)
        BY <1>12, <3>1
    <3> QED BY <1>8, <1>13, <3>1, <3>2, Zenon
  <2> QED BY <1>3, <1>4, <2>1, <2>2
<1>14. ShrHeld'
  <2>1. /\ n' <= w' => /\ have'.d = ShiftedRight(w', n', given'.d, given'.fill)
                       /\ Incoming' = given'.fill \div 2^n'
                       /\ ("CF" \in f') <=> Bit(given'.d, n' - 1)
                       /\ f' \cap ZSP = ResultFlags(w', have'.d)
        /\ n' >= w' /\ given'.fill = 0 => have'.d = 0
      BY <1>1, <1>4, <1>12, <1>13, Zenon
  <2> QED BY <2>1, Zenon DEF ShrHeld
<1> QED BY <1>1, <1>11, <1>14 DEF SInv

LEMMA SarKeeps == ASSUME SInv, ShiftByOne, op = "sar" PROVE SInv'
<1> DEFINE x == sar(w, f, have.d, 1)
<1>1. /\ op \in Shifts /\ ShiftHeld /\ op' = op /\ w' = w /\ given' = given /\ n' = n + 1
      /\ have'.d = Shift(op, f, have, 1).val /\ f' = Shift(op, f, have, 1).f
    BY StepTaken, Zenon
<1>2. Shift(op, f, have, 1) = x
    BY DEF Shift
<1>3. /\ Width(w) /\ given.d \in 0 .. 2^w - 1 /\ have.d \in 0 .. 2^w - 1 /\ n \in Nat
      /\ SarHeld
    BY <1>1 DEF ShiftHeld, SInv
<1>4. w \in Nat /\ n' - 1 = n
    BY <1>1, <1>3, WidthPowers
<1>5. /\ x.val = ShiftedSigned(w, 1, have.d) /\ x.val \in 0 .. 2^w - 1
      /\ ("CF" \in x.f) <=> Bit(have.d, 0)
      /\ x.f \cap ZSP = ResultFlags(w, x.val)
  <2>1. SarMoves(w, f, have.d)
      BY <1>3, SarOne
  <2> QED BY <2>1, Zenon DEF SarMoves
<1>6. have'.d = x.val /\ f' = x.f
    BY <1>1, <1>2, Zenon
<1> HIDE DEF x
<1>7. ShiftHeld' /\ FirstStep'
    BY <1>5, <1>6, HeldNext DEF Rotations
<1>8. ASSUME n + 1 < w
      PROVE  /\ have'.d = ShiftedSigned(w, n + 1, given.d)
             /\ ("CF" \in f') <=> Bit(given.d, n)
             /\ f' \cap ZSP = ResultFlags(w, have'.d)
  <2>1. n \in 0 .. w - 1 /\ n < w
      BY <1>3, <1>4, <1>8
  <2>2. have.d = ShiftedSigned(w, n, given.d)
      BY <1>3, <2>1 DEF SarHeld
  <2>3. SignedMoves(w, given.d, n)
      BY <1>3, <2>1, ShiftedSignedNext
  <2>4. /\ ShiftedSigned(w, 1, have.d) = ShiftedSigned(w, n + 1, given.d)
        /\ Bit(have.d, 0) <=> Bit(given.d, n)
      BY <2>2, <2>3, Zenon DEF SignedMoves
  <2> QED BY <1>5, <1>6, <2>4, Zenon
<1>9. SarHeld'
    BY <1>1, <1>4, <1>8, Zenon DEF SarHeld
<1> QED BY <1>1, <1>7, <1>9 DEF SInv

LEMMA SInvStep == SInv /\ [Next]_vars => SInv'
<1> SUFFICES ASSUME SInv, [Next]_vars, op \in Shifts PROVE SInv'
  <2>1. [Next]_vars => op' = op
      BY DEF Next, vars, Add, Sub, Twice, Half, AddPacked, SubPacked, AddUnpacked,
             SubUnpacked, Done, ShiftByOne, Div, IDiv, Divide, UnDiv, UnIDiv, MultiplyBack,
             Became, Mul, IMul, Multiply, Split, Join, AX
  <2> QED BY <2>1 DEF SInv
<1>1. CASE ShiftByOne
  <2>1. \/ op \in {"rol", "ror", "rcl", "rcr"} \/ op \in {"shl", "shld"}
        \/ op \in {"shr", "shrd"} \/ op = "sar"
      BY DEF Shifts, Rotations, Doubles
  <2> QED BY <1>1, <2>1, RolKeeps, RorKeeps, RclKeeps, RcrKeeps, LeftKeeps, RightKeeps, SarKeeps
<1>2. CASE UNCHANGED vars
  <2>1. /\ op' = op /\ w' = w /\ given' = given /\ have' = have /\ f' = f /\ n' = n
      BY <1>2 DEF vars
  <2>2. Incoming' = Incoming
      BY <2>1 DEF Incoming
  <2> QED BY <2>1, <2>2 DEF SInv, ShiftHeld, FirstStep, RolHeld, RorHeld, RclHeld, RcrHeld,
                            ShlHeld, ShrHeld, SarHeld
<1>3. CASE \/ Add \/ Sub \/ Twice \/ Half \/ AddPacked \/ SubPacked \/ AddUnpacked \/ SubUnpacked
           \/ Div \/ IDiv \/ UnDiv \/ UnIDiv \/ Mul \/ IMul \/ Split \/ Join
    BY <1>3 DEF Add, Sub, Twice, Half, AddPacked, SubPacked, AddUnpacked, SubUnpacked, Div, IDiv,
                UnDiv, UnIDiv, Mul, IMul, Split, Join, Shifts, Rotations, Doubles
<1> QED BY <1>1, <1>2, <1>3 DEF Next

\* What CountIsSteps says of a shift.
Counted ==
  /\ n < w => /\ AtOnce.val = have.d /\ (("CF" \in AtOnce.f) <=> ("CF" \in f))
              /\ AtOnce.f \cap ZSP = f \cap ZSP
  /\ \/ AtOnce.val = have.d
     \/ op = "sar" \/ given.fill # 0 \/ (op = "rcl" /\ n % (w + 1) = LONG)
  /\ op \in Rotations /\ n < w =>
       Shift(Opposite[op], AtOnce.f, [d |-> AtOnce.val], n).val = given.d
  /\ n = 1 /\ op # "sar" => (("OF" \in f) <=> Sign(w, given.d) # Sign(w, have.d))

\* At every count what the steps left is what the count at once gives.
LEMMA RolCounts == ASSUME SInv, op = "rol" PROVE Counted
<1> DEFINE x == rol(w, given.f, given.d, n)
           y == ror(w, x.f, x.val, n)
<1>1. /\ Width(w) /\ given.d \in 0 .. 2^w - 1 /\ n \in Nat
      /\ FirstStep /\ RolHeld
    BY DEF SInv, ShiftHeld, Shifts, Rotations
<1>2. AtOnce = x /\ Shift(Opposite[op], AtOnce.f, [d |-> AtOnce.val], n) = y
    BY DEF AtOnce, Shift, Opposite
<1>3. /\ x.val = Rolled(w, n, given.d)
      /\ n = 0 => x.f = given.f
      /\ n > 0 => (("CF" \in x.f) <=> Bit(x.val, 0))
      /\ x.f \cap ZSP = given.f \cap ZSP
  <2>1. RolCount(w, given.f, given.d, n)
      BY <1>1, RolGives
  <2> QED BY <2>1, Zenon DEF RolCount
<1>4. x.val = have.d
    BY <1>1, <1>3 DEF RolHeld
<1>5. x.val \in 0 .. 2^w - 1
    BY <1>1, <1>3, RolledNext
<1>6. y.val = given.d
  <2>1. y.val = Rored(w, n, x.val)
    <3>1. RorCount(w, x.f, x.val, n)
      <4> HIDE DEF x
      <4> QED BY <1>1, <1>5, RorGives
    <3> QED BY <3>1, Zenon DEF RorCount
  <2> QED BY <1>1, <1>3, <2>1, RotatedBack
<1> HIDE DEF x, y
<1>7. ("CF" \in x.f) <=> ("CF" \in f)
  <2>1. n = 0 \/ n > 0
      BY <1>1
  <2> QED BY <1>1, <1>3, <1>4, <2>1, Zenon DEF FirstStep, RolHeld
<1>8. x.f \cap ZSP = f \cap ZSP
    BY <1>1, <1>3 DEF FirstStep, Rotations
<1> QED BY <1>1, <1>2, <1>4, <1>6, <1>7, <1>8, Zenon DEF Counted, FirstStep

LEMMA RorCounts == ASSUME SInv, op = "ror" PROVE Counted
<1> DEFINE x == ror(w, given.f, given.d, n)
           y == rol(w, x.f, x.val, n)
<1>1. /\ Width(w) /\ given.d \in 0 .. 2^w - 1 /\ n \in Nat
      /\ FirstStep /\ RorHeld
    BY DEF SInv, ShiftHeld, Shifts, Rotations
<1>2. AtOnce = x /\ Shift(Opposite[op], AtOnce.f, [d |-> AtOnce.val], n) = y
    BY DEF AtOnce, Shift, Opposite
<1>3. /\ x.val = Rored(w, n, given.d)
      /\ n = 0 => x.f = given.f
      /\ n > 0 => (("CF" \in x.f) <=> Sign(w, x.val))
      /\ x.f \cap ZSP = given.f \cap ZSP
  <2>1. RorCount(w, given.f, given.d, n)
      BY <1>1, RorGives
  <2> QED BY <2>1, Zenon DEF RorCount
<1>4. x.val = have.d
    BY <1>1, <1>3 DEF RorHeld
<1>5. x.val \in 0 .. 2^w - 1
    BY <1>1, <1>3, RoredNext
<1>6. y.val = given.d
  <2>1. y.val = Rolled(w, n, x.val)
    <3>1. RolCount(w, x.f, x.val, n)
      <4> HIDE DEF x
      <4> QED BY <1>1, <1>5, RolGives
    <3> QED BY <3>1, Zenon DEF RolCount
  <2> QED BY <1>1, <1>3, <2>1, RotatedBack
<1> HIDE DEF x, y
<1>7. ("CF" \in x.f) <=> ("CF" \in f)
  <2>1. n = 0 \/ n > 0
      BY <1>1
  <2> QED BY <1>1, <1>3, <1>4, <2>1, Zenon DEF FirstStep, RorHeld
<1>8. x.f \cap ZSP = f \cap ZSP
    BY <1>1, <1>3 DEF FirstStep, Rotations
<1> QED BY <1>1, <1>2, <1>4, <1>6, <1>7, <1>8, Zenon DEF Counted, FirstStep

LEMMA RclCounts == ASSUME SInv, op = "rcl" PROVE Counted
<1> DEFINE x == rcl(w, given.f, given.d, n)
           y == rcr(w, x.f, x.val, n)
           X == WithCarry(w, given.f, given.d)
<1>1. /\ Width(w) /\ given.d \in 0 .. 2^w - 1 /\ have.d \in 0 .. 2^w - 1 /\ n \in Nat
      /\ FirstStep /\ WithCarry(w, f, have.d) = RolledThrough(w, n, X)
    BY DEF SInv, ShiftHeld, Shifts, Rotations, RclHeld
<1>2. AtOnce = x /\ Shift(Opposite[op], AtOnce.f, [d |-> AtOnce.val], n) = y
    BY DEF AtOnce, Shift, Opposite
<1>3. X \in 0 .. 2 * 2^w - 1
    BY <1>1, CarryAbove
<1> HIDE DEF X
<1>4. n < w => n % (w + 1) # LONG
  <2>1. w \in Nat /\ w <= LONG /\ LONG \in Nat
      BY <1>1, WidthPowers DEF Width
  <2>2. n < w => n % (w + 1) = n
      BY <1>1, <2>1
  <2> QED BY <1>1, <2>1, <2>2
<1>5. ASSUME n % (w + 1) # LONG
      PROVE  /\ x.val = have.d /\ (("CF" \in x.f) <=> ("CF" \in f))
             /\ x.f \cap ZSP = f \cap ZSP
             /\ y.val = given.d
  <2>1. /\ x.val \in 0 .. 2^w - 1
        /\ WithCarry(w, x.f, x.val) = RolledThrough(w, n, X)
        /\ x.f \cap ZSP = given.f \cap ZSP
    <3>1. RclCount(w, given.f, given.d, n)
        BY <1>1, <1>5, RclTurns
    <3> QED BY <3>1, Zenon DEF RclCount, X
  <2> HIDE DEF x
  <2>2. x.val = have.d /\ (("CF" \in x.f) <=> ("CF" \in f))
    <3>1. Alike(w, x.f, x.val, f, have.d)
        BY <1>1, <2>1 DEF Alike
    <3> QED BY <1>1, <2>1, <3>1, CarryApart
  <2>3. /\ y.val \in 0 .. 2^w - 1
        /\ WithCarry(w, y.f, y.val) = RoredThrough(w, n, WithCarry(w, x.f, x.val))
    <3>1. RcrCount(w, x.f, x.val, n)
        BY <1>1, <1>5, <2>1, RcrTurns
    <3> QED BY <3>1, Zenon DEF RcrCount
  <2>4. RoredThrough(w, n, RolledThrough(w, n, X)) = X
      BY <1>1, <1>3, ThroughBack
  <2> HIDE DEF y
  <2>5. Alike(w, y.f, y.val, given.f, given.d)
      BY <2>1, <2>3, <2>4 DEF X, Alike
  <2>6. y.val = given.d
      BY <1>1, <2>3, <2>5, CarryApart
  <2>7. x.f \cap ZSP = f \cap ZSP
      BY <1>1, <2>1 DEF FirstStep, Rotations
  <2> QED BY <2>2, <2>6, <2>7
<1> HIDE DEF x, y
<1> QED BY <1>1, <1>2, <1>4, <1>5, Zenon DEF Counted, FirstStep

LEMMA RcrCounts == ASSUME SInv, op = "rcr" PROVE Counted
<1> DEFINE x == rcr(w, given.f, given.d, n)
           y == rcl(w, x.f, x.val, n)
           X == WithCarry(w, given.f, given.d)
<1>1. /\ Width(w) /\ given.d \in 0 .. 2^w - 1 /\ have.d \in 0 .. 2^w - 1 /\ n \in Nat
      /\ FirstStep /\ WithCarry(w, f, have.d) = RoredThrough(w, n, X)
    BY DEF SInv, ShiftHeld, Shifts, Rotations, RcrHeld
<1>2. AtOnce = x /\ Shift(Opposite[op], AtOnce.f, [d |-> AtOnce.val], n) = y
    BY DEF AtOnce, Shift, Opposite
<1>3. X \in 0 .. 2 * 2^w - 1
    BY <1>1, CarryAbove
<1> HIDE DEF X
<1>4. n < w => n % (w + 1) # LONG
  <2>1. w \in Nat /\ w <= LONG /\ LONG \in Nat
      BY <1>1, WidthPowers DEF Width
  <2>2. n < w => n % (w + 1) = n
      BY <1>1, <2>1
  <2> QED BY <1>1, <2>1, <2>2
<1>5. /\ x.val \in 0 .. 2^w - 1
      /\ WithCarry(w, x.f, x.val) = RoredThrough(w, n, X)
      /\ x.f \cap ZSP = given.f \cap ZSP
  <2>1. RcrCount(w, given.f, given.d, n)
      BY <1>1, RcrTurns
  <2> QED BY <2>1, Zenon DEF RcrCount, X
<1> HIDE DEF x
<1>6. x.val = have.d /\ (("CF" \in x.f) <=> ("CF" \in f))
  <2>1. Alike(w, x.f, x.val, f, have.d)
      BY <1>1, <1>5 DEF Alike
  <2> QED BY <1>1, <1>5, <2>1, CarryApart
<1>7. x.f \cap ZSP = f \cap ZSP
    BY <1>1, <1>5 DEF FirstStep, Rotations
<1>8. ASSUME n < w
      PROVE  y.val = given.d
  <2>1. /\ y.val \in 0 .. 2^w - 1
        /\ WithCarry(w, y.f, y.val) = RolledThrough(w, n, WithCarry(w, x.f, x.val))
    <3>1. RclCount(w, x.f, x.val, n)
        BY <1>1, <1>4, <1>5, <1>8, RclTurns
    <3> QED BY <3>1, Zenon DEF RclCount
  <2>2. RolledThrough(w, n, RoredThrough(w, n, X)) = X
      BY <1>1, <1>3, ThroughBack
  <2> HIDE DEF y
  <2>3. Alike(w, y.f, y.val, given.f, given.d)
      BY <1>5, <2>1, <2>2 DEF X, Alike
  <2> QED BY <1>1, <2>1, <2>3, CarryApart
<1> HIDE DEF y
<1> QED BY <1>1, <1>2, <1>6, <1>7, <1>8, Zenon DEF Counted, FirstStep

LEMMA LeftCounts == ASSUME SInv, op \in {"shl", "shld"} PROVE Counted
<1> DEFINE x == shld(w, given.f, given.d, given.fill, n)
<1>1. /\ Width(w) /\ given.d \in 0 .. 2^w - 1 /\ given.fill \in 0 .. 2^w - 1 /\ n \in Nat
      /\ op \notin Doubles => given.fill = 0
      /\ FirstStep /\ ShlHeld
    BY DEF SInv, ShiftHeld, Shifts, Doubles
<1>2. w \in Nat /\ w >= 2
    BY <1>1, WidthPowers
<1>3. AtOnce = x
    BY <1>1 DEF AtOnce, Shift, Doubles, shl
<1>4. ASSUME n < w
      PROVE  /\ x.val = have.d /\ (("CF" \in x.f) <=> ("CF" \in f))
             /\ x.f \cap ZSP = f \cap ZSP
  <2>1. n <= w /\ (n = 0 \/ n > 0)
      BY <1>1, <1>2, <1>4
  <2>2. have.d = ShiftedLeft(w, n, given.d, given.fill)
      BY <1>1, <2>1 DEF ShlHeld
  <2>3. CASE n = 0
    <3> DEFINE z == shld(w, given.f, given.d, given.fill, 0)
    <3>1. /\ z.val = ShiftedLeft(w, 0, given.d, given.fill)
          /\ z.f \cap ZSP = given.f \cap ZSP
          /\ ("CF" \in z.f) <=> ("CF" \in given.f)
        BY <1>1, ShldNone
    <3>2. f = given.f
        BY <1>1, <2>3 DEF FirstStep
    <3> QED BY <2>2, <2>3, <3>1, <3>2, Zenon
  <2>4. CASE n > 0
    <3>1. /\ x.val = ShiftedLeft(w, n, given.d, given.fill)
          /\ ("CF" \in x.f) <=> Bit(given.d, w - n)
          /\ x.f \cap ZSP = ResultFlags(w, x.val)
      <4>1. ShldCount(w, given.f, given.d, given.fill, n)
          BY <1>1, <1>4, <2>4, ShldSome
      <4> QED BY <4>1, Zenon DEF ShldCount
    <3> HIDE DEF x
    <3>2. /\ ("CF" \in f) <=> Bit(given.d, w - n)
          /\ f \cap ZSP = ResultFlags(w, have.d)
        BY <1>1, <2>1, <2>4, Zenon DEF ShlHeld
    <3>3. x.val = have.d
        BY <2>2, <3>1
    <3> QED BY <3>1, <3>2, <3>3, Zenon
  <2> QED BY <2>1, <2>3, <2>4
<1>5. ASSUME n >= w, given.fill = 0
      PROVE  AtOnce.val = have.d
  <2>1. x.val = 0
      BY <1>1, <1>5, ShldOut
  <2>2. have.d = 0
      BY <1>1, <1>5 DEF ShlHeld
  <2> QED BY <1>3, <2>1, <2>2, Zenon
<1> HIDE DEF x
<1>6. n < w \/ n >= w
    BY <1>1, <1>2
<1>7. op \notin Rotations
    BY DEF Rotations
<1> QED BY <1>1, <1>3, <1>4, <1>5, <1>6, <1>7, Zenon DEF Counted, FirstStep

LEMMA RightCounts == ASSUME SInv, op \in {"shr", "shrd"} PROVE Counted
<1> DEFINE x == shrd(w, given.f, given.d, given.fill, n)
<1>1. /\ Width(w) /\ given.d \in 0 .. 2^w - 1 /\ given.fill \in 0 .. 2^w - 1 /\ n \in Nat
      /\ op \notin Doubles => given.fill = 0
      /\ FirstStep /\ ShrHeld
    BY DEF SInv, ShiftHeld, Shifts, Doubles
<1>2. w \in Nat /\ w >= 2
    BY <1>1, WidthPowers
<1>3. n < w \/ op = "shrd" => AtOnce = x
  <2>1. CASE op = "shrd"
      BY <2>1 DEF AtOnce, Shift
  <2>2. CASE op = "shr"
    <3>1. given.fill = 0 /\ AtOnce = shr(w, given.f, given.d, n)
        BY <1>1, <2>2 DEF AtOnce, Shift, Doubles
    <3>2. n < w => ~ (n >= w)
        BY <1>1, <1>2
    <3> QED BY <2>2, <3>1, <3>2, Zenon DEF shr
  <2> QED BY <2>1, <2>2
<1>4. ASSUME n < w
      PROVE  /\ x.val = have.d /\ (("CF" \in x.f) <=> ("CF" \in f))
             /\ x.f \cap ZSP = f \cap ZSP
  <2>1. n <= w /\ (n = 0 \/ n > 0)
      BY <1>1, <1>2, <1>4
  <2>2. have.d = ShiftedRight(w, n, given.d, given.fill)
      BY <1>1, <2>1 DEF ShrHeld
  <2>3. CASE n = 0
    <3> DEFINE z == shrd(w, given.f, given.d, given.fill, 0)
    <3>1. /\ z.val = ShiftedRight(w, 0, given.d, given.fill)
          /\ z.f \cap ZSP = given.f \cap ZSP
          /\ ("CF" \in z.f) <=> ("CF" \in given.f)
        BY <1>1, ShrdNone
    <3>2. f = given.f
        BY <1>1, <2>3 DEF FirstStep
    <3> QED BY <2>2, <2>3, <3>1, <3>2, Zenon
  <2>4. CASE n > 0
    <3>1. /\ x.val = ShiftedRight(w, n, given.d, given.fill)
          /\ ("CF" \in x.f) <=> Bit(given.d, n - 1)
          /\ x.f \cap ZSP = ResultFlags(w, x.val)
      <4>1. ShrdCount(w, given.f, given.d, given.fill, n)
          BY <1>1, <1>4, <2>4, ShrdSome
      <4> QED BY <4>1, Zenon DEF ShrdCount
    <3> HIDE DEF x
    <3>2. /\ ("CF" \in f) <=> Bit(given.d, n - 1)
          /\ f \cap ZSP = ResultFlags(w, have.d)
        BY <1>1, <2>1, <2>4, Zenon DEF ShrHeld
    <3>3. x.val = have.d
        BY <2>2, <3>1
    <3> QED BY <3>1, <3>2, <3>3, Zenon
  <2> QED BY <2>1, <2>3, <2>4
<1>5. ASSUME n >= w, given.fill = 0
      PROVE  AtOnce.val = have.d
  <2>1. have.d = 0
      BY <1>1, <1>5 DEF ShrHeld
  <2>2. CASE op = "shrd"
    <3>1. x.val = 0
        BY <1>1, <1>5, ShrdOut
    <3> QED BY <1>3, <2>1, <2>2, <3>1, Zenon
  <2>3. CASE op = "shr"
    <3>1. AtOnce = shr(w, given.f, given.d, n)
        BY <2>3 DEF AtOnce, Shift
    <3>2. shr(w, given.f, given.d, n).val = 0
        BY <1>5, Zenon DEF shr, shrd, ShiftedOut
    <3> QED BY <2>1, <3>1, <3>2, Zenon
  <2> QED BY <2>2, <2>3
<1> HIDE DEF x
<1>6. n < w \/ n >= w
    BY <1>1, <1>2
<1>7. op \notin Rotations
    BY DEF Rotations
<1> QED BY <1>1, <1>3, <1>4, <1>5, <1>6, <1>7, Zenon DEF Counted, FirstStep

LEMMA SarCounts == ASSUME SInv, op = "sar" PROVE Counted
<1> DEFINE x == sar(w, given.f, given.d, n)
<1>1. /\ Width(w) /\ given.d \in 0 .. 2^w - 1 /\ n \in Nat
      /\ FirstStep /\ SarHeld
    BY DEF SInv, ShiftHeld, Shifts
<1>2. w \in Nat /\ w >= 2
    BY <1>1, WidthPowers
<1>3. AtOnce = x
    BY DEF AtOnce, Shift
<1>4. ASSUME n < w
      PROVE  /\ x.val = have.d /\ (("CF" \in x.f) <=> ("CF" \in f))
             /\ x.f \cap ZSP = f \cap ZSP
  <2>1. n \in 0 .. w - 1 /\ (n = 0 \/ n > 0)
      BY <1>1, <1>2, <1>4
  <2>2. /\ x.val = ShiftedSigned(w, n, given.d)
        /\ n = 0 => x.f = given.f
        /\ n > 0 => /\ ("CF" \in x.f) <=> Bit(given.d, n - 1)
                    /\ x.f \cap ZSP = ResultFlags(w, x.val)
    <3>1. SarCount(w, given.f, given.d, n)
        BY <1>1, <2>1, SarGives
    <3> QED BY <3>1, Zenon DEF SarCount
  <2> HIDE DEF x
  <2>3. have.d = x.val
      BY <1>1, <1>4, <2>2, Zenon DEF SarHeld
  <2>4. n = 0 => f = given.f
      BY <1>1 DEF FirstStep
  <2> QED BY <1>1, <1>4, <2>1, <2>2, <2>3, <2>4, Zenon DEF SarHeld
<1> HIDE DEF x
<1>5. op \notin Rotations
    BY DEF Rotations
<1> QED BY <1>1, <1>3, <1>4, <1>5, Zenon DEF Counted, FirstStep

\* A count of 0 leaves the flags, OF excepted.
LEMMA ZeroCounts ==
  ASSUME SInv, op \in Shifts, n = 0
  PROVE  AtOnce.f = given.f \ (IF op \in Rotations \cup {"sar"} THEN {} ELSE {"OF"})
<1>1. w \in Nat /\ w > 0
    BY WidthPowers DEF SInv, ShiftHeld
<1>2. 0 % w = 0 /\ 0 % (w + 1) = 0 /\ ~ (0 >= w)
    BY <1>1
<1>3. given.f \ {} = given.f
    OBVIOUS
<1>4. CASE op \in {"rol", "ror"}
    BY <1>3, <1>4 DEF AtOnce, Shift, rol, ror, Rotations
<1>5. CASE op \in {"rcl", "rcr"}
    BY <1>2, <1>3, <1>5 DEF AtOnce, Shift, rcl, rcr, Rotations
<1>6. CASE op = "sar"
    BY <1>2, <1>3, <1>6 DEF AtOnce, Shift, sar, Rotations
<1>7. CASE op \in {"shl", "shr", "shld", "shrd"}
    BY <1>2, <1>7 DEF AtOnce, Shift, shl, shr, shld, shrd, Rotations
<1> QED BY <1>4, <1>5, <1>6, <1>7 DEF Shifts, Rotations, Doubles

LEMMA SInvCounts == SInv => CountIsSteps
<1> SUFFICES ASSUME SInv, op \in Shifts PROVE CountIsSteps
    BY DEF CountIsSteps
<1>1. \/ op = "rol" \/ op = "ror" \/ op = "rcl" \/ op = "rcr" \/ op \in {"shl", "shld"}
      \/ op \in {"shr", "shrd"} \/ op = "sar"
    BY DEF Shifts, Rotations, Doubles
<1>2. Counted
    BY <1>1, RolCounts, RorCounts, RclCounts, RcrCounts, LeftCounts, RightCounts, SarCounts
<1>3. (("CF" \in AtOnce.f) <=> ("CF" \in f)) => (("CF" \in AtOnce.f) = ("CF" \in f))
    OBVIOUS
<1>4. n = 0 => AtOnce.f = given.f \ (IF op \in Rotations \cup {"sar"} THEN {} ELSE {"OF"})
    BY ZeroCounts
<1> QED BY <1>2, <1>3, <1>4, Zenon DEF Counted, CountIsSteps

\* A count at once leaves what so many steps by one leave, the flags too, and a
\* rotation is undone by the opposite one, at every width and count of the
\* program (rol_*, ror_*, rcl_*, rcr_*, shl_*, shr_*, sar_*, shld_*, shrd_*).
THEOREM CountIsStepsHolds == Spec => []CountIsSteps
<1>1. Init => SInv
    BY SInvInit
<1>2. SInv /\ [Next]_vars => SInv'
    BY SInvStep
<1>3. SInv => CountIsSteps
    BY SInvCounts
<1> QED BY <1>1, <1>2, <1>3, PTL DEF Spec
=============================================================================
