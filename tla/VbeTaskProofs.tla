--------------------------- MODULE VbeTaskProofs ---------------------------
(***************************************************************************)
(* Proofs about VbeTask, for every size of the buffer and every block the  *)
(* BIOS may leave: the two variables that lead the copies, fsize and cbuf, *)
(* agree about where the buffer ends (RoomEnds); the kernel finds the mode *)
(* list and the strings of the BIOS where v86_task says they are, however  *)
(* it mixes what it copies with what it leaves (ModesDelivered and         *)
(* StringsDelivered); and what lies behind the buffer keeps its value, but *)
(* for a NUL in its first byte (BehindUntouched).                          *)
(***************************************************************************)
EXTENDS VbeTask, TLAPS

\* RoomEnds by itself is not inductive for want of the types.
IInv ==
  /\ fsize \in Nat
  /\ cbuf \in Nat
  /\ RoomEnds

\* Using up n bytes moves both variables alike, or leaves no room.
LEMMA TakeKeeps ==
  ASSUME NEW n \in Nat, IInv, Take(n)
  PROVE  IInv'
<1> USE SizeAssumption
<1>1. fsize' = Clamp(fsize - n) /\ cbuf' = cbuf + n
  BY DEF Take
<1>2. fsize - n \in Int /\ fsize' \in Nat /\ cbuf' \in Nat
  BY <1>1 DEF IInv, Clamp
<1>3. ASSUME fsize' > 0 PROVE cbuf' + fsize' = SIZE
  <2>1. fsize' = fsize - n /\ fsize > 0
    BY <1>1, <1>2, <1>3 DEF IInv, Clamp
  <2>2. cbuf + fsize = SIZE
    BY <2>1 DEF IInv, RoomEnds
  <2>3. QED
    BY <1>1, <2>1, <2>2 DEF IInv
<1>4. QED
  BY <1>2, <1>3 DEF IInv, RoomEnds

\* The invariant holds when the conversion begins.
LEMMA InitInvariant == Init => IInv
  BY SizeAssumption DEF Init, IInv, RoomEnds

\* Every branch for every pointer keeps it.
LEMMA StepInvariant == IInv /\ [Next]_vars => IInv'
<1> SUFFICES ASSUME IInv, [Next]_vars PROVE IInv'
  OBVIOUS
<1> USE SizeAssumption
<1>1. CASE ModesInBuffer
  <2>1. PICK n \in 0 .. fsize : Take(2 * n + 2)
    BY <1>1 DEF ModesInBuffer
  <2>2. 2 * n + 2 \in Nat
    BY DEF IInv
  <2>3. QED
    BY <2>1, <2>2, TakeKeeps
<1>2. CASE ModesInRom
  <2>1. PICK n \in 0 .. fsize : Take(2 * n + 2)
    BY <1>2 DEF ModesInRom
  <2>2. 2 * n + 2 \in Nat
    BY DEF IInv
  <2>3. QED
    BY <2>1, <2>2, TakeKeeps
<1>3. CASE ModesLost
  BY <1>3 DEF ModesLost, IInv, RoomEnds
<1>4. ASSUME NEW s \in Strings, StringInBuffer(s) PROVE IInv'
  <2>1. PICK l \in 0 .. SIZE - Offset(s) : Take(l)
    BY <1>4 DEF StringInBuffer
  <2>2. l \in Nat
    OBVIOUS
  <2>3. QED
    BY <2>1, <2>2, TakeKeeps
<1>5. ASSUME NEW s \in Strings, StringInRom(s) PROVE IInv'
  <2>1. PICK l \in 0 .. fsize : Take(Step(l))
    BY <1>5 DEF StringInRom
  <2>2. Step(l) \in Nat
    BY DEF IInv, Step
  <2>3. QED
    BY <2>1, <2>2, TakeKeeps
<1>6. ASSUME NEW s \in Strings, StringLost(s) PROVE IInv'
  BY <1>6 DEF StringLost, Clamp, IInv, RoomEnds
<1>7. CASE GoesWild
  BY <1>7 DEF GoesWild, IInv, RoomEnds
<1>8. CASE UNCHANGED vars
  BY <1>8 DEF vars, IInv, RoomEnds
<1>9. QED
  BY <1>1, <1>2, <1>3, <1>4, <1>5, <1>6, <1>7, <1>8 DEF Next

\* As long as v86_task has room left, it ends where the buffer ends, so that a
\* ROM string is copied to the offset that its pointer is set to.
THEOREM RoomEndsHolds == Spec => []RoomEnds
<1>1. IInv => RoomEnds
  BY DEF IInv
<1>2. QED
  BY InitInvariant, StepInvariant, <1>1, PTL DEF Spec

-----------------------------------------------------------------------------
(***************************************************************************)
(* The bytes of items, and where the BIOS left them.                       *)
(***************************************************************************)
\* A mode is two equal bytes, and a list of len modes ends with END.
LEMMA ModeBytes ==
  ASSUME block["modes"].len \in Nat, NEW k \in 0 .. block["modes"].len
  PROVE  LET word == IF k < block["modes"].len THEN <<"modes", k>> ELSE END
         IN  Byte("modes", 2 * k) = word /\ Byte("modes", 2 * k + 1) = word
<1>1. (2 * k) \div 2 = k /\ (2 * k + 1) \div 2 = k
  OBVIOUS
<1>2. \/ k < block["modes"].len /\ 2 * k < 2 * block["modes"].len /\ 2 * k + 1 < 2 * block["modes"].len
      \/ ~ (k < block["modes"].len) /\ ~ (2 * k < 2 * block["modes"].len)
           /\ ~ (2 * k + 1 < 2 * block["modes"].len)
  OBVIOUS
<1>3. QED
  BY <1>1, <1>2 DEF Byte

\* No mode is the end mark,
LEMMA ModeIsNotEnd == \A k : <<"modes", k>> # END
BY DEF END

\* and a string has a NUL behind its characters and nowhere else.
LEMMA StringBytes ==
  ASSUME NEW s \in Strings, block[s].len \in Nat, NEW k \in 0 .. block[s].len
  PROVE  Byte(s, k) = NUL <=> k = block[s].len
<1>1. s # "modes" /\ s # "nul"
  BY DEF Strings
<1>2. <<s, k>> # NUL
  BY <1>1 DEF NUL
<1>3. QED
  BY <1>1, <1>2 DEF Byte

\* The parts of a far pointer are natural numbers.
LEMMA PointerType == ASSUME NEW p \in Pointer PROVE p.seg \in Nat /\ p.off \in Nat /\ p.len \in Nat
<1>1. p.seg \in U16 /\ p.off \in U16 /\ p.len \in Nat
  BY DEF Pointer
<1>2. \A x \in U16 : x \in Nat
  BY DEF U16
<1>3. QED
  BY <1>1, <1>2

\* An item that the code takes for being in the buffer is in the original block,
\* behind its signature, or below the buffer altogether.
LEMMA Laid ==
  ASSUME block \in Blocks, NEW i \in Items
  PROVE  /\ block[i].len \in Nat /\ Offset(i) \in Int /\ Bytes(i) \in Nat \ {0}
         /\ InBuffer(i) <=> Offset(i) < SIZE
         /\ Wild(i) <=> Offset(i) < 0
         /\ InBuffer(i) /\ ~ Wild(i) => 0 < Offset(i) /\ Offset(i) + Bytes(i) <= HALF
         /\ Wild(i) => Offset(i) + Bytes(i) <= 0
<1>1. block[i] \in Pointer
  BY BlocksAssumption
<1>2. block[i].seg \in Nat /\ block[i].off \in Nat /\ block[i].len \in Nat
  BY <1>1, PointerType
<1>3. addr(i) \in Nat /\ Offset(i) \in Int /\ Bytes(i) \in Nat \ {0}
  BY <1>2, AddressAssumption DEF addr, Linear, Offset, Bytes, Length
<1>4. InBuffer(i) <=> Offset(i) < SIZE
  BY <1>3, AddressAssumption, SizeAssumption DEF InBuffer, bufend, Offset
<1>5. Wild(i) <=> Offset(i) < 0
  BY <1>3, <1>4, SizeAssumption DEF Wild
<1>6. Offset(i) < SIZE =>
        (0 < Offset(i) /\ Offset(i) + Bytes(i) <= HALF) \/ Offset(i) + Bytes(i) <= 0
  BY LayoutAssumption DEF Offset, addr, Bytes
<1>7. QED
  BY <1>2, <1>3, <1>4, <1>5, <1>6, SizeAssumption

\* No byte of the buffer belongs to two items.
LEMMA LaidApart ==
  ASSUME block \in Blocks, NEW i \in Items, NEW j \in Items, InBuffer(i), InBuffer(j),
         NEW o \in Nat, Covers(i, o), Covers(j, o)
  PROVE  i = j
<1>1. /\ Offset(i) \in Int /\ Bytes(i) \in Nat \ {0}
      /\ Offset(j) \in Int /\ Bytes(j) \in Nat \ {0}
  BY Laid
<1>2. /\ 0 < Offset(i) /\ Offset(i) + Bytes(i) <= HALF
      /\ 0 < Offset(j) /\ Offset(j) + Bytes(j) <= HALF
  BY <1>1, Laid DEF Covers
<1>3. i # j => Offset(i) + Bytes(i) <= Offset(j) \/ Offset(j) + Bytes(j) <= Offset(i)
  <2>1. i # j /\ 0 < Offset(i) /\ Offset(i) < HALF /\ 0 < Offset(j) /\ Offset(j) < HALF =>
          Offset(i) + Bytes(i) <= Offset(j) \/ Offset(j) + Bytes(j) <= Offset(i)
    BY LayoutAssumption DEF Offset, addr, Bytes
  <2>2. QED
    BY <1>1, <1>2, <2>1, SizeAssumption
<1>4. QED
  BY <1>1, <1>3 DEF Covers

-----------------------------------------------------------------------------
(***************************************************************************)
(* What was delivered lies below cbuf, and all copies go to cbuf and       *)
(* above; what was not converted yet lies in the original block, below any *)
(* copy, as the BIOS left it.                                              *)
(***************************************************************************)
\* The first n modes are in f from p on, below c, and are all that fit.
GotModes(f, c, p, n) ==
  /\ n \in 0 .. block["modes"].len
  /\ p + 2 * n + 2 <= c /\ p + 2 * n + 2 <= SIZE
  /\ \A k \in 0 .. 2 * n - 1 : f[p + k] = Byte("modes", k)
  /\ f[p + 2 * n] = END /\ f[p + 2 * n + 1] = END
  /\ n = block["modes"].len \/ HALF + 2 * n + 2 >= SIZE

\* The first n characters of s are in f from p on, below c: all of them with a
\* NUL, or as many as fit.
GotString(f, c, s, p, n) ==
  /\ n \in 0 .. block[s].len
  /\ \A k \in 0 .. n - 1 : f[p + k] = Byte(s, k)
  /\ \/ n = block[s].len /\ p + n < SIZE /\ p + n + 1 <= c /\ f[p + n] = NUL
     \/ p + n = SIZE /\ SIZE <= c

Typed ==
  /\ block \in Blocks /\ at \in Items \cup {"done", "wild"}
  /\ DOMAIN buf = 0 .. 2 * SIZE /\ ptr \in [Items -> Nat]
  /\ fsize \in 0 .. SIZE - HALF /\ cbuf \in Nat /\ cbuf >= HALF
  /\ cbuf + fsize >= SIZE /\ (fsize > 0 => cbuf + fsize = SIZE)
  /\ at = "modes" => fsize = SIZE - HALF

\* Items still to be converted have no pointer yet and lie where the BIOS left
\* them.
Untouched ==
  \A i \in Items : at # "wild" /\ Rank[at] <= Rank[i] =>
    /\ ptr[i] = 0
    /\ InBuffer(i) => \A o \in 0 .. SIZE : Covers(i, o) => buf[o] = Byte(i, o - Offset(i))

ModesThere ==
  at # "wild" /\ 0 < Rank[at] /\ ptr["modes"] # 0 =>
    \E n \in Nat : GotModes(buf, cbuf, ptr["modes"], n)

StringsThere ==
  \A s \in Strings : at # "wild" /\ Rank[s] < Rank[at] =>
    IF ptr[s] = 0 THEN ~ InBuffer(s) /\ (InRom(s) => cbuf >= SIZE)
    ELSE \E n \in Nat : GotString(buf, cbuf, s, ptr[s], n)

DInv == Typed /\ Untouched /\ ModesThere /\ StringsThere /\ BehindUntouched

\* The conversion of modes stops at the end of the list or where the room does,
\* with room for the end mark: the room is even.
LEMMA ModesStop ==
  ASSUME Typed, at = "modes", NEW words, NEW n \in 0 .. fsize, StopsAfter(words, n),
         \A k \in 0 .. block["modes"].len : k <= n => words[k] = Byte("modes", 2 * k)
  PROVE  /\ n \in 0 .. block["modes"].len /\ 2 * n + 2 <= SIZE - HALF
         /\ n = block["modes"].len \/ HALF + 2 * n + 2 >= SIZE
<1> DEFINE len == block["modes"].len
<1>1. len \in Nat /\ fsize = SIZE - HALF /\ n \in Nat
  BY Laid DEF Typed, Items
<1>6. /\ \A k \in 0 .. len - 1 : k <= n => words[k] = <<"modes", k>>
      /\ len <= n => words[len] = END
  <2>1. ASSUME NEW k \in 0 .. len - 1, k <= n PROVE words[k] = <<"modes", k>>
    <3>1. k \in 0 .. len /\ k < len
      BY <1>1
    <3>2. QED
      BY <1>1, <2>1, <3>1, ModeBytes
  <2>2. ASSUME len <= n PROVE words[len] = END
    <3>1. len \in 0 .. len /\ ~ (len < len)
      BY <1>1
    <3>2. QED
      BY <1>1, <2>2, <3>1, ModeBytes
  <2>3. QED
    BY <2>1, <2>2
<1> HIDE DEF len
<1>2. n <= len
  <2>1. ~ (len < n)
    <3> SUFFICES ASSUME len < n PROVE FALSE
      OBVIOUS
    <3>1. words[len] # END
      BY <1>1 DEF StopsAfter
    <3>2. words[len] = END
      BY <1>1, <1>6
    <3>3. QED
      BY <3>1, <3>2
  <2>2. QED
    BY <1>1, <2>1
<1>3. n = len \/ HALF + 2 * n + 2 >= SIZE
  <2>1. CASE words[n] = END
    <3>1. ASSUME n < len PROVE FALSE
      <4>1. n \in 0 .. len - 1 /\ n <= n
        BY <1>1, <3>1
      <4>2. words[n] = <<"modes", n>>
        BY <1>6, <4>1
      <4>3. QED
        BY <2>1, <4>2, ModeIsNotEnd
    <3>2. QED
      BY <1>1, <1>2, <3>1
  <2>2. CASE ~ (fsize - 2 * n > 2)
    BY <1>1, <2>2, SizeAssumption
  <2>3. QED
    BY <2>1, <2>2 DEF StopsAfter, ModesRoom
<1>4. 2 * n + 2 <= SIZE - HALF
  <2>1. CASE n = 0
    BY <2>1, SizeAssumption
  <2>2. CASE n >= 1
    <3>1. fsize - 2 * (n - 1) > 2
      BY <1>1, <2>2 DEF StopsAfter, ModesRoom
    <3>2. fsize % 2 = 0
      BY <1>1, SizeAssumption
    <3>3. QED
      BY <1>1, <2>2, <3>1, <3>2, SizeAssumption
  <2>3. QED
    BY <1>1, <2>1, <2>2
<1>5. QED
  BY <1>1, <1>2, <1>3, <1>4 DEF len

\* A string stops at its NUL or where the room does.
LEMMA StringStops ==
  ASSUME block \in Blocks, NEW s \in Strings, NEW max \in Nat, NEW chars, NEW l,
         strnlen(chars, max, l),
         \A k \in 0 .. block[s].len : k <= max => chars[k] = Byte(s, k)
  PROVE  l = IF block[s].len <= max THEN block[s].len ELSE max
<1> DEFINE len == block[s].len
<1>1. len \in Nat /\ l \in 0 .. max
  BY Laid DEF Items, strnlen
<1>2. \A k \in 0 .. len : k <= max => (chars[k] = NUL <=> k = len)
  BY <1>1, StringBytes
<1>3. (l = max \/ chars[l] = NUL) /\ \A k \in 0 .. l - 1 : chars[k] # NUL
  BY DEF strnlen
<1>4. l <= len
  BY <1>1, <1>2, <1>3
<1>5. QED
  BY <1>1, <1>2, <1>3, <1>4

\* What was delivered is still there after a copy to cbuf and above.
LEMMA Persists ==
  ASSUME Typed, NEW f, NEW c \in Nat, cbuf <= c, NEW p \in Nat,
         \A o \in 0 .. SIZE - 1 : o < cbuf => f[o] = buf[o]
  PROVE  /\ \A n \in Nat : GotModes(buf, cbuf, p, n) => GotModes(f, c, p, n)
         /\ \A s \in Strings, n \in Nat : GotString(buf, cbuf, s, p, n) => GotString(f, c, s, p, n)
<1>1. cbuf \in Nat /\ SIZE \in Nat
  BY SizeAssumption DEF Typed
<1>2. ASSUME NEW n \in Nat, GotModes(buf, cbuf, p, n) PROVE GotModes(f, c, p, n)
  BY <1>1, <1>2 DEF GotModes
<1>3. ASSUME NEW s \in Strings, NEW n \in Nat, GotString(buf, cbuf, s, p, n)
      PROVE  GotString(f, c, s, p, n)
  <2>1. p + n <= SIZE /\ p + n <= cbuf
    BY <1>1, <1>3 DEF GotString
  <2>2. \A k \in 0 .. n - 1 : f[p + k] = buf[p + k]
    BY <1>1, <2>1
  <2>3. p + n < SIZE /\ p + n + 1 <= cbuf => f[p + n] = buf[p + n]
    BY <1>1
  <2>4. QED
    BY <1>1, <1>3, <2>2, <2>3 DEF GotString
<1>4. QED
  BY <1>2, <1>3

\* What is covered lies in the original block, below every copy.
LEMMA CoveredLow ==
  ASSUME block \in Blocks, NEW i \in Items, InBuffer(i), NEW o \in Nat, Covers(i, o)
  PROVE  o < HALF /\ ~ Wild(i)
<1>1. Offset(i) \in Int /\ Bytes(i) \in Nat
  BY Laid
<1>2. ~ Wild(i)
  <2>1. Wild(i) => Offset(i) + Bytes(i) <= 0
    BY Laid
  <2>2. QED
    BY <1>1, <2>1 DEF Covers
<1>3. Offset(i) + Bytes(i) <= HALF
  BY <1>2, Laid
<1>4. QED
  BY <1>1, <1>2, <1>3, SizeAssumption DEF Covers

\* The items are converted one after the other.
LEMMA Ranks ==
  /\ \A i \in Items : Rank[i] \in Nat /\ Order[i] \in (Items \ {"modes"}) \cup {"done"}
                      /\ Rank[Order[i]] = Rank[i] + 1
  /\ \A i, j \in Items : Rank[i] = Rank[j] => i = j
  /\ Rank["modes"] = 0 /\ \A s \in Strings : Rank[s] > 0
BY DEF Items, Strings, Rank, Order

\* The bytes of items are the same after a step, which leaves block alone.
LEMMA NextState ==
  ASSUME block' = block
  PROVE  /\ (\A i \in Items : at' # "wild" /\ Rank[at'] <= Rank[i] =>
               /\ ptr'[i] = 0
               /\ InBuffer(i) =>
                    \A o \in 0 .. SIZE : Covers(i, o) => buf'[o] = Byte(i, o - Offset(i)))
            => Untouched'
         /\ (at' # "wild" /\ 0 < Rank[at'] /\ ptr'["modes"] # 0 =>
               \E n \in Nat : GotModes(buf', cbuf', ptr'["modes"], n))
            => ModesThere'
         /\ (\A s \in Strings : at' # "wild" /\ Rank[s] < Rank[at'] =>
               IF ptr'[s] = 0 THEN ~ InBuffer(s) /\ (InRom(s) => cbuf' >= SIZE)
               ELSE \E n \in Nat : GotString(buf', cbuf', s, ptr'[s], n))
            => StringsThere'
<1>1. (\A i \in Items : at' # "wild" /\ Rank[at'] <= Rank[i] =>
         /\ ptr'[i] = 0
         /\ InBuffer(i) =>
              \A o \in 0 .. SIZE : Covers(i, o) => buf'[o] = Byte(i, o - Offset(i)))
      => Untouched'
  BY DEF Untouched, InBuffer, Covers, Byte, Offset, Bytes, addr
<1>2. (at' # "wild" /\ 0 < Rank[at'] /\ ptr'["modes"] # 0 =>
         \E n \in Nat : GotModes(buf', cbuf', ptr'["modes"], n))
      => ModesThere'
  BY DEF ModesThere, GotModes, Byte
<1>3. (\A s \in Strings : at' # "wild" /\ Rank[s] < Rank[at'] =>
         IF ptr'[s] = 0 THEN ~ InBuffer(s) /\ (InRom(s) => cbuf' >= SIZE)
         ELSE \E n \in Nat : GotString(buf', cbuf', s, ptr'[s], n))
      => StringsThere'
  BY DEF StringsThere, GotString, Byte, InBuffer, InRom, addr
<1>4. QED
  BY <1>1, <1>2, <1>3

\* One item converted, q its new pointer or 0: the invariant holds again if the
\* step delivers this item and disturbs no other.
LEMMA Advances ==
  ASSUME DInv, at \in Items, at' = Order[at], block' = block,
         NEW q \in Nat, ptr' = [ptr EXCEPT ![at] = q],
         fsize' \in 0 .. SIZE - HALF, cbuf' \in Nat, cbuf' >= cbuf,
         cbuf' + fsize' >= SIZE, fsize' > 0 => cbuf' + fsize' = SIZE,
         DOMAIN buf' = 0 .. 2 * SIZE, BehindUntouched',
         \A i \in Items : Rank[at] < Rank[i] /\ InBuffer(i) =>
           \A o \in 0 .. SIZE : Covers(i, o) => buf'[o] = buf[o],
         at # "modes" => \A o \in 0 .. SIZE - 1 : o < cbuf => buf'[o] = buf[o],
         at = "modes" /\ q # 0 => \E n \in Nat : GotModes(buf', cbuf', q, n),
         at \in Strings =>
           IF q = 0 THEN ~ InBuffer(at) /\ (InRom(at) => cbuf' >= SIZE)
           ELSE \E n \in Nat : GotString(buf', cbuf', at, q, n)
  PROVE  DInv'
<1>1. /\ Typed /\ Untouched /\ ModesThere /\ StringsThere /\ at # "wild"
      /\ cbuf \in Nat /\ ptr \in [Items -> Nat]
  BY DEF DInv, Typed, Items, Strings
<1>2. /\ at' \in Items \cup {"done", "wild"} /\ at' # "modes" /\ at' # "wild"
      /\ Rank[at'] = Rank[at] + 1 /\ Rank[at] \in Nat
  <2>1. Order[at] # "wild" /\ Order[at] # "modes"
    BY Ranks DEF Items, Strings
  <2>2. QED
    BY <2>1, Ranks
<1>3. Typed'
  <2>1. ptr' \in [Items -> Nat]
    BY <1>1
  <2>2. block' \in Blocks /\ cbuf' >= HALF
    BY <1>1, SizeAssumption DEF Typed
  <2>3. QED
    BY <1>2, <2>1, <2>2 DEF Typed
<1>4. ptr'[at] = q /\ \A i \in Items : i # at => ptr'[i] = ptr[i]
  BY <1>1
<1>5. \A i \in Items : Rank[i] \in Nat /\ (Rank[at] + 1 <= Rank[i] => Rank[at] < Rank[i] /\ i # at)
  BY <1>2, Ranks
<1>6. Untouched'
  <2> SUFFICES ASSUME NEW i \in Items, Rank[at'] <= Rank[i]
               PROVE  /\ ptr'[i] = 0
                      /\ InBuffer(i) =>
                           \A o \in 0 .. SIZE : Covers(i, o) => buf'[o] = Byte(i, o - Offset(i))
    BY NextState
  <2>1. Rank[at] < Rank[i] /\ i # at /\ Rank[at] <= Rank[i]
    BY <1>2, <1>5
  <2>2. ptr[i] = 0 /\ (InBuffer(i) =>
          \A o \in 0 .. SIZE : Covers(i, o) => buf[o] = Byte(i, o - Offset(i)))
    BY <1>1, <2>1 DEF Untouched
  <2>3. InBuffer(i) => \A o \in 0 .. SIZE : Covers(i, o) => buf'[o] = buf[o]
    BY <2>1
  <2>4. QED
    BY <1>4, <2>1, <2>2, <2>3
<1>7. ModesThere'
  <2> SUFFICES ASSUME ptr'["modes"] # 0
               PROVE  \E n \in Nat : GotModes(buf', cbuf', ptr'["modes"], n)
    BY NextState
  <2>1. CASE at = "modes"
    BY <1>4, <2>1
  <2>2. CASE at # "modes"
    <3>1. "modes" \in Items /\ ptr'["modes"] = ptr["modes"] /\ ptr["modes"] \in Nat
      BY <1>1, <1>4, <2>2 DEF Items
    <3>2. 0 < Rank[at]
      BY <1>2, <2>2, <3>1, Ranks
    <3>3. PICK n \in Nat : GotModes(buf, cbuf, ptr["modes"], n)
      BY <1>1, <3>1, <3>2 DEF ModesThere
    <3>4. GotModes(buf', cbuf', ptr["modes"], n)
      BY <1>1, <2>2, <3>1, <3>3, Persists
    <3>5. QED
      BY <3>1, <3>4
  <2>3. QED
    BY <2>1, <2>2
<1>8. StringsThere'
  <2> SUFFICES ASSUME NEW s \in Strings, Rank[s] < Rank[at']
               PROVE  IF ptr'[s] = 0 THEN ~ InBuffer(s) /\ (InRom(s) => cbuf' >= SIZE)
                      ELSE \E n \in Nat : GotString(buf', cbuf', s, ptr'[s], n)
    BY NextState
  <2>1. CASE at = s
    BY <1>4, <2>1
  <2>2. CASE at # s
    <3>1. s \in Items /\ ptr'[s] = ptr[s] /\ ptr[s] \in Nat
      BY <1>1, <1>4, <2>2 DEF Items
    <3>2. Rank[s] < Rank[at] /\ at # "modes"
      <4>1. Rank[s] \in Nat /\ Rank[s] # Rank[at] /\ Rank[s] > 0 /\ Rank["modes"] = 0
        BY <2>2, <3>1, Ranks
      <4>2. QED
        BY <1>2, <4>1
    <3>3. CASE ptr[s] = 0
      BY <1>1, <3>1, <3>2, <3>3, SizeAssumption DEF StringsThere
    <3>4. CASE ptr[s] # 0
      <4>1. PICK n \in Nat : GotString(buf, cbuf, s, ptr[s], n)
        BY <1>1, <3>2, <3>4 DEF StringsThere
      <4>2. GotString(buf', cbuf', s, ptr[s], n)
        BY <1>1, <3>1, <3>2, <4>1, Persists
      <4>3. QED
        BY <3>1, <3>4, <4>2
    <3>5. QED
      BY <3>3, <3>4
  <2>3. QED
    BY <2>1, <2>2
<1>9. QED
  BY <1>3, <1>6, <1>7, <1>8 DEF DInv

-----------------------------------------------------------------------------
(***************************************************************************)
(* What the BIOS left is intact at first, and each action delivers one     *)
(* item.                                                                   *)
(***************************************************************************)
\* The invariant holds when the conversion begins.
LEMMA DInvInit == Init => DInv
<1> SUFFICES ASSUME Init PROVE DInv
  OBVIOUS
<1>1. block \in Blocks /\ at = "modes" /\ fsize = SIZE - HALF /\ cbuf = HALF
      /\ ptr = [i \in Items |-> 0]
  BY DEF Init
<1>2. Rank[at] = 0 /\ at \in Items
  BY <1>1, Ranks DEF Items
<1> DEFINE here == {i \in Items : InBuffer(i)}
<1>3. buf = [o \in 0 .. 2 * SIZE |->
               IF \E i \in here : Covers(i, o)
                 THEN LET i == CHOOSE i \in here : Covers(i, o) IN Byte(i, o - Offset(i))
                 ELSE OTHER_BYTE]
  BY DEF Init
<1>4. Typed
  BY <1>1, <1>2, <1>3, SizeAssumption DEF Typed
<1>5. Untouched
  <2> SUFFICES ASSUME NEW i \in Items, InBuffer(i), NEW o \in 0 .. SIZE, Covers(i, o)
               PROVE  buf[o] = Byte(i, o - Offset(i))
    BY <1>1 DEF Untouched
  <2> DEFINE j == CHOOSE j \in here : Covers(j, o)
  <2>1. i \in here /\ o \in 0 .. 2 * SIZE /\ o \in Nat
    BY SizeAssumption
  <2>2. j \in here /\ Covers(j, o)
    BY <2>1
  <2>3. buf[o] = Byte(j, o - Offset(j))
    BY <1>3, <2>1
  <2> HIDE DEF j
  <2>4. j = i
    BY <1>1, <2>1, <2>2, LaidApart
  <2>5. QED
    BY <2>3, <2>4
<1>6. ModesThere /\ StringsThere
  <2>1. \A s \in Strings : ~ (Rank[s] < Rank[at])
    <3> SUFFICES ASSUME NEW s \in Strings PROVE ~ (Rank[s] < Rank[at])
      OBVIOUS
    <3>1. s \in Items /\ Rank[s] \in Nat
      BY Ranks DEF Items
    <3>2. QED
      BY <1>2, <3>1
  <2>2. QED
    BY <1>2, <2>1 DEF ModesThere, StringsThere
<1>7. BehindUntouched
  <2>1. ASSUME NEW o \in SIZE .. 2 * SIZE PROVE buf[o] = OTHER_BYTE
    <3>1. o \in Nat /\ o >= HALF /\ o \in 0 .. 2 * SIZE
      BY SizeAssumption
    <3>2. ~ \E i \in here : Covers(i, o)
      BY <1>1, <3>1, CoveredLow, SizeAssumption
    <3>3. QED
      BY <1>3, <3>1, <3>2
  <2>2. QED
    BY <2>1, SizeAssumption DEF BehindUntouched
<1>8. QED
  BY <1>4, <1>5, <1>6, <1>7 DEF DInv

\* What a step that begins a conversion finds.
LEMMA Before ==
  ASSUME DInv, at \in Items
  PROVE  /\ block \in Blocks /\ block[at].len \in Nat /\ ptr \in [Items -> Nat] /\ ptr[at] = 0
         /\ DOMAIN buf = 0 .. 2 * SIZE
         /\ fsize \in 0 .. SIZE - HALF /\ fsize \in Nat /\ cbuf \in Nat /\ cbuf >= HALF
         /\ cbuf + fsize >= SIZE /\ (fsize > 0 => cbuf + fsize = SIZE)
         /\ \A o \in SIZE + 1 .. 2 * SIZE : buf[o] = OTHER_BYTE
         /\ buf[SIZE] \in {OTHER_BYTE, NUL}
         /\ InBuffer(at) => \A o \in 0 .. SIZE : Covers(at, o) => buf[o] = Byte(at, o - Offset(at))
<1>1. at # "wild" /\ Rank[at] \in Nat /\ Rank[at] <= Rank[at]
  BY Ranks DEF Items, Strings
<1>2. block \in Blocks /\ block[at].len \in Nat
  BY Laid DEF DInv, Typed
<1>3. QED
  BY <1>1, <1>2, SizeAssumption DEF DInv, Typed, Untouched, BehindUntouched

\* Room is used up on both sides, and never grows.
LEMMA Taken ==
  ASSUME fsize \in 0 .. SIZE - HALF, cbuf \in Nat,
         cbuf + fsize >= SIZE, fsize > 0 => cbuf + fsize = SIZE,
         NEW n \in Nat, Take(n)
  PROVE  /\ fsize' \in 0 .. SIZE - HALF /\ cbuf' = cbuf + n /\ cbuf' \in Nat /\ cbuf' >= cbuf
         /\ cbuf' + fsize' >= SIZE /\ (fsize' > 0 => cbuf' + fsize' = SIZE)
<1>1. fsize' = Clamp(fsize - n) /\ cbuf' = cbuf + n
  BY DEF Take
<1>2. fsize' = IF fsize - n < 0 THEN 0 ELSE fsize - n
  BY <1>1 DEF Clamp
<1>3. QED
  BY <1>1, <1>2, SizeAssumption

\* A list in the buffer stays where it is.
LEMMA ModesInBufferKeeps == DInv /\ ModesInBuffer => DInv'
<1> SUFFICES ASSUME DInv, ModesInBuffer PROVE DInv'
  OBVIOUS
<1> DEFINE len == block["modes"].len
           q == Offset("modes")
           words == [k \in 0 .. fsize |->
                       IF buf[q + 2 * k] = buf[q + 2 * k + 1] THEN buf[q + 2 * k]
                       ELSE OTHER_BYTE]
<1>1. at = "modes" /\ InBuffer("modes") /\ ~ Wild("modes") /\ at \in Items /\ "modes" \in Items
  BY DEF ModesInBuffer, Items
<1>2. PICK n \in 0 .. fsize :
        /\ StopsAfter(words, n)
        /\ buf' = [buf EXCEPT ![q + 2 * n] = END, ![q + 2 * n + 1] = END]
        /\ ptr' = [ptr EXCEPT !["modes"] = q]
        /\ Take(2 * n + 2)
  BY DEF ModesInBuffer
<1>3. at' = Order[at] /\ block' = block
  BY DEF ModesInBuffer
<1>4. /\ block \in Blocks /\ len \in Nat /\ DOMAIN buf = 0 .. 2 * SIZE
      /\ fsize = SIZE - HALF /\ fsize \in Nat /\ cbuf \in Nat /\ cbuf >= HALF
      /\ cbuf + fsize >= SIZE /\ (fsize > 0 => cbuf + fsize = SIZE)
      /\ \A o \in 0 .. SIZE : Covers("modes", o) => buf[o] = Byte("modes", o - q)
  BY <1>1, Before DEF DInv, Typed
<1>5. q \in Nat /\ 0 < q /\ q + 2 * len + 2 <= HALF
  BY <1>1, <1>4, Laid DEF Bytes, Length
<1>18. Offset("modes") = q /\ Bytes("modes") = 2 * len + 2
  BY DEF Bytes, Length
<1>19. len = block["modes"].len
  OBVIOUS
<1> HIDE DEF q, len
<1>20. ASSUME NEW k \in 0 .. 2 * len + 1 PROVE q + k \in 0 .. SIZE /\ Covers("modes", q + k)
  BY <1>4, <1>5, <1>18, SizeAssumption DEF Covers
<1>6. ASSUME NEW k \in 0 .. 2 * len + 1
      PROVE  q + k \in 0 .. SIZE /\ buf[q + k] = Byte("modes", k)
  <2>1. (q + k) - q = k
    BY <1>4, <1>5
  <2>2. QED
    BY <1>4, <1>20, <2>1
<1>7. ASSUME NEW k \in 0 .. len, k <= n
      PROVE  words[k] = Byte("modes", 2 * k)
  <2>1. 2 * k \in 0 .. 2 * len + 1 /\ 2 * k + 1 \in 0 .. 2 * len + 1 /\ k \in 0 .. fsize
        /\ q + 2 * k + 1 = q + (2 * k + 1)
    BY <1>4, <1>5, <1>7
  <2>2. buf[q + 2 * k] = Byte("modes", 2 * k) /\ buf[q + 2 * k + 1] = Byte("modes", 2 * k + 1)
    BY <1>6, <2>1
  <2>3. Byte("modes", 2 * k) = Byte("modes", 2 * k + 1)
    BY <1>4, <1>19, ModeBytes
  <2>4. words[k] = IF buf[q + 2 * k] = buf[q + 2 * k + 1] THEN buf[q + 2 * k] ELSE OTHER_BYTE
    BY <2>1
  <2>5. QED
    BY <2>2, <2>3, <2>4
<1> HIDE DEF words
<1>8. /\ n \in 0 .. len /\ 2 * n + 2 <= SIZE - HALF
      /\ n = len \/ HALF + 2 * n + 2 >= SIZE
  <2>1. Typed
    BY DEF DInv
  <2>2. \A k \in 0 .. block["modes"].len : k <= n => words[k] = Byte("modes", 2 * k)
    BY <1>7, <1>19
  <2>3. QED
    BY <1>1, <1>2, <1>19, <2>1, <2>2, ModesStop
<1>9. /\ fsize' \in 0 .. SIZE - HALF /\ cbuf' = cbuf + (2 * n + 2) /\ cbuf' \in Nat /\ cbuf' >= cbuf
      /\ cbuf' + fsize' >= SIZE /\ (fsize' > 0 => cbuf' + fsize' = SIZE)
  <2>1. 2 * n + 2 \in Nat /\ fsize \in 0 .. SIZE - HALF
    BY <1>4, <1>8, SizeAssumption
  <2>2. QED
    BY <1>2, <1>4, <2>1, Taken
<1>10. q + 2 * n \in 0 .. 2 * SIZE /\ q + 2 * n + 1 \in 0 .. 2 * SIZE
       /\ q + 2 * n + 1 < HALF
  BY <1>4, <1>5, <1>8, SizeAssumption
<1>11. /\ DOMAIN buf' = 0 .. 2 * SIZE
       /\ buf'[q + 2 * n] = END /\ buf'[q + 2 * n + 1] = END
       /\ \A o \in 0 .. 2 * SIZE : o # q + 2 * n /\ o # q + 2 * n + 1 => buf'[o] = buf[o]
  BY <1>2, <1>4, <1>5, <1>10
<1>12. BehindUntouched'
  <2>1. \A o \in SIZE .. 2 * SIZE : buf'[o] = buf[o]
    BY <1>10, <1>11, SizeAssumption
  <2>2. QED
    BY <1>1, <2>1, Before, SizeAssumption DEF BehindUntouched
<1>13. ASSUME NEW i \in Items, Rank[at] < Rank[i], InBuffer(i), NEW o \in 0 .. SIZE, Covers(i, o)
       PROVE  buf'[o] = buf[o]
  <2>1. i # "modes" /\ o \in Nat
    BY <1>1, <1>13, Ranks, SizeAssumption
  <2>2. ~ Covers("modes", o)
    BY <1>1, <1>4, <1>13, <2>1, LaidApart
  <2>3. Covers("modes", q + 2 * n) /\ Covers("modes", q + 2 * n + 1)
    <3>1. /\ 2 * n \in 0 .. 2 * len + 1 /\ 2 * n + 1 \in 0 .. 2 * len + 1
          /\ q + 2 * n + 1 = q + (2 * n + 1)
      BY <1>4, <1>5, <1>8
    <3>2. QED
      BY <1>20, <3>1
  <2>4. QED
    BY <1>11, <2>1, <2>2, <2>3, SizeAssumption
<1>14. GotModes(buf', cbuf', q, n)
  <2>1. q + 2 * n + 2 <= cbuf' /\ q + 2 * n + 2 <= SIZE
    BY <1>4, <1>5, <1>8, <1>9, SizeAssumption
  <2>2. ASSUME NEW k \in 0 .. 2 * n - 1 PROVE buf'[q + k] = Byte("modes", k)
    <3>1. k \in 0 .. 2 * len + 1 /\ q + k # q + 2 * n /\ q + k # q + 2 * n + 1
      BY <1>4, <1>5, <1>8
    <3>2. q + k \in 0 .. 2 * SIZE /\ buf[q + k] = Byte("modes", k)
      BY <1>6, <3>1, SizeAssumption
    <3>3. QED
      BY <1>11, <3>1, <3>2
  <2>3. QED
    BY <1>8, <1>11, <2>1, <2>2 DEF GotModes, len
<1>15. n \in Nat /\ at \notin Strings
  BY <1>1, <1>8 DEF Strings
<1>16. ptr' = [ptr EXCEPT ![at] = q]
  BY <1>1, <1>2
<1>17. QED
  BY <1>1, <1>3, <1>5, <1>9, <1>11, <1>12, <1>13, <1>14, <1>15, <1>16, Advances

\* A list in ROM is copied to the upper half.
LEMMA ModesInRomKeeps == DInv /\ ModesInRom => DInv'
<1> SUFFICES ASSUME DInv, ModesInRom PROVE DInv'
  OBVIOUS
<1> DEFINE len == block["modes"].len
           words == [k \in 0 .. fsize |-> Byte("modes", 2 * k)]
<1>1. at = "modes" /\ ~ InBuffer("modes") /\ at \in Items /\ "modes" \in Items
  BY DEF ModesInRom, Items
<1>2. PICK n \in 0 .. fsize :
        /\ StopsAfter(words, n)
        /\ buf' = [o \in DOMAIN buf |->
                     IF o \in cbuf .. cbuf + 2 * n - 1 THEN Byte("modes", o - cbuf)
                     ELSE IF o \in {cbuf + 2 * n, cbuf + 2 * n + 1} THEN END
                     ELSE buf[o]]
        /\ ptr' = [ptr EXCEPT !["modes"] = HALF]
        /\ Take(2 * n + 2)
  BY DEF ModesInRom
<1>3. at' = Order[at] /\ block' = block
  BY DEF ModesInRom
<1>4. /\ block \in Blocks /\ len \in Nat /\ DOMAIN buf = 0 .. 2 * SIZE
      /\ fsize = SIZE - HALF /\ fsize \in Nat /\ cbuf \in Nat /\ cbuf >= HALF
      /\ cbuf + fsize >= SIZE /\ (fsize > 0 => cbuf + fsize = SIZE)
  BY <1>1, Before DEF DInv, Typed
<1>5. cbuf = HALF
  BY <1>4, SizeAssumption
<1>6. /\ n \in 0 .. len /\ 2 * n + 2 <= SIZE - HALF
      /\ n = len \/ HALF + 2 * n + 2 >= SIZE
  <2>1. Typed
    BY DEF DInv
  <2>2. \A k \in 0 .. len : k <= n => words[k] = Byte("modes", 2 * k)
    BY <1>4
  <2>3. QED
    BY <1>1, <1>2, <2>1, <2>2, ModesStop
<1> HIDE DEF words, len
<1>7. /\ fsize' \in 0 .. SIZE - HALF /\ cbuf' = cbuf + (2 * n + 2) /\ cbuf' \in Nat /\ cbuf' >= cbuf
      /\ cbuf' + fsize' >= SIZE /\ (fsize' > 0 => cbuf' + fsize' = SIZE)
  <2>1. 2 * n + 2 \in Nat /\ fsize \in 0 .. SIZE - HALF
    BY <1>4, <1>6, SizeAssumption
  <2>2. QED
    BY <1>2, <1>4, <2>1, Taken
<1>8. n \in Nat /\ len \in Nat /\ HALF + 2 * n + 2 <= SIZE
  BY <1>4, <1>6, SizeAssumption
<1>9. DOMAIN buf' = 0 .. 2 * SIZE
  BY <1>2, <1>4
<1>10. ASSUME NEW k \in 0 .. 2 * n - 1 PROVE buf'[HALF + k] = Byte("modes", k)
  <2>1. /\ HALF + k \in DOMAIN buf /\ HALF + k \in cbuf .. cbuf + 2 * n - 1
        /\ (HALF + k) - cbuf = k
    BY <1>4, <1>5, <1>8, SizeAssumption
  <2>2. QED
    BY <1>2, <2>1
<1>11. buf'[HALF + 2 * n] = END /\ buf'[HALF + 2 * n + 1] = END
  <2>1. /\ HALF + 2 * n \in DOMAIN buf /\ HALF + 2 * n + 1 \in DOMAIN buf
        /\ HALF + 2 * n \notin cbuf .. cbuf + 2 * n - 1
        /\ HALF + 2 * n + 1 \notin cbuf .. cbuf + 2 * n - 1
    BY <1>4, <1>5, <1>8, SizeAssumption
  <2>2. QED
    BY <1>2, <1>5, <2>1
<1>12. ASSUME NEW o \in 0 .. 2 * SIZE, o < HALF \/ o >= SIZE PROVE buf'[o] = buf[o]
  <2>1. o \notin cbuf .. cbuf + 2 * n - 1 /\ o # cbuf + 2 * n /\ o # cbuf + 2 * n + 1
    BY <1>5, <1>8, <1>12, SizeAssumption
  <2>2. QED
    BY <1>2, <1>4, <2>1
<1>13. BehindUntouched'
  <2>1. \A o \in SIZE .. 2 * SIZE : buf'[o] = buf[o]
    BY <1>12, SizeAssumption
  <2>2. QED
    BY <1>1, <2>1, Before, SizeAssumption DEF BehindUntouched
<1>14. ASSUME NEW i \in Items, Rank[at] < Rank[i], InBuffer(i), NEW o \in 0 .. SIZE, Covers(i, o)
       PROVE  buf'[o] = buf[o]
  <2>1. o < HALF /\ o \in 0 .. 2 * SIZE
    BY <1>4, <1>14, CoveredLow, SizeAssumption
  <2>2. QED
    BY <1>12, <2>1
<1>15. GotModes(buf', cbuf', HALF, n)
  <2>1. HALF + 2 * n + 2 <= cbuf'
    BY <1>4, <1>5, <1>7, <1>8
  <2>2. QED
    BY <1>6, <1>8, <1>10, <1>11, <2>1 DEF GotModes, len
<1>16. at \notin Strings /\ HALF \in Nat
  BY <1>1, SizeAssumption DEF Strings
<1>17. ptr' = [ptr EXCEPT ![at] = HALF]
  BY <1>1, <1>2
<1>18. QED
  BY <1>1, <1>3, <1>7, <1>8, <1>9, <1>13, <1>14, <1>15, <1>16, <1>17, Advances

\* A list that cannot be reached gets no pointer.
LEMMA ModesLostKeeps == DInv /\ ModesLost => DInv'
<1> SUFFICES ASSUME DInv, ModesLost PROVE DInv'
  OBVIOUS
<1>1. at = "modes" /\ at \in Items /\ at \notin Strings /\ at' = Order[at]
  BY DEF ModesLost, Items, Strings
<1>2. block' = block /\ buf' = buf /\ ptr' = ptr /\ fsize' = fsize /\ cbuf' = cbuf
  BY DEF ModesLost
<1>3. /\ ptr \in [Items -> Nat] /\ ptr[at] = 0 /\ DOMAIN buf = 0 .. 2 * SIZE
      /\ fsize \in 0 .. SIZE - HALF /\ cbuf \in Nat
      /\ cbuf + fsize >= SIZE /\ (fsize > 0 => cbuf + fsize = SIZE)
  BY <1>1, Before
<1>4. ptr' = [ptr EXCEPT ![at] = 0]
  BY <1>1, <1>2, <1>3
<1>5. BehindUntouched' /\ cbuf' >= cbuf
  BY <1>2, <1>3 DEF DInv, BehindUntouched
<1>6. QED
  BY <1>1, <1>2, <1>3, <1>4, <1>5, Advances

\* A string in the buffer stays where it is: its NUL is written over itself.
LEMMA StringInBufferKeeps ==
  ASSUME DInv, NEW s \in Strings, StringInBuffer(s)
  PROVE  DInv'
<1> DEFINE len == block[s].len
           q == Offset(s)
           chars == [k \in 0 .. SIZE - q |-> buf[q + k]]
<1>1. at = s /\ InBuffer(s) /\ ~ Wild(s) /\ at \in Items /\ s # "modes"
  BY DEF StringInBuffer, Items, Strings
<1>2. PICK l \in 0 .. SIZE - q :
        /\ strnlen(chars, SIZE - q, l)
        /\ buf' = [buf EXCEPT ![q + l] = NUL]
        /\ ptr' = [ptr EXCEPT ![s] = q]
        /\ Take(l)
  BY DEF StringInBuffer
<1>3. at' = Order[at] /\ block' = block
  BY DEF StringInBuffer
<1>4. /\ block \in Blocks /\ len \in Nat /\ DOMAIN buf = 0 .. 2 * SIZE
      /\ fsize \in 0 .. SIZE - HALF /\ cbuf \in Nat /\ cbuf >= HALF
      /\ cbuf + fsize >= SIZE /\ (fsize > 0 => cbuf + fsize = SIZE)
      /\ \A o \in 0 .. SIZE : Covers(s, o) => buf[o] = Byte(s, o - q)
  BY <1>1, Before
<1>5. q \in Nat /\ 0 < q /\ q + len + 1 <= HALF
  BY <1>1, <1>4, Laid DEF Bytes, Length
<1>6. Offset(s) = q /\ Bytes(s) = len + 1 /\ len = block[s].len
  BY <1>1 DEF Bytes, Length
<1>7. chars = [k \in 0 .. SIZE - q |-> buf[q + k]]
  OBVIOUS
<1> HIDE DEF q, len, chars
<1>8. ASSUME NEW k \in 0 .. len
      PROVE  k \in 0 .. SIZE - q /\ q + k \in 0 .. SIZE /\ buf[q + k] = Byte(s, k)
  <2>1. q + k \in 0 .. SIZE /\ (q + k) - q = k /\ k \in 0 .. SIZE - q
    BY <1>4, <1>5, SizeAssumption
  <2>2. Covers(s, q + k)
    BY <1>4, <1>5, <1>6 DEF Covers
  <2>3. QED
    BY <1>4, <2>1, <2>2
<1>9. l = len
  <2>1. SIZE - q \in Nat /\ len <= SIZE - q
    BY <1>4, <1>5, SizeAssumption
  <2>2. \A k \in 0 .. block[s].len : k <= SIZE - q => chars[k] = Byte(s, k)
    BY <1>6, <1>7, <1>8
  <2>3. QED
    BY <1>2, <1>4, <1>6, <2>1, <2>2, StringStops
<1>10. buf[q + len] = NUL /\ q + len \in 0 .. 2 * SIZE /\ q + len < SIZE
  <2>1. len \in 0 .. len /\ len \in 0 .. block[s].len /\ block[s].len \in Nat
    BY <1>4, <1>6
  <2>2. Byte(s, len) = NUL
    BY <1>6, <2>1, StringBytes
  <2>3. QED
    BY <1>4, <1>5, <1>8, <2>1, <2>2, SizeAssumption
<1>11. DOMAIN buf' = 0 .. 2 * SIZE /\ \A o \in 0 .. 2 * SIZE : buf'[o] = buf[o]
  BY <1>2, <1>4, <1>9, <1>10
<1>12. /\ fsize' \in 0 .. SIZE - HALF /\ cbuf' = cbuf + len /\ cbuf' \in Nat /\ cbuf' >= cbuf
       /\ cbuf' + fsize' >= SIZE /\ (fsize' > 0 => cbuf' + fsize' = SIZE)
  BY <1>2, <1>4, <1>9, Taken
<1>13. BehindUntouched'
  <2>1. \A o \in SIZE .. 2 * SIZE : buf'[o] = buf[o]
    BY <1>11, SizeAssumption
  <2>2. QED
    BY <1>1, <2>1, Before, SizeAssumption DEF BehindUntouched
<1>14. GotString(buf', cbuf', s, q, len)
  <2>1. q + len + 1 <= cbuf'
    BY <1>4, <1>5, <1>12, SizeAssumption
  <2>2. len \in 0 .. block[s].len
    BY <1>4, <1>6
  <2>3. ASSUME NEW k \in 0 .. len - 1 PROVE buf'[q + k] = Byte(s, k)
    <3>1. k \in 0 .. len
      BY <1>4
    <3>2. q + k \in 0 .. 2 * SIZE /\ buf[q + k] = Byte(s, k)
      BY <1>8, <3>1, SizeAssumption
    <3>3. QED
      BY <1>11, <3>2
  <2>4. buf'[q + len] = NUL
    BY <1>10, <1>11
  <2>5. QED
    BY <1>6, <1>10, <2>1, <2>2, <2>3, <2>4 DEF GotString
<1>15. \A o \in 0 .. SIZE : buf'[o] = buf[o]
  BY <1>11, SizeAssumption
<1>16. ptr' = [ptr EXCEPT ![at] = q] /\ q # 0
  BY <1>1, <1>2, <1>5
<1>17. \E n \in Nat : GotString(buf', cbuf', at, q, n)
  BY <1>1, <1>4, <1>14
<1>18. \A o \in 0 .. SIZE - 1 : o < cbuf => buf'[o] = buf[o]
  BY <1>15, SizeAssumption
<1>19. QED
  BY <1>1, <1>3, <1>5, <1>11, <1>12, <1>13, <1>15, <1>16, <1>17, <1>18, Advances

\* A string in ROM is copied to where the room begins; its NUL may be the first
\* byte behind the buffer.
LEMMA StringInRomKeeps ==
  ASSUME DInv, NEW s \in Strings, StringInRom(s)
  PROVE  DInv'
<1> DEFINE len == block[s].len
           chars == [k \in 0 .. fsize |-> Byte(s, k)]
<1>1. at = s /\ ~ InBuffer(s) /\ fsize > 0 /\ at \in Items /\ s # "modes"
  BY DEF StringInRom, HasRoom, Items, Strings
<1>2. PICK l \in 0 .. fsize :
        /\ strnlen(chars, fsize, l)
        /\ buf' = [o \in DOMAIN buf |->
                     IF o \in cbuf .. cbuf + fsize - 1 THEN Byte(s, o - cbuf)
                     ELSE IF o = cbuf + l THEN NUL
                     ELSE buf[o]]
        /\ ptr' = [ptr EXCEPT ![s] = SIZE - fsize]
        /\ Take(Step(l))
  BY DEF StringInRom
<1>3. at' = Order[at] /\ block' = block
  BY DEF StringInRom
<1>4. /\ block \in Blocks /\ len \in Nat /\ DOMAIN buf = 0 .. 2 * SIZE
      /\ fsize \in 0 .. SIZE - HALF /\ fsize \in Nat /\ cbuf \in Nat /\ cbuf >= HALF
      /\ cbuf + fsize = SIZE /\ cbuf + fsize >= SIZE
      /\ \A o \in SIZE + 1 .. 2 * SIZE : buf[o] = OTHER_BYTE
      /\ buf[SIZE] \in {OTHER_BYTE, NUL}
  BY <1>1, Before
<1>5. l = IF len <= fsize THEN len ELSE fsize
  <2>1. \A k \in 0 .. block[s].len : k <= fsize => chars[k] = Byte(s, k)
    BY <1>4
  <2>2. QED
    BY <1>2, <1>4, <2>1, StringStops
<1>6. len = block[s].len
  OBVIOUS
<1> HIDE DEF len, chars
<1>7. /\ fsize' \in 0 .. SIZE - HALF /\ cbuf' = cbuf + (l + 1) /\ cbuf' \in Nat /\ cbuf' >= cbuf
      /\ cbuf' + fsize' >= SIZE /\ (fsize' > 0 => cbuf' + fsize' = SIZE)
  <2>1. l + 1 \in Nat /\ Take(l + 1)
    BY <1>2, <1>4 DEF Step
  <2>2. QED
    BY <1>4, <2>1, Taken
<1>8. DOMAIN buf' = 0 .. 2 * SIZE
  BY <1>2, <1>4
<1>9. ASSUME NEW k \in 0 .. fsize - 1 PROVE buf'[cbuf + k] = Byte(s, k)
  <2>1. /\ cbuf + k \in DOMAIN buf /\ cbuf + k \in cbuf .. cbuf + fsize - 1
        /\ (cbuf + k) - cbuf = k
    BY <1>4
  <2>2. QED
    BY <1>2, <2>1
<1>10. ASSUME NEW o \in 0 .. 2 * SIZE, o < cbuf \/ o > SIZE PROVE buf'[o] = buf[o]
  <2>1. o \notin cbuf .. cbuf + fsize - 1 /\ o # cbuf + l
    BY <1>4, <1>10
  <2>2. QED
    BY <1>2, <1>4, <2>1
<1>11. buf'[SIZE] \in {OTHER_BYTE, NUL}
  <2>1. SIZE \in DOMAIN buf /\ SIZE \notin cbuf .. cbuf + fsize - 1
    BY <1>4, SizeAssumption
  <2>2. buf'[SIZE] = IF SIZE = cbuf + l THEN NUL ELSE buf[SIZE]
    BY <1>2, <2>1
  <2>3. QED
    BY <1>4, <2>2
<1>12. BehindUntouched'
  <2>1. \A o \in SIZE + 1 .. 2 * SIZE : buf'[o] = OTHER_BYTE
    BY <1>4, <1>10, SizeAssumption
  <2>2. QED
    BY <1>11, <2>1 DEF BehindUntouched
<1>13. ASSUME NEW i \in Items, InBuffer(i), NEW o \in 0 .. SIZE, Covers(i, o)
       PROVE  buf'[o] = buf[o]
  <2>1. o < HALF /\ o \in 0 .. 2 * SIZE
    BY <1>4, <1>13, CoveredLow, SizeAssumption
  <2>2. o < cbuf
    BY <1>4, <2>1, SizeAssumption
  <2>3. QED
    BY <1>10, <2>1, <2>2
<1>14. GotString(buf', cbuf', s, cbuf, l)
  <2>1. l \in 0 .. block[s].len /\ l <= fsize /\ l \in Nat
    BY <1>4, <1>5, <1>6
  <2>2. \A k \in 0 .. l - 1 : buf'[cbuf + k] = Byte(s, k)
    BY <1>4, <1>9, <2>1
  <2>3. CASE l = fsize
    <3>1. cbuf + l = SIZE /\ SIZE <= cbuf'
      BY <1>4, <1>7, <2>3
    <3>2. QED
      BY <2>1, <2>2, <3>1 DEF GotString
  <2>4. CASE l # fsize
    <3>1. l = len /\ l \in 0 .. fsize - 1 /\ cbuf + l < SIZE /\ cbuf + l + 1 <= cbuf'
      BY <1>4, <1>5, <1>7, <2>1, <2>4
    <3>2. block[s].len \in Nat /\ l \in 0 .. block[s].len /\ l = block[s].len
      BY <1>4, <1>6, <2>1, <3>1
    <3>3. Byte(s, l) = NUL
      BY <3>2, StringBytes
    <3>4. buf'[cbuf + l] = NUL
      BY <1>9, <3>1, <3>3
    <3>5. QED
      BY <2>1, <2>2, <3>1, <3>2, <3>4 DEF GotString
  <2>5. QED
    BY <2>3, <2>4
<1>15. ptr' = [ptr EXCEPT ![at] = cbuf] /\ cbuf # 0
  <2>1. SIZE - fsize = cbuf /\ cbuf # 0
    BY <1>4, SizeAssumption
  <2>2. QED
    BY <1>1, <1>2, <2>1
<1>16. \E n \in Nat : GotString(buf', cbuf', at, cbuf, n)
  BY <1>1, <1>14
<1>17. \A o \in 0 .. SIZE - 1 : o < cbuf => buf'[o] = buf[o]
  BY <1>10, SizeAssumption
<1>18. QED
  BY <1>1, <1>3, <1>4, <1>7, <1>8, <1>12, <1>13, <1>15, <1>16, <1>17, Advances

\* A string that is lost was out of reach, or there was no room.
LEMMA StringLostKeeps ==
  ASSUME DInv, NEW s \in Strings, StringLost(s)
  PROVE  DInv'
<1>1. at = s /\ at \in Items /\ at # "modes" /\ at' = Order[at]
  BY DEF StringLost, Items, Strings
<1>2. /\ block' = block /\ buf' = buf /\ ptr' = ptr /\ cbuf' = cbuf /\ fsize' = Clamp(fsize)
      /\ ~ InBuffer(s) /\ (InRom(s) => ~ (fsize > 0))
  BY DEF StringLost, HasRoom
<1>3. /\ ptr \in [Items -> Nat] /\ ptr[at] = 0 /\ DOMAIN buf = 0 .. 2 * SIZE
      /\ fsize \in 0 .. SIZE - HALF /\ fsize \in Nat /\ cbuf \in Nat
      /\ cbuf + fsize >= SIZE /\ (fsize > 0 => cbuf + fsize = SIZE)
  BY <1>1, Before
<1>4. fsize' = fsize
  BY <1>2, <1>3 DEF Clamp
<1>5. ptr' = [ptr EXCEPT ![at] = 0]
  BY <1>1, <1>2, <1>3
<1>6. BehindUntouched' /\ cbuf' >= cbuf
  BY <1>2, <1>3 DEF DInv, BehindUntouched
<1>7. InRom(s) => cbuf' >= SIZE
  BY <1>2, <1>3, SizeAssumption
<1>8. QED
  BY <1>1, <1>2, <1>3, <1>4, <1>5, <1>6, <1>7, Advances

\* After a pointer below the buffer nothing is converted any more.
LEMMA GoesWildKeeps == DInv /\ GoesWild => DInv'
BY DEF DInv, GoesWild, Typed, Untouched, ModesThere, StringsThere, BehindUntouched, Items, Strings

\* Every step keeps the invariant.
LEMMA DInvStep == DInv /\ [Next]_vars => DInv'
<1> SUFFICES ASSUME DInv, [Next]_vars PROVE DInv'
  OBVIOUS
<1>1. CASE UNCHANGED vars
  <2>1. /\ block' = block /\ at' = at /\ buf' = buf /\ ptr' = ptr /\ fsize' = fsize
        /\ cbuf' = cbuf
    BY <1>1 DEF vars
  <2>2. Typed' /\ BehindUntouched'
    BY <2>1 DEF DInv, Typed, BehindUntouched
  <2>3. Untouched'
    BY <2>1, NextState DEF DInv, Untouched
  <2>4. ModesThere'
    BY <2>1, NextState DEF DInv, ModesThere
  <2>5. StringsThere'
    BY <2>1, NextState DEF DInv, StringsThere
  <2>6. QED
    BY <2>2, <2>3, <2>4, <2>5 DEF DInv
<1>2. CASE ModesInBuffer \/ ModesInRom \/ ModesLost
  BY <1>2, ModesInBufferKeeps, ModesInRomKeeps, ModesLostKeeps
<1>3. CASE \E s \in Strings : StringInBuffer(s) \/ StringInRom(s) \/ StringLost(s)
  BY <1>3, StringInBufferKeeps, StringInRomKeeps, StringLostKeeps
<1>4. CASE GoesWild
  BY <1>4, GoesWildKeeps
<1>5. QED
  BY <1>1, <1>2, <1>3, <1>4 DEF Next

-----------------------------------------------------------------------------
(***************************************************************************)
(* What the kernel gets.                                                   *)
(***************************************************************************)
\* The invariant says of each converted item what the kernel is to find.
LEMMA DInvDelivers == DInv => ModesDelivered /\ StringsDelivered /\ BehindUntouched
<1> SUFFICES ASSUME DInv PROVE ModesDelivered /\ StringsDelivered /\ BehindUntouched
  OBVIOUS
<1>1. ASSUME NEW i \in Converted PROVE i \in Items /\ at # "wild" /\ Rank[i] < Rank[at] /\ block[i].len \in Nat
  <2>1. i \in Items /\ Rank[i] \in Nat /\ Rank[i] < Rank[at]
    BY Ranks DEF Converted
  <2>2. at # "wild"
    BY <2>1 DEF Rank
  <2>3. QED
    BY <2>1, <2>2, Laid DEF DInv, Typed
<1>2. ModesDelivered
  <2> SUFFICES ASSUME "modes" \in Converted, ptr["modes"] # 0
               PROVE  \E n \in 0 .. block["modes"].len :
                        LET p == ptr["modes"] IN
                        /\ Prefix("modes", p, n)
                        /\ p + 2 * n + 1 < SIZE /\ buf[p + 2 * n] = END /\ buf[p + 2 * n + 1] = END
                        /\ n = block["modes"].len \/ HALF + 2 * n + 2 >= SIZE - 1
    BY DEF ModesDelivered
  <2>1. at # "wild" /\ 0 < Rank[at] /\ block["modes"].len \in Nat
    BY <1>1, Ranks
  <2>2. PICK n \in Nat : GotModes(buf, cbuf, ptr["modes"], n)
    BY <2>1 DEF DInv, ModesThere
  <2>3. ptr["modes"] \in Nat
    BY DEF DInv, Typed, Items
  <2>4. Prefix("modes", ptr["modes"], n)
    BY <2>2 DEF GotModes, Prefix
  <2>5. /\ n \in 0 .. block["modes"].len /\ ptr["modes"] + 2 * n + 2 <= SIZE
        /\ buf[ptr["modes"] + 2 * n] = END /\ buf[ptr["modes"] + 2 * n + 1] = END
        /\ n = block["modes"].len \/ HALF + 2 * n + 2 >= SIZE
    BY <2>2 DEF GotModes
  <2>6. ptr["modes"] + 2 * n + 1 < SIZE /\ (HALF + 2 * n + 2 >= SIZE => HALF + 2 * n + 2 >= SIZE - 1)
    BY <2>3, <2>5, SizeAssumption
  <2>7. QED
    BY <2>4, <2>5, <2>6
<1>3. StringsDelivered
  <2> SUFFICES ASSUME NEW s \in Converted \ {"modes"}
               PROVE  IF ptr[s] = 0 THEN InBuffer(s) \/ InRom(s) => cbuf >= SIZE
                      ELSE \E n \in 0 .. block[s].len :
                             /\ Prefix(s, ptr[s], n)
                             /\ IF n = block[s].len /\ ptr[s] + n < SIZE THEN buf[ptr[s] + n] = NUL
                                ELSE ptr[s] + n = SIZE
    BY DEF StringsDelivered
  <2>1. s \in Strings /\ s # "modes" /\ at # "wild" /\ Rank[s] < Rank[at] /\ block[s].len \in Nat
    BY <1>1 DEF Items
  <2>2. CASE ptr[s] = 0
    BY <2>1, <2>2 DEF DInv, StringsThere
  <2>3. CASE ptr[s] # 0
    <3>1. PICK n \in Nat : GotString(buf, cbuf, s, ptr[s], n)
      BY <2>1, <2>3 DEF DInv, StringsThere
    <3>2. ptr[s] \in Nat
      BY <2>1 DEF DInv, Typed, Items
    <3>3. Prefix(s, ptr[s], n)
      BY <2>1, <3>1 DEF GotString, Prefix
    <3>4. /\ n \in 0 .. block[s].len
          /\ \/ n = block[s].len /\ ptr[s] + n < SIZE /\ buf[ptr[s] + n] = NUL
             \/ ptr[s] + n = SIZE
      BY <3>1 DEF GotString
    <3>5. ptr[s] + n = SIZE => ~ (ptr[s] + n < SIZE)
      BY <3>2, SizeAssumption
    <3>6. QED
      BY <2>3, <3>3, <3>4, <3>5
  <2>4. QED
    BY <2>2, <2>3
<1>4. QED
  BY <1>2, <1>3 DEF DInv

\* Whatever modes the BIOS returns and wherever it keeps them, the kernel finds
\* the list where v86_task says, ended, in the buffer, and complete unless it
\* does not fit.
THEOREM ModesDeliveredHolds == Spec => []ModesDelivered
  BY DInvInit, DInvStep, DInvDelivers, PTL DEF Spec

\* No copy that v86_task makes runs into an earlier one or into a string still
\* to be converted: each string with a pointer is there, up to its NUL or to the
\* end of the buffer, and one that can be reached is lost only for want of room.
THEOREM StringsDeliveredHolds == Spec => []StringsDelivered
  BY DInvInit, DInvStep, DInvDelivers, PTL DEF Spec

\* Whatever is converted, of what lies behind the buffer of the task only the
\* first byte changes, to the NUL of a string that fills the room.
THEOREM BehindUntouchedHolds == Spec => []BehindUntouched
  BY DInvInit, DInvStep, DInvDelivers, PTL DEF Spec
=============================================================================
