------------------------------ MODULE VbeTask ------------------------------
(***************************************************************************)
(* What v86_task does with a VBE info block after a good call of the BIOS  *)
(* (v86_common.c lines 4-31 and 63-120).  The block holds far pointers to  *)
(* a mode list and four strings.  Each is turned into an offset in the     *)
(* buffer of the task; what the BIOS keeps in ROM is first copied into the *)
(* half of the buffer that the BIOS does not use.                          *)
(*                                                                         *)
(* A byte of a string or list is named by its item and its place in it, so *)
(* that the properties can tell one from another; a mode is two equal      *)
(* bytes.  The four u32 pointers of the block are kept apart from buf.     *)
(***************************************************************************)
EXTENDS Integers

CONSTANTS
  HALF,       \* size of the original VBE info block (512)
  SIZE,       \* sizeof(struct vbe_ib), which is also the task's buf_len (1024)
  lbuf,       \* where the buffer is in real-mode memory
  Blocks      \* what the BIOS may leave: item -> [seg, off, len]

Strings == {"oem", "vendor", "product", "rev"}
Items   == Strings \cup {"modes"}
U16     == 0 .. 65535
Pointer == [seg : U16, off : U16, len : Nat]

ASSUME SizeAssumption ==
  HALF \in Nat \ {0} /\ SIZE \in Nat /\ HALF < SIZE /\ (SIZE - HALF) % 2 = 0
ASSUME AddressAssumption == lbuf \in Nat /\ lbuf + SIZE < 655360
ASSUME BlocksAssumption == Blocks \subseteq [Items -> Pointer]

\* A far pointer as a linear address, and how long what lies there is: a list of
\* len modes has two bytes for each of them and two for its end mark.
Linear(p) == 16 * p.seg + p.off
Length(item, p) == IF item = "modes" THEN 2 * p.len + 2 ELSE p.len + 1

\* A BIOS leaves what it returns in the buffer within the original block, behind
\* its signature, and one thing beside the other; what a pointer below the
\* buffer leads to ends there too.
ASSUME LayoutAssumption ==
  \A b \in Blocks :
    LET Start(i) == Linear(b[i]) - lbuf
        End(i)   == Start(i) + Length(i, b[i])
    IN  /\ \A i \in Items : Start(i) < SIZE => (0 < Start(i) /\ End(i) <= HALF) \/ End(i) <= 0
        /\ \A i, j \in Items :
             i # j /\ 0 < Start(i) /\ Start(i) < HALF /\ 0 < Start(j) /\ Start(j) < HALF =>
               End(i) <= Start(j) \/ End(j) <= Start(i)

\* The strings are converted in this order, after the mode list.
Order == [modes |-> "oem", oem |-> "vendor", vendor |-> "product",
          product |-> "rev", rev |-> "done"]

NUL == <<"nul", 0>>
END == <<"end", 0>>
OTHER_BYTE == <<"other", 0>>

VARIABLES
  block,      \* what the BIOS left
  at,         \* the next item to convert, "done", or "wild"
  buf,        \* the bytes of buf and those behind it
  ptr,        \* ib->..._ptr of the converted items
  fsize, cbuf \* room left for copies, and the offset of the next one

vars == <<block, at, buf, ptr, fsize, cbuf>>

-----------------------------------------------------------------------------
\* The k-th byte of an item wherever it lies.
Byte(item, k) ==
  LET len == block[item].len IN
  IF item = "modes"
    THEN IF k < 2 * len THEN <<item, k \div 2>> ELSE END
    ELSE IF k < len THEN <<item, k>> ELSE NUL
Bytes(item) == Length(item, block[item])
addr(item) == Linear(block[item])

bufend == lbuf + SIZE
InBuffer(item) == addr(item) < bufend
InRom(item)    == addr(item) > 655360

\* t - lbuf.
Offset(item) == addr(item) - lbuf

\* A pointer that is not above the buffer need not be in it.  The difference is
\* an u32: below zero it wraps, and what the code then reads and overwrites
\* lies anywhere.
Wild(item) == InBuffer(item) /\ Offset(item) < 0

\* Whether the BIOS left item at offset o of the buffer.
Covers(item, o) == Offset(item) <= o /\ o < Offset(item) + Bytes(item)

Init ==
  /\ block \in Blocks
  /\ at = "modes"
  /\ LET here == {i \in Items : InBuffer(i)} IN
       buf = [o \in 0 .. 2 * SIZE |->
                IF \E i \in here : Covers(i, o)
                  THEN LET i == CHOOSE i \in here : Covers(i, o) IN Byte(i, o - Offset(i))
                  ELSE OTHER_BYTE]
  /\ ptr = [i \in Items |-> 0]
  /\ fsize = SIZE - HALF
  /\ cbuf = HALF

-----------------------------------------------------------------------------

\* if (fsize < 0) fsize = 0
Clamp(n) == IF n < 0 THEN 0 ELSE n

\* Mutant of Take: the next copy does not move.
TakeStill(n) == fsize' = Clamp(fsize - n) /\ cbuf' = cbuf

\* n bytes of the room are used up, or counted as if they were.  (After the mode
\* list the clamp is that of the first string; it cuts nothing.)
Take(n) == fsize' = Clamp(fsize - n) /\ cbuf' = cbuf + n

\* Mutant of ModesRoom: a mode is still copied when only its end mark fits.
ModesRoomNone(n) == n > 0

\* fsize > 2, for a list that leaves n bytes of room.
ModesRoom(n) == n > 2

\* The loop over the mode list stops after n modes: the n-th is the end mark, or
\* no room is left.
StopsAfter(words, n) ==
  /\ ~ ModesRoom(fsize - 2 * n) \/ words[n] = END
  /\ \A k \in 0 .. n - 1 : ModesRoom(fsize - 2 * k) /\ words[k] # END

\* A list in the buffer stays where it is; its length is taken from the room
\* all the same.
ModesInBuffer ==
  /\ at = "modes" /\ InBuffer("modes") /\ ~ Wild("modes")
  /\ LET o == Offset("modes")
         words == [k \in 0 .. fsize |->
                     IF buf[o + 2 * k] = buf[o + 2 * k + 1] THEN buf[o + 2 * k]
                     ELSE OTHER_BYTE]
     IN \E n \in 0 .. fsize :
          /\ StopsAfter(words, n)
          /\ buf' = [buf EXCEPT ![o + 2 * n] = END, ![o + 2 * n + 1] = END]
          /\ ptr' = [ptr EXCEPT !["modes"] = o]
          /\ Take(2 * n + 2)
  /\ at' = Order[at]
  /\ UNCHANGED block

ModesInRom ==
  /\ at = "modes" /\ ~ InBuffer("modes") /\ InRom("modes")
  /\ LET words == [k \in 0 .. fsize |-> Byte("modes", 2 * k)]
     IN \E n \in 0 .. fsize :
          /\ StopsAfter(words, n)
          /\ buf' = [o \in DOMAIN buf |->
                       IF o \in cbuf .. cbuf + 2 * n - 1 THEN Byte("modes", o - cbuf)
                       ELSE IF o \in {cbuf + 2 * n, cbuf + 2 * n + 1} THEN END
                       ELSE buf[o]]
          /\ ptr' = [ptr EXCEPT !["modes"] = HALF]
          /\ Take(2 * n + 2)
  /\ at' = Order[at]
  /\ UNCHANGED block

ModesLost ==
  /\ at = "modes" /\ ~ InBuffer("modes") /\ ~ InRom("modes")
  /\ at' = Order[at]
  /\ UNCHANGED <<block, buf, ptr, fsize, cbuf>>

-----------------------------------------------------------------------------
\* strnlen(s, max) = l for the string with the bytes s[0], s[1], ...
strnlen(s, max, l) ==
  /\ l \in 0 .. max
  /\ l = max \/ s[l] = NUL
  /\ \A k \in 0 .. l - 1 : s[k] # NUL

StringInBuffer(s) ==
  /\ at = s /\ InBuffer(s) /\ ~ Wild(s)
  /\ LET o == Offset(s)
         chars == [k \in 0 .. SIZE - o |-> buf[o + k]]
     IN \E l \in 0 .. SIZE - o :
          /\ strnlen(chars, SIZE - o, l)
          /\ buf' = [buf EXCEPT ![o + l] = NUL]
          /\ ptr' = [ptr EXCEPT ![s] = o]
          /\ Take(l)
  /\ at' = Order[at]
  /\ UNCHANGED block

\* Mutant of HasRoom: a string is copied to where no room is left.
HasRoomAlways == TRUE

\* Mutant of HasRoom: a string needs as much room as a mode.
HasRoomForMode == fsize > 2

HasRoom == fsize > 0

\* What a copied string of length l uses up.
Step(l) == l + 1

\* strncpy fills all of the room; the NUL after l bytes is behind the buffer
\* if they filled it too.
StringInRom(s) ==
  /\ at = s /\ ~ InBuffer(s) /\ InRom(s) /\ HasRoom
  /\ LET chars == [k \in 0 .. fsize |-> Byte(s, k)]
     IN \E l \in 0 .. fsize :
          /\ strnlen(chars, fsize, l)
          /\ buf' = [o \in DOMAIN buf |->
                       IF o \in cbuf .. cbuf + fsize - 1 THEN Byte(s, o - cbuf)
                       ELSE IF o = cbuf + l THEN NUL
                       ELSE buf[o]]
          /\ ptr' = [ptr EXCEPT ![s] = SIZE - fsize]
          /\ Take(Step(l))
  /\ at' = Order[at]
  /\ UNCHANGED block

StringLost(s) ==
  /\ at = s /\ ~ InBuffer(s) /\ ~ (InRom(s) /\ HasRoom)
  /\ fsize' = Clamp(fsize)
  /\ at' = Order[at]
  /\ UNCHANGED <<block, buf, ptr, cbuf>>

GoesWild ==
  /\ at \in Items /\ Wild(at) /\ at' = "wild"
  /\ UNCHANGED <<block, buf, ptr, fsize, cbuf>>

Next ==
  \/ ModesInBuffer \/ ModesInRom \/ ModesLost
  \/ \E s \in Strings : StringInBuffer(s) \/ StringInRom(s) \/ StringLost(s)
  \/ GoesWild

Spec == Init /\ [][Next]_vars

-----------------------------------------------------------------------------
\* The items whose pointers are offsets by now.
Rank == [modes |-> 0, oem |-> 1, vendor |-> 2, product |-> 3, rev |-> 4,
         done |-> 5, wild |-> 0]
Converted == {i \in Items : Rank[i] < Rank[at]}

\* The first n modes, or characters, of an item are in buf from offset p on.
Prefix(item, p, n) ==
  \A k \in 0 .. (IF item = "modes" THEN 2 * n ELSE n) - 1 : buf[p + k] = Byte(item, k)

\* The room that is left ends where the buffer ends: fsize and cbuf, which each
\* branch moves apart, agree as long as there is room, so that a string is
\* copied to the place its new pointer names.
RoomEnds == fsize > 0 => cbuf + fsize = SIZE

\* The kernel finds the mode list: it starts where mode_list_ptr says, it ends
\* inside the buffer, and it is the list of the BIOS, complete unless the room
\* for copies is full.  The strings copied after it leave it alone.
ModesDelivered ==
  ("modes" \in Converted /\ ptr["modes"] # 0) =>
    \E n \in 0 .. block["modes"].len :
      LET p == ptr["modes"] IN
      /\ Prefix("modes", p, n)
      /\ p + 2 * n + 1 < SIZE /\ buf[p + 2 * n] = END /\ buf[p + 2 * n + 1] = END
      /\ n = block["modes"].len \/ HALF + 2 * n + 2 >= SIZE - 1

\* So with each string that has a pointer; one that the end of the buffer cuts
\* has no NUL in it.  No later copy runs into an earlier one.  A string that can
\* be reached is given up only when the room is used up.
StringsDelivered ==
  \A s \in Converted \ {"modes"} :
    IF ptr[s] = 0 THEN InBuffer(s) \/ InRom(s) => cbuf >= SIZE
    ELSE \E n \in 0 .. block[s].len :
           /\ Prefix(s, ptr[s], n)
           /\ IF n = block[s].len /\ ptr[s] + n < SIZE THEN buf[ptr[s] + n] = NUL
              ELSE ptr[s] + n = SIZE

\* Of what lies behind the buffer of the task at most the first byte changes,
\* to 0.
BehindUntouched ==
  /\ \A o \in SIZE + 1 .. 2 * SIZE : buf[o] = OTHER_BYTE
  /\ buf[SIZE] \in {OTHER_BYTE, NUL}

\* "Mode list is in the buffer, we're good." (v86_common.c line 72): what the
\* code takes to be in the buffer is in it.
InBufferIsInBuffer == at # "wild"
=============================================================================
