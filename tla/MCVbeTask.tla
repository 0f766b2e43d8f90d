----------------------------- MODULE MCVbeTask -----------------------------
(***************************************************************************)
(* VbeTask with a block of 16 bytes in a buffer of 32.  The BIOS keeps the *)
(* mode list in its half of the buffer, in ROM, or in memory that cannot   *)
(* be returned; so with the strings, of which the last may have no         *)
(* pointer.  In ROM a list or string is empty, it is short, it just fits,  *)
(* or it is longer than the room of 16 bytes.                              *)
(***************************************************************************)
EXTENDS VbeTask

MClbuf == 73984

\* A far pointer to offset o of the buffer, to the video ROM, to the EBDA, and
\* the null pointer.
Here(o, len) == [seg |-> MClbuf \div 16, off |-> o, len |-> len]
Rom(len)     == [seg |-> 49152, off |-> 16, len |-> len]
Ebda(len)    == [seg |-> 40896, off |-> 61, len |-> len]
Null         == [seg |-> 0, off |-> 0, len |-> 0]

\* In the buffer the list has at most one mode, in the bytes 4 to 7, and each
\* string one character, in the two bytes from o on.
Lists == {Here(4, n) : n \in {0, 1}} \cup {Rom(n) : n \in {0, 3, 7, 8}} \cup {Ebda(1)}
Texts(o) == {Here(o, 1)} \cup {Rom(n) : n \in {0, 3, 20}} \cup {Ebda(2)}

MCBlocks ==
  {[modes |-> m, oem |-> a, vendor |-> b, product |-> c, rev |-> d] :
     m \in Lists, a \in Texts(8), b \in Texts(10), c \in Texts(12), d \in Texts(14) \cup {Null}}

\* A BIOS older than VBE 2.0 knows only the first string.
MCOldBlocks ==
  {[modes |-> Rom(3), oem |-> Rom(4), vendor |-> Null, product |-> Null, rev |-> Null]}
=============================================================================
