-------------------------------- MODULE Heap --------------------------------
(***************************************************************************)
(* What a real-mode memory allocator promises to its callers, with no      *)
(* block table: a set of live chunks, each one inside the arena, none      *)
(* overlapping another.  lrmi.h lines 93-103 and v86.h lines 53-56 declare *)
(* this interface; RealMem implements it.                                  *)
(***************************************************************************)
EXTENDS Integers

CONSTANTS
  Base,      \* first address of the arena
  Size,      \* its length in bytes
  Requests   \* the sizes that callers ask for

VARIABLES
  up,        \* the arena is mapped
  live,      \* the chunks handed out and not yet given back
  ret        \* what the last allocation returned: an address, or 0

vars == <<up, live, ret>>

\* Paragraph rounding: a chunk starts and ends on a 16-byte boundary.
Paragraphs(size) == 16 * ((size + 15) \div 16)

Overlap(c, d) == c.addr < d.addr + d.size /\ d.addr < c.addr + c.size

Init == up = FALSE /\ live = {} /\ ret = 0

\* Bringing the arena up or down: nothing is live right afterwards.
Reset == live' = {} /\ up' \in BOOLEAN /\ UNCHANGED ret

\* A successful allocation hands out memory nobody else holds, in the arena
\* and on a paragraph boundary.  The chunk is chosen by ret'.
Grant(size) ==
  LET chunk == [addr |-> ret', size |-> Paragraphs(size)] IN
  /\ up
  /\ ret' >= Base /\ ret' + chunk.size <= Base + Size
  /\ (ret' - Base) % 16 = 0
  /\ \A c \in live : ~ Overlap(c, chunk)
  /\ live' = live \cup {chunk}
  /\ UNCHANGED up

\* A failed one changes nothing but the return value.
Refuse == ret' = 0 /\ UNCHANGED <<up, live>>

\* Giving an address back removes the chunk that starts there, and no other.
GiveBack(m) == live' = {c \in live : c.addr # m} /\ UNCHANGED <<up, ret>>

Next ==
  \/ Reset
  \/ \E size \in Requests : Grant(size)
  \/ Refuse
  \/ \E c \in live : GiveBack(c.addr)

Spec == Init /\ [][Next]_vars
=============================================================================
