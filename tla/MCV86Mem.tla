------------------------------ MODULE MCV86Mem ------------------------------
(***************************************************************************)
(* V86Mem with pages of 4096 bytes.  The EBDA is nowhere (0, 0xffff), at   *)
(* its usual place, in the page of the vectors, at the second page, inside *)
(* the daemon's real-mode memory, and at an address that is no multiple of *)
(* a page; it says it is empty, 1 kB, 85 kB or 255 kB long.                *)
(***************************************************************************)
EXTENDS V86Mem

MCBdaWords == {0, 16, 256, 4097, 36000, 40896, 65535}
MCEbdaBytes == {0, 1, 85, 255}
MCHeaders == [signed : {TRUE}, blocks : {0, 64, 255}]
               \cup {[signed |-> FALSE, blocks |-> 0]}
MCGarbage == [signed : BOOLEAN, blocks : {1}]
=============================================================================
