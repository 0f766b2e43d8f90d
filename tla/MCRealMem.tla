------------------------------ MODULE MCRealMem ------------------------------
(***************************************************************************)
(* RealMem with the addresses and the arena size of v86.h, a table of five *)
(* entries instead of 256 so that it fills up, and three request sizes:    *)
(* the stack of v86_init, a size that is no multiple of 16, and one that   *)
(* fits only an almost empty arena.                                        *)
(***************************************************************************)
EXTENDS RealMem

MCRequests == {8192, 17, 120000}

\* 0 (a task without a buffer), the end of the arena, and an address that is
\* in the arena but starts no block.
MCStrays == {0, 196608, 65552}
=============================================================================
