------------------------------- MODULE MCLrmi -------------------------------
(***************************************************************************)
(* The stack and buffers of one size in the arena of LRMI, with a table of *)
(* four entries; two handlers in ROM and one vector that still points at   *)
(* the memory below; ports on both sides of 1024 and of 256.               *)
(***************************************************************************)
EXTENDS Lrmi, TLC
MCVector ==
  16 :> [seg |-> 49152, off |-> 256] @@ 66 :> [seg |-> 61440, off |-> 512]
    @@ 33 :> [seg |-> 4096, off |-> 0]
=============================================================================
