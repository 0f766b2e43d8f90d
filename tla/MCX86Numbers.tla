---------------------------- MODULE MCX86Numbers ----------------------------
(* A byte of 4 bits and decimal digits to base 3, so that every operand of  *)
(* a byte and of a word is tried with every count up to one more than a     *)
(* long has bits and some, every dividend with every divisor, and every     *)
(* pair of decimal numbers of two bytes; the bytes of binary numbers are    *)
(* those at the ends of the ranges and around a half carry.                 *)
EXTENDS X86Numbers

MCBinary == {0, 1, 3, 4, 7, 8, 9, 15}
MCPacked == {x + 2^NIBBLE * y : x, y \in 0 .. RADIX - 1}
MCUnpacked == 0 .. RADIX - 1
MCWidths == {BYTE, WORD}
MCFactors == 0 .. 2^BYTE - 1
=============================================================================
