------------------------------ MODULE MCX86Flow ------------------------------
(* Bytes of six bits; words wrap at 4096.  Calls: the nests are all those   *)
(* of two kinds in each of a third, on a stack that is far from the end of  *)
(* its segment and on one that starts next to it.  Jumps: every condition   *)
(* on numbers on both sides of the ends of the signed and the unsigned      *)
(* range; loops of up to four turns and two that start at a count of 0;     *)
(* chains of three hops of every kind, the four parts in order, against it, *)
(* and both ways.                                                           *)
EXTENDS X86Calls, X86Jumps


Kinds == {"reg", "reg_long", "move", "seg", "imm", "flags", "all", "all_long", "frame", "display",
          "call", "call_args", "call_bx", "far", "far_args", "int", "int3"}
Calls == {"call", "call_args", "call_bx", "far", "far_args", "int", "int3"}
Args(k) == IF k \in {"call_args", "far_args"} THEN 2 ELSE 0

\* The segments by number.
ES == 0
DS == 3
FS == 4
GS == 5

\* What surrounds the inner part of a nest; the label is the depth.
Open(k, d) ==
  CASE k = "reg" -> <<Push(WORD, "reg", ESI)>>  [] k = "reg_long" -> <<Push(LONG, "reg", EDI)>>
    [] k = "move" -> <<Push(WORD, "reg", ESP)>>
    [] k = "seg" -> <<Push(WORD, "seg", DS), Push(WORD, "seg", FS)>>
    [] k = "imm" -> <<Push(WORD, "imm", 3000), Push(LONG, "imm", 7)>>
    [] k = "flags" -> <<Push(WORD, "flags", 0)>>
    [] k \in {"all", "all_long"} -> <<[op |-> "pusha", w |-> IF k = "all" THEN WORD ELSE LONG]>>
    [] k = "frame" -> <<[op |-> "enter", words |-> 3, level |-> 0]>>
    [] k = "display" -> <<[op |-> "enter", words |-> 1, level |-> 1],
                          [op |-> "enter", words |-> 0, level |-> 2]>>
    [] k = "call" -> <<[op |-> "call", through |-> FALSE, goal |-> d]>>
    [] k = "call_args" -> <<Push(WORD, "imm", 40), Push(WORD, "reg", ECX),
                            [op |-> "call", through |-> FALSE, goal |-> d]>>
    [] k = "call_bx" -> <<[op |-> "set", n |-> EBX, goal |-> d],
                          [op |-> "call", through |-> TRUE, goal |-> d]>>
    [] k = "far" -> <<[op |-> "callf", goal |-> d]>>
    [] k = "far_args" -> <<Push(LONG, "reg", EDX), [op |-> "callf", goal |-> d]>>
    [] k = "int" -> <<[op |-> "int", number |-> 5 + d, goal |-> d]>>
    [] k = "int3" -> <<[op |-> "int", number |-> 3, goal |-> d]>>
Close(k) ==
  CASE k = "reg" -> <<Pop(WORD, "reg", ESI)>>  [] k = "reg_long" -> <<Pop(LONG, "reg", EDX)>>
    [] k = "move" -> <<Pop(WORD, "reg", EAX)>>
    [] k = "seg" -> <<Pop(WORD, "seg", ES), Pop(WORD, "seg", GS)>>
    [] k = "imm" -> <<Pop(LONG, "reg", EDX), Pop(WORD, "reg", ECX)>>
    [] k = "flags" -> <<Pop(WORD, "flags", 0)>>
    [] k \in {"all", "all_long"} -> <<[op |-> "popa", w |-> IF k = "all" THEN WORD ELSE LONG]>>
    [] k = "frame" -> <<Op("leave")>>
    [] k = "display" -> <<Op("leave"), Op("leave")>>
    [] k \in {"call", "call_args", "call_bx"} -> <<[op |-> "ret", words |-> Args(k)]>>
    [] k \in {"far", "far_args"} -> <<[op |-> "retf", words |-> Args(k)]>>
    [] k \in {"int", "int3"} -> <<Op("iret")>>

\* Two times int3 would need its vector twice.
Outer == {"display", "call_args", "int"}
Nests == {n \in Kinds \X Kinds \X Outer : Cardinality({i \in 1 .. 3 : n[i] = "int3"}) <= 1}

\* The instructions in line, and the procedures behind them.
Built(n) ==
  LET part[d \in 0 .. 3] ==
        IF d = 0 THEN [main |-> <<Set_(EAX, 1234), Set_(ESI, 77)>>, procs |-> <<>>]
        ELSE LET k == n[d]
                 in == part[d - 1]
             IN  IF k \in Calls
                 THEN [main |-> Open(k, d),
                       procs |-> <<[op |-> "nop", label |-> d]>> \o in.main \o Close(k) \o in.procs]
                 ELSE [main |-> Open(k, d) \o in.main \o Close(k), procs |-> in.procs]
  IN  part[3].main \o <<Op("hlt")>> \o part[3].procs

CallSegs == [s \in SEGOVR |->
  CASE s = "CS" -> 700 [] s = "SS" -> 64 [] s = "DS" -> 5 [] s = "ES" -> 6 [] s = "FS" -> 7 [] OTHER -> 8]
Machine_(sp) ==
  Rest([n \in EAX .. EDI |-> IF n = ESP THEN sp ELSE IF n = EBP THEN 99 ELSE 66051 * (n + 1)],
       CallSegs, {"CF", "IF", "TF"}, [a \in {} |-> 0])

\* A long that lies over the end of the segment is written behind it; nests
\* with longs stay away from it.
Longs == {"reg_long", "imm", "all_long", "far_args"}
CallJobs ==
  LET short == {n \in Nests : \A i \in 1 .. 3 : n[i] \notin Longs}
  IN  <<{Program(Machine_(p[1]), Built(p[2])) : p \in ({1024} \X Nests) \cup ({8} \X short)}>>

-----------------------------------------------------------------------------

JumpSegs == [s \in SEGOVR |-> CASE s = "CS" -> 30 [] s = "DS" -> 5 [] OTHER -> 9]
Base == Rest([n \in EAX .. EDI |-> 66051 * (n + 1)], JumpSegs, {"CF", "OF"}, [a \in {} |-> 0])

Ends(w) == {0, 1, 2^(w - 1) - 1, 2^(w - 1), 2^w - 1}
Comparisons(kinds, k) ==
  UNION {{Compared(Base, kind, w, v, u, k) : kind \in kinds, v \in Ends(w), u \in Ends(w)} :
           w \in {BYTE, WORD, LONG}}

\* SETNL does what SETL does (libs/x86emu/ops2.c line 269): it is not here.
Conditions == 0 .. 15
SETNL == 13

Loops == {Looping(Base, op, n, stop, g, OutAL) :
            op \in DOMAIN LoopCode, n \in 0 .. 4, stop \in 1 .. 3, g \in {TRUE}}
Unguarded == {Looping(Base, "loopne", 0, 2, FALSE, OutAL), Looping(Base, "loope", 0, 1, FALSE, OutAL)}
Orders == {<<1, 2, 3, 4>>, <<3, 1, 4, 2>>, <<4, 3, 2, 1>>}
Chains == {Chained(Base, h, o) : h \in [1 .. 3 -> Hops], o \in Orders}

JumpJobs ==
  <<UNION {Comparisons({"short", "near"} \cup (IF k = SETNL THEN {} ELSE {"set"}), k) :
             k \in Conditions},
    Loops, Unguarded, Chains>>
=============================================================================
