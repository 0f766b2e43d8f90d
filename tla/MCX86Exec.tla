----------------------------- MODULE MCX86Exec -----------------------------
(***************************************************************************)
(* X86Exec with every BIOS whose INT 10h service has three instructions    *)
(* and whose INT 1 handler has two, and with those that divide by zero.    *)
(* Only the service may call INT 1, so no BIOS recurses, and no            *)
(* instruction jumps back, so none loops.  The stack of nine words holds   *)
(* three frames; the fourth that divide errors need wraps around.          *)
(***************************************************************************)
EXTENDS X86Exec

\* The service at 0, the handler of INT 1 at 3, that of the divide error at 5.
MCVectors == [n \in {0, 1, 16} |-> IF n = 16 THEN 0 ELSE IF n = 1 THEN 3 ELSE 5]

Service == {"nop", "cli", "sti", "int", "iret", "hlt", "illegal"}
Handler == Service \ {"int"}
MCWhole == {p \in [0 .. 4 -> Service] : p[3] \in Handler /\ p[4] \in Handler}

\* The divide error handler need not return.
MCFaulty ==
  {p \in [0 .. 6 -> {"nop", "cli", "int", "iret", "div", "hlt"}] :
     /\ p[2] = "iret" /\ p[3] # "int" /\ p[4] = "iret" /\ p[6] = "iret"
     /\ "div" \in {p[0], p[1], p[3]}}
MCPrograms == MCWhole \cup MCFaulty

\* One BIOS that divides by zero and whose divide error handler does nothing.
MCDividing == {[i \in 0 .. 6 |-> IF i = 0 THEN "div" ELSE "iret"]}
=============================================================================
