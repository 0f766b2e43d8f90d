--------------------------- MODULE MCX86Programs ---------------------------
(* Bytes of six bits, so that a long fits TLC's integers; the jobs of every *)
(* kind, from the module that has them.                                     *)
EXTENDS X86Programs

NoJobs(kind) == <<>>
DataJobs == INSTANCE MCX86Data WITH JobKinds <- {}, Jobs <- NoJobs
FlowJobs == INSTANCE MCX86Flow WITH JobKinds <- {}, Jobs <- NoJobs
OtherJobs == INSTANCE MCX86Other WITH JobKinds <- {}, Jobs <- NoJobs

MCFlagBit ==
  [n \in FlagNames |->
    CASE n = "CF" -> 0 [] n = "PF" -> 2 [] n = "AF" -> 3 [] n = "ZF" -> 4 [] n = "SF" -> 5
      [] n = "TF" -> 6 [] n = "IF" -> 7 [] n = "DF" -> 8 [] n = "OF" -> 9]
MCIn(w, port) == port + w
MCHwCpuid(leaf) == [n \in EAX .. EBX |-> 2^LONG - 1 - n]

On86(sets) == [k \in DOMAIN sets |-> {[j EXCEPT !.on = "vm86"] : j \in sets[k]}]

\* INS and OUTS of longs run on the emulator apart, as "long_ports".
MCJobs(kind) ==
  CASE kind = "data" -> DataJobs!InstructionJobs
    [] kind = "calls" -> FlowJobs!CallJobs
    [] kind = "jumps" -> FlowJobs!JumpJobs
    [] kind = "strings" -> DataJobs!Emulated
    [] kind = "addresses" -> OtherJobs!AddressJobs
    [] kind = "idioms" -> OtherJobs!IdiomJobs
    [] kind = "trapped" -> On86(DataJobs!Trapped)
    [] kind = "long_ports" -> DataJobs!LongPorts
============================================================================
