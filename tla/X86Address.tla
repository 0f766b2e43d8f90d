----------------------------- MODULE X86Address -----------------------------
(***************************************************************************)
(* The machine runs stores to places of every addressing form, one after   *)
(* the other, with and without prefixes.  Where they should go is said     *)
(* here after the manual of the processor.                                 *)
(***************************************************************************)
EXTENDS X86Asm

\* A place has the fields of its encoding: wide, for 32-bit addresses, mod,
\* rm, the sib where rm is that of one, and the displacement disp.  A store is
\* of a byte v to a place, after the prefixes pre, the segment among them.
PrefixCode == [data |-> \h66, addr |-> \h67] @@ Override

HasSib(p) == p.wide /\ p.rm = 4
Absolute(p) ==
  /\ p.mod = 0
  /\ \/ ~ p.wide /\ p.rm = 6
     \/ p.wide /\ (p.rm = 5 \/ (HasSib(p) /\ p.sib.base = 5))
DispWidth(p) ==
  CASE p.mod = 1 -> BYTE
    [] p.mod = 2 \/ Absolute(p) -> IF p.wide THEN LONG ELSE WORD
    [] OTHER -> 0
Displaced(p) ==
  LET w == DispWidth(p) IN IF w = 0 THEN <<>> ELSE Number(w, p.disp % 2^w)

\* MOV of an immediate byte.
StoreCode(s) ==
  [k \in DOMAIN s.pre |-> PrefixCode[s.pre[k]]]
    \o <<\hc6, [mod |-> s.p.mod, rh |-> 0, rl |-> s.p.rm]>>
    \o (IF HasSib(s.p) THEN <<s.p.sib>> ELSE <<>>) \o Displaced(s.p) \o <<s.v>>

Storing(c, stores) ==
  LET codes == [k \in DOMAIN stores |-> StoreCode(stores[k])]
  IN  [on |-> "x86emu", c |-> Loaded(c, Joined(codes)), kind |-> "stores", stores |-> stores,
       ends |-> {Len(Joined(SubSeq(codes, 1, k))) : k \in 0 .. Len(codes)}]

-----------------------------------------------------------------------------
\* The registers a place is built on, once each.
Bases(p) ==
  CASE Absolute(p) -> {}
    [] ~ p.wide -> (<< {EBX, ESI}, {EBX, EDI}, {EBP, ESI}, {EBP, EDI},
                       {ESI}, {EDI}, {EBP}, {EBX} >>)[p.rm + 1]
    [] HasSib(p) -> {p.sib.base}
    [] OTHER -> {p.rm}
Scaled(c, p) ==
  IF HasSib(p) /\ p.sib.index # 4 THEN c.r[p.sib.index] * 2^p.sib.scale ELSE 0

\* The offset wraps with the width of addresses, a displacement has a sign.
Offset(c, p) ==
  LET w == IF p.wide THEN LONG ELSE WORD
      disp == IF DispWidth(p) = 0 THEN 0 ELSE Signed(DispWidth(p), p.disp % 2^DispWidth(p))
  IN  (MapThenSumSet(LAMBDA n : c.r[n] % 2^w, Bases(p)) + Scaled(c, p) + disp) % 2^w

\* What is on the stack pointers is in SS; an override decides it first.
OnFrame(p) == Bases(p) \cap {ESP, EBP} # {}
SegmentOf(s) ==
  LET over == {k \in DOMAIN s.pre : s.pre[k] \in SEGOVR}
  IN  IF over # {} THEN s.pre[CHOOSE k \in over : TRUE] ELSE IF OnFrame(s.p) THEN "SS" ELSE "DS"

Meant(s) == Linear(job.c, job.c.seg[SegmentOf(s)], Offset(job.c, s.p))

\* The bytes go to the places the stores name and nowhere else: base, index,
\* scale and displacement are added up within the width of addresses, and the
\* prefixes of one store do not reach the next (decode_rm00_address to
\* decode_rm10_address, decode_sib_address and get_data_segment of decode.c).
Arrived ==
  LET last(x) == Max({k \in DOMAIN job.stores : Meant(job.stores[k]) = x})
      places == {Meant(job.stores[k]) : k \in DOMAIN job.stores}
  IN  /\ DOMAIN cpu.mem = places
      /\ \A x \in places : cpu.mem[x] = job.stores[last(x)].v
StoresArrive == Done /\ job.kind = "stores" => Arrived

\* "After every instruction except the segment override instructions, this bit
\* (as well as any bits indicating segment overrides) will be clear"
\* (libs/x86emu/decode.c lines 828 to 830).
CleanBetween ==
  job.kind = "stores" /\ IP(cpu) - IP(job.c) \in job.ends =>
    cpu.mode \cap (SEGOVR \cup {"SEG_DS_SS"}) = {}
=============================================================================
