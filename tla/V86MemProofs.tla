---------------------------- MODULE V86MemProofs ----------------------------
(***************************************************************************)
(* Proofs about the real-mode memory map, for every page size and whatever *)
(* the BIOS data area, the EBDA and the video BIOS hold: the sizes stay in *)
(* their bounds, and no way through v86_mem_init and v86_mem_cleanup       *)
(* leaves a byte mapped.                                                   *)
(***************************************************************************)
EXTENDS V86Mem, TLAPS

\* v86_mem_cleanup would unmap region r if it ran now.
Reached(r) == IF r = "real" THEN ready ELSE r \in ptr

\* What is mapped is what v86_mem_cleanup will unmap: it is reached, and its
\* length is the one that the sizes of the moment give.
Owned == \A r \in Regions : maps[r].len = 0 \/ (maps[r].len = CleanupLen(r) /\ Reached(r))

\* A region is not mapped before its turn, so that its size may still be set.
Early  == {"real", "low"}
Before == Early \cup {"ebda_read", "ebda_map"}
InTurn ==
  /\ pc \in Early => \A r \in Regions \ {"real"} : maps[r].len = 0
  /\ pc \in Before => maps["ebda"].len = 0
  /\ pc \in Before \cup {"vram", "vbios_read", "vbios"} => maps["vbios"].len = 0
  /\ pc = "real" => maps["real"].len = 0

\* The EBDA does not start at 0, and the page that ReadEbda found is
\* not past it.
DiffFits ==
  /\ pc = "ebda_read" => ebda_start # 0
  /\ pc = "ebda_map" => ebda_start - ebda_diff \in Nat

IInv == TypeOK /\ Owned /\ InTurn /\ DiffFits /\ Balanced

-----------------------------------------------------------------------------
\* The bounds of TypeOK are numbers.
LEMMA Bounds ==
  /\ EBDA_BASE \in Nat /\ EBDA_MAX \in Nat /\ SBIOS_BASE - VBIOS_BASE \in Nat
  /\ PageSize - 1 \in Nat
BY PageAssumption, SMT DEF EBDA_BASE, EBDA_MAX, SBIOS_BASE, VBIOS_BASE

\* The offset of an address in its page is less than a page, and no more than
\* the address.
LEMMA PageOfBounds ==
  ASSUME NEW a \in Nat
  PROVE  /\ PageOf(a) \in Nat
         /\ a - PageOf(a) \in 0 .. PageSize - 1
<1>1. a % PageSize \in 0 .. PageSize - 1
  BY PageAssumption
<1>2. a < PageSize => a % PageSize = a
  BY PageAssumption
<1>3. a % PageSize <= a
  BY <1>1, <1>2, PageAssumption
<1>4. QED
  BY <1>1, <1>3 DEF PageOf

\* The shape of the mappings.
Mapping == [len : Nat, phys : Nat]

\* Mapping a region makes a mapping of the right kind and disturbs no other.
LEMMA MapType ==
  ASSUME NEW r \in Regions, NEW len \in Nat, NEW offset \in Nat,
         maps \in [Regions -> Mapping], ptr \subseteq Regions, Map(r, len, offset)
  PROVE  /\ maps' \in [Regions -> Mapping]
         /\ ptr' \subseteq Regions /\ r \in ptr' /\ ptr \subseteq ptr'
         /\ maps'[r].len = len
         /\ \A s \in Regions \ {r} : maps'[s] = maps[s]
<1>1. [len |-> len, phys |-> offset] \in Mapping
  BY DEF Mapping
<1>2. maps' = [maps EXCEPT ![r] = [len |-> len, phys |-> offset]] /\ ptr' = ptr \cup {r}
  BY DEF Map
<1>3. QED
  BY <1>1, <1>2, SMT

\* The lengths passed to munmap are numbers.
LEMMA CleanupLenType ==
  ASSUME ebda_size \in Nat, ebda_diff \in Nat, vbios_size \in Nat, NEW r \in Regions
  PROVE  CleanupLen(r) \in Nat
BY SMT DEF CleanupLen, Regions, IVTBDA_SIZE, REAL_MEM_SIZE, VRAM_SIZE, SBIOS_SIZE

\* When all that is mapped is owned, cleaning up unmaps all of it.
LEMMA CleanupUnmaps ==
  ASSUME TypeOK, Owned, Cleanup
  PROVE  /\ maps' \in [Regions -> Mapping]
         /\ \A r \in Regions : maps'[r].len = 0
<1>1. ASSUME NEW r \in Regions
      PROVE  maps'[r] = IF Reached(r) THEN Rest(r, CleanupLen(r)) ELSE maps[r]
  BY <1>1, SMT DEF Cleanup, Reached
<1>2. maps \in [Regions -> Mapping]
  BY SMT DEF TypeOK, Mapping
<1>3. ebda_size \in Nat /\ ebda_diff \in Nat /\ vbios_size \in Nat
  BY Bounds, SMT DEF TypeOK
<1>4. ASSUME NEW r \in Regions
      PROVE  maps'[r] \in Mapping /\ maps'[r].len = 0
  <2>1. CleanupLen(r) \in Nat /\ maps[r] \in Mapping
    BY <1>2, <1>3, <1>4, CleanupLenType
  <2>2. maps[r].len = 0 \/ (maps[r].len = CleanupLen(r) /\ Reached(r))
    BY <1>4 DEF Owned
  <2>3. Unmapped \in Mapping /\ Unmapped.len = 0
    BY DEF Unmapped, Mapping
  <2>4. CASE Reached(r)
    <3>1. maps[r].len <= CleanupLen(r)
      BY <2>1, <2>2, SMT DEF Mapping
    <3>2. maps'[r] = Unmapped
      BY <1>1, <1>4, <2>4, <3>1 DEF Rest
    <3>3. QED
      BY <2>3, <3>2
  <2>5. CASE ~ Reached(r)
    BY <1>1, <1>4, <2>1, <2>2, <2>5
  <2>6. QED
    BY <2>4, <2>5
<1>5. maps' = [r \in Regions |-> maps'[r]]
  BY SMT DEF Cleanup
<1>6. QED
  BY <1>4, <1>5

-----------------------------------------------------------------------------
\* The invariant holds before v86_mem_init.
LEMMA InitInvariant == Init => IInv
<1> SUFFICES ASSUME Init PROVE IInv
  OBVIOUS
<1>1. TypeOK
  <2>1. ebda_start \in 0 .. EBDA_BASE /\ ebda_size \in 0 .. EBDA_MAX
        /\ ebda_diff \in 0 .. PageSize - 1 /\ vbios_size \in 0 .. SBIOS_BASE - VBIOS_BASE
    BY Bounds, SMT DEF Init
  <2>2. maps \in [Regions -> [len : Nat, phys : Nat]] /\ ptr \subseteq Regions
    BY SMT DEF Init, Unmapped
  <2>3. header \in [signed : BOOLEAN, read : BOOLEAN]
    BY DEF Init
  <2>4. QED
    BY <2>1, <2>2, <2>3, Zenon DEF Init, TypeOK
<1>2. \A r \in Regions : maps[r].len = 0
  BY DEF Init, Unmapped
<1>3. QED
  BY <1>1, <1>2, SMT DEF Init, IInv, Owned, InTurn, DiffFits, Balanced, Regions

\* While the sizes stay, so do the lengths that v86_mem_cleanup uses.
LEMMA SameLen ==
  ASSUME UNCHANGED <<ebda_size, ebda_diff, vbios_size>>
  PROVE  \A r \in Regions : CleanupLen(r)' = CleanupLen(r)
BY DEF CleanupLen

\* Mapping a region with the length that v86_mem_cleanup uses keeps all owned.
LEMMA MapOwned ==
  ASSUME NEW r \in Regions, NEW len \in Nat, NEW offset \in Nat,
         maps \in [Regions -> Mapping], ptr \subseteq Regions, Owned,
         Map(r, len, offset),
         UNCHANGED <<ebda_size, ebda_diff, vbios_size>>,
         len = CleanupLen(r), Reached(r)', ready => ready'
  PROVE  Owned'
<1>1. ASSUME NEW s \in Regions
      PROVE  maps'[s].len = 0 \/ (maps'[s].len = CleanupLen(s)' /\ Reached(s)')
  <2>1. CleanupLen(s)' = CleanupLen(s)
    BY <1>1, SameLen
  <2>2. CASE s = r
    BY <2>1, <2>2, MapType
  <2>3. CASE s # r
    <3>1. maps'[s] = maps[s] /\ ptr \subseteq ptr'
      BY <1>1, <2>3, MapType
    <3>2. Reached(s) => Reached(s)'
      BY <3>1 DEF Reached
    <3>3. QED
      BY <1>1, <2>1, <3>1, <3>2 DEF Owned
  <2>4. QED
    BY <2>2, <2>3
<1>2. QED
  BY <1>1 DEF Owned

\* When nothing is mapped any more, nothing need be owned or in its turn.
LEMMA AllUnmapped ==
  ASSUME \A r \in Regions : maps'[r].len = 0
  PROVE  Owned' /\ InTurn' /\ Balanced'
BY DEF Owned, InTurn, Balanced, Regions

\* The parts of TypeOK that are proved apart.
SizesOK ==
  /\ ebda_start \in 0 .. EBDA_BASE /\ ebda_size \in 0 .. EBDA_MAX
  /\ ebda_diff \in 0 .. PageSize - 1
  /\ vbios_size \in 0 .. SBIOS_BASE - VBIOS_BASE
  /\ header \in [signed : BOOLEAN, read : BOOLEAN]
MapsOK ==
  /\ ready \in BOOLEAN /\ maps \in [Regions -> Mapping] /\ ptr \subseteq Regions
Stages ==
  {"real", "low", "ebda_read", "ebda_map", "vram", "vbios_read", "vbios", "sbios", "up",
   "failed", "down"}

\* TypeOK is its parts.
LEMMA TypeParts == TypeOK <=> pc \in Stages /\ SizesOK /\ MapsOK
BY DEF TypeOK, Stages, SizesOK, MapsOK, Mapping

\* The same of the next state.
LEMMA TypePartsNext == TypeOK' <=> pc' \in Stages /\ SizesOK' /\ MapsOK'
BY DEF TypeOK, Stages, SizesOK, MapsOK, Mapping

\* Actions that leave the sizes alone keep their bounds.
LEMMA SizesKept ==
  ASSUME SizesOK, UNCHANGED sizes
  PROVE  SizesOK' /\ UNCHANGED <<ebda_size, ebda_diff, vbios_size>>
BY DEF SizesOK, sizes

\* What the constants may hold, apart.
LEMMA ValueRanges ==
  /\ BdaWords \subseteq Nat
  /\ \A byte \in EbdaBytes : byte \in Nat /\ byte <= BYTE_MAX
  /\ \A h \in Headers \cup Garbage :
       h.signed \in BOOLEAN /\ h.blocks \in Nat /\ h.blocks <= BYTE_MAX
<1>1. BYTE_MAX \in Nat /\ WORD_MAX \in Nat
  BY SMT DEF BYTE_MAX, WORD_MAX
<1>2. Headers \cup Garbage \subseteq [signed : BOOLEAN, blocks : 0 .. BYTE_MAX]
  BY ValueAssumption
<1>3. BdaWords \subseteq Nat
  BY <1>1, ValueAssumption
<1>4. \A byte \in EbdaBytes : byte \in Nat /\ byte <= BYTE_MAX
  BY <1>1, ValueAssumption
<1>5. ASSUME NEW h \in Headers \cup Garbage
      PROVE  h.signed \in BOOLEAN /\ h.blocks \in Nat /\ h.blocks <= BYTE_MAX
  <2>1. h.signed \in BOOLEAN /\ h.blocks \in 0 .. BYTE_MAX
    BY <1>2, <1>5
  <2>2. QED
    BY <1>1, <2>1
<1>6. QED
  BY <1>3, <1>4, <1>5, Zenon

\* The EBDA starts no later than EBDA_BASE, and never at 0.
LEMMA EbdaStartBounds ==
  ASSUME NEW word \in BdaWords
  PROVE  EbdaStart(word) \in 0 .. EBDA_BASE /\ EbdaStart(word) # 0
<1>1. word \in Nat
  BY ValueRanges
<1>2. EBDA_BASE \in Nat /\ EBDA_BASE # 0
  BY SMT DEF EBDA_BASE
<1>3. QED
  BY <1>1, <1>2, SMT DEF EbdaStart

\* A cut EBDA is shorter than one that is not.
LEMMA EbdaSizeBounds ==
  ASSUME NEW byte \in EbdaBytes, SizesOK
  PROVE  EbdaSize(ebda_start, byte) \in 0 .. EBDA_MAX
<1>1. byte \in Nat /\ byte <= BYTE_MAX
  BY ValueRanges
<1>2. 1024 * byte \in Nat /\ 1024 * byte <= EBDA_MAX
  BY <1>1, SMT DEF EBDA_MAX, BYTE_MAX
<1>3. EBDA_BASE \in Nat /\ VRAM_BASE \in Nat /\ EBDA_BASE <= VRAM_BASE
  BY SMT DEF EBDA_BASE, VRAM_BASE
<1>4. ebda_start \in 0 .. EBDA_BASE
  BY DEF SizesOK
<1>5. ebda_start \in Nat /\ ebda_start <= VRAM_BASE
  BY <1>3, <1>4, SMT
<1>6. QED
  BY <1>2, <1>3, <1>5, Bounds, SMT DEF EbdaSize

\* The video BIOS ends where the system BIOS starts, or before.
LEMMA VbiosSizeBounds ==
  ASSUME NEW h \in Headers \cup Garbage
  PROVE  h.signed \in BOOLEAN /\ VbiosSize(h.blocks) \in 0 .. SBIOS_BASE - VBIOS_BASE
<1>1. h.signed \in BOOLEAN /\ h.blocks \in Nat /\ h.blocks <= BYTE_MAX
  BY ValueRanges
<1>2. 512 * h.blocks \in Nat /\ 512 * h.blocks <= SBIOS_BASE - VBIOS_BASE
  BY <1>1, SMT DEF SBIOS_BASE, VBIOS_BASE, BYTE_MAX
<1>3. VbiosSize(h.blocks) \in Nat /\ VbiosSize(h.blocks) <= SBIOS_BASE - VBIOS_BASE
  BY <1>2, Zenon DEF VbiosSize
<1>4. QED
  BY <1>1, <1>3, Bounds

\* The offset of the EBDA in its page is no more than its address.
LEMMA ReadEbdaFits ==
  ASSUME SizesOK, DiffFits, ReadEbda
  PROVE  DiffFits'
<1>1. ebda_start \in Nat /\ ebda_start' = ebda_start /\ ebda_start # 0
  <2>1. EBDA_BASE \in Nat /\ ebda_start \in 0 .. EBDA_BASE
    BY Bounds DEF SizesOK
  <2>2. pc = "ebda_read" /\ ebda_start' = ebda_start
    BY DEF ReadEbda
  <2>3. QED
    BY <2>1, <2>2 DEF DiffFits
<1>2. CASE pc' = "vram"
  BY <1>2 DEF DiffFits
<1>3. CASE pc' = "ebda_map" /\ Readable(ebda_start)
           /\ ebda_diff' = IF PageOf(ebda_start) # 0
                             THEN ebda_start - PageOf(ebda_start) ELSE ebda_diff
  <2>1. PageOf(ebda_start) \in Nat
    BY <1>1, PageOfBounds
  <2>2. PageOf(ebda_start) # 0
    BY <1>1, <1>3 DEF Readable
  <2>3. ebda_start' - ebda_diff' = PageOf(ebda_start)
    BY <1>1, <1>3, <2>1, <2>2
  <2>4. QED
    BY <1>3, <2>1, <2>3 DEF DiffFits
<1>4. QED
  BY <1>2, <1>3 DEF ReadEbda

\* A region that must be mapped is owned, or all is cleaned up.
LEMMA MapOrFailKeeps ==
  ASSUME NEW r \in Regions \ {"real"}, NEW len \in Nat, NEW offset \in Nat,
         NEW next \in Stages \ {"failed", "down", "ebda_read", "ebda_map"},
         IInv, MapOrFail(r, len, offset, next), UNCHANGED sizes, len = CleanupLen(r),
         (pc' = next /\ \A s \in Regions \ {r} : maps'[s] = maps[s]) => InTurn'
  PROVE  IInv'
<1>1. SizesOK /\ MapsOK /\ Owned /\ InTurn
  BY TypeParts DEF IInv
<1>2. SizesOK' /\ UNCHANGED <<ebda_size, ebda_diff, vbios_size>>
  BY <1>1, SizesKept
<1>3. CASE Map(r, len, offset) /\ pc' = next /\ UNCHANGED ready
  <2>1. MapsOK' /\ (\A s \in Regions \ {r} : maps'[s] = maps[s]) /\ r \in ptr'
    BY <1>1, <1>3, MapType DEF MapsOK
  <2>2. Owned'
    BY <1>1, <1>2, <1>3, <2>1, MapOwned DEF MapsOK, Reached
  <2>3. InTurn'
    BY <1>1, <1>3, <2>1
  <2>4. TypeOK' /\ Balanced' /\ DiffFits'
    BY <1>2, <1>3, <2>1, TypePartsNext DEF Balanced, DiffFits
  <2>5. QED
    BY <2>2, <2>3, <2>4 DEF IInv
<1>4. CASE pc' = "failed" /\ Cleanup
  <2>1. maps' \in [Regions -> Mapping] /\ \A s \in Regions : maps'[s].len = 0
    BY <1>4, CleanupUnmaps DEF IInv
  <2>2. MapsOK'
    BY <1>1, <1>4, <2>1 DEF MapsOK, Cleanup
  <2>3. TypeOK'
    BY <1>2, <1>4, <2>2, TypePartsNext DEF Stages
  <2>4. QED
    BY <1>4, <2>1, <2>3, AllUnmapped DEF IInv, DiffFits
<1>5. QED
  BY <1>3, <1>4 DEF MapOrFail

-----------------------------------------------------------------------------
\* The invariant is inductive: one step for each action.
LEMMA StepInvariant == IInv /\ [Next]_vars => IInv'
<1> SUFFICES ASSUME IInv, [Next]_vars PROVE IInv'
  OBVIOUS
<1>1. pc \in Stages /\ SizesOK /\ MapsOK /\ Owned /\ InTurn /\ DiffFits /\ Balanced
  BY TypeParts DEF IInv
<1>2. CASE MapReal
  <2>1. pc = "real" /\ UNCHANGED sizes /\ SizesOK' /\ UNCHANGED <<ebda_size, ebda_diff, vbios_size>>
    BY <1>1, <1>2, SizesKept DEF MapReal
  <2>2. CASE Map("real", REAL_MEM_SIZE, 0) /\ ready' = TRUE /\ pc' = "low"
    <3>1. "real" \in Regions /\ REAL_MEM_SIZE \in Nat /\ 0 \in Nat
      BY SMT DEF Regions, REAL_MEM_SIZE
    <3>2. MapsOK' /\ \A s \in Regions \ {"real"} : maps'[s] = maps[s]
      BY <1>1, <2>2, <3>1, MapType DEF MapsOK
    <3>3. REAL_MEM_SIZE = CleanupLen("real") /\ Reached("real")'
      BY <2>2 DEF CleanupLen, Reached
    <3>4. Owned'
      BY <1>1, <2>1, <2>2, <3>1, <3>3, MapOwned DEF MapsOK
    <3>5. InTurn'
      BY <1>1, <2>1, <2>2, <3>2 DEF InTurn, Early, Before, Regions
    <3>6. TypeOK' /\ Balanced' /\ DiffFits'
      BY <2>1, <2>2, <3>2, TypePartsNext DEF Balanced, DiffFits, Stages
    <3>7. QED
      BY <3>4, <3>5, <3>6 DEF IInv
  <2>3. CASE pc' = "failed" /\ UNCHANGED <<maps, ptr, ready>>
    <3>1. \A r \in Regions : maps'[r].len = 0
      BY <1>1, <2>1, <2>3 DEF InTurn, Early, Regions
    <3>2. TypeOK'
      BY <1>1, <2>1, <2>3, TypePartsNext DEF MapsOK, Stages
    <3>3. QED
      BY <2>3, <3>1, <3>2, AllUnmapped DEF IInv, DiffFits
  <2>4. QED
    BY <1>2, <2>2, <2>3 DEF MapReal
<1>3. CASE MapLow
  <2>1. pc = "low" /\ UNCHANGED <<ebda_size, ebda_diff, vbios_size, header>>
    BY <1>3 DEF MapLow
  <2>2. CASE /\ Map("low", IVTBDA_SIZE, 0)
             /\ \E word \in BdaWords : ebda_start' = EbdaStart(word)
             /\ pc' = "ebda_read" /\ UNCHANGED ready
    <3>1. "low" \in Regions /\ IVTBDA_SIZE \in Nat /\ 0 \in Nat
      BY SMT DEF Regions, IVTBDA_SIZE
    <3>2. MapsOK' /\ "low" \in ptr' /\ \A s \in Regions \ {"low"} : maps'[s] = maps[s]
      BY <1>1, <2>2, <3>1, MapType DEF MapsOK
    <3>3. IVTBDA_SIZE = CleanupLen("low") /\ Reached("low")'
      BY <3>2 DEF CleanupLen, Reached
    <3>4. Owned'
      BY <1>1, <2>1, <2>2, <3>1, <3>3, MapOwned DEF MapsOK
    <3>5. InTurn'
      BY <1>1, <2>1, <2>2, <3>2 DEF InTurn, Early, Before, Regions
    <3>6. ebda_start' \in 0 .. EBDA_BASE /\ ebda_start' # 0
      BY <2>2, EbdaStartBounds
    <3>7. SizesOK'
      BY <1>1, <2>1, <3>6 DEF SizesOK
    <3>8. TypeOK'
      BY <2>2, <3>2, <3>7, TypePartsNext DEF Stages
    <3>9. Balanced' /\ DiffFits'
      BY <2>2, <3>6 DEF Balanced, DiffFits
    <3>10. QED
      BY <3>4, <3>5, <3>8, <3>9 DEF IInv
  <2>3. CASE /\ pc' = "failed"
             /\ maps' = [maps EXCEPT !["real"] = Unmapped] /\ ready' = FALSE
             /\ UNCHANGED <<ptr, ebda_start>>
    <3>1. maps' \in [Regions -> Mapping] /\ \A r \in Regions : maps'[r].len = 0
      BY <1>1, <2>1, <2>3, SMT DEF InTurn, Early, Regions, MapsOK, Unmapped, Mapping
    <3>2. TypeOK'
      BY <1>1, <2>1, <2>3, <3>1, TypePartsNext DEF MapsOK, SizesOK, Stages
    <3>3. QED
      BY <2>3, <3>1, <3>2, AllUnmapped DEF IInv, DiffFits
  <2>4. QED
    BY <1>3, <2>2, <2>3 DEF MapLow
<1>4. CASE ReadEbda
  <2>1. pc = "ebda_read" /\ UNCHANGED <<ready, maps, ptr, ebda_start, vbios_size, header>>
        /\ pc' \in {"ebda_map", "vram"}
    BY <1>4 DEF ReadEbda
  <2>2. ebda_size' \in 0 .. EBDA_MAX /\ ebda_diff' \in 0 .. PageSize - 1
    <3>1. CASE /\ \E byte \in EbdaBytes : ebda_size' = EbdaSize(ebda_start, byte)
               /\ ebda_diff' = IF PageOf(ebda_start) # 0
                                 THEN ebda_start - PageOf(ebda_start) ELSE ebda_diff
      <4>1. ebda_start \in Nat
        BY <1>1, Bounds, SMT DEF SizesOK
      <4>2. ebda_start - PageOf(ebda_start) \in 0 .. PageSize - 1
        BY <4>1, PageOfBounds
      <4>3. QED
        BY <1>1, <3>1, <4>2, EbdaSizeBounds DEF SizesOK
    <3>2. CASE UNCHANGED <<ebda_size, ebda_diff>>
      BY <1>1, <3>2 DEF SizesOK
    <3>3. QED
      BY <1>4, <3>1, <3>2 DEF ReadEbda
  <2>3. \A r \in Regions \ {"ebda"} : CleanupLen(r)' = CleanupLen(r)
    BY <2>1 DEF CleanupLen, Regions
  <2>4. Owned'
    BY <1>1, <2>1, <2>3 DEF Owned, InTurn, Before, Reached, Regions
  <2>5. InTurn' /\ Balanced'
    BY <1>1, <2>1 DEF InTurn, Early, Before, Balanced
  <2>6. TypeOK'
    BY <1>1, <2>1, <2>2, TypePartsNext DEF SizesOK, MapsOK, Stages
  <2>7. DiffFits'
    BY <1>1, <1>4, <2>1, ReadEbdaFits
  <2>8. QED
    BY <2>4, <2>5, <2>6, <2>7 DEF IInv
<1>5. CASE MapEbda
  <2>1. pc = "ebda_map" /\ pc' = "vram" /\ UNCHANGED sizes /\ UNCHANGED ready
        /\ SizesOK' /\ UNCHANGED <<ebda_size, ebda_diff, vbios_size>>
    BY <1>1, <1>5, SizesKept DEF MapEbda
  <2>2. CASE Map("ebda", ebda_size + ebda_diff, ebda_start - ebda_diff)
    <3>1. "ebda" \in Regions
      BY DEF Regions
    <3>2. ebda_size + ebda_diff \in Nat
      BY <1>1, Bounds, SMT DEF SizesOK
    <3>3. ebda_start - ebda_diff \in Nat
      BY <1>1, <2>1 DEF DiffFits
    <3>4. MapsOK' /\ "ebda" \in ptr' /\ \A s \in Regions \ {"ebda"} : maps'[s] = maps[s]
      BY <1>1, <2>1, <2>2, <3>1, <3>2, <3>3, MapType DEF MapsOK
    <3>5. ebda_size + ebda_diff = CleanupLen("ebda") /\ Reached("ebda")'
      BY <3>4 DEF CleanupLen, Reached
    <3>6. Owned'
      BY <1>1, <2>1, <2>2, <3>1, <3>2, <3>3, <3>5, MapOwned DEF MapsOK
    <3>7. InTurn'
      BY <1>1, <2>1, <3>4 DEF InTurn, Early, Before, Regions
    <3>8. TypeOK' /\ Balanced' /\ DiffFits'
      BY <2>1, <3>4, TypePartsNext DEF Balanced, Stages, DiffFits
    <3>9. QED
      BY <3>6, <3>7, <3>8 DEF IInv
  <2>3. CASE UNCHANGED <<maps, ptr>>
    <3>1. Owned'
      BY <1>1, <2>1, <2>3, SameLen DEF Owned, Reached
    <3>2. InTurn' /\ Balanced' /\ DiffFits'
      BY <1>1, <2>1, <2>3 DEF InTurn, Early, Before, Balanced, DiffFits
    <3>3. TypeOK'
      BY <1>1, <2>1, <2>3, TypePartsNext DEF MapsOK, Stages
    <3>4. QED
      BY <3>1, <3>2, <3>3 DEF IInv
  <2>4. QED
    BY <1>5, <2>2, <2>3 DEF MapEbda
<1>6. CASE MapVram
  <2>1. pc = "vram" /\ MapOrFail("vram", VRAM_SIZE, VRAM_BASE, "vbios_read") /\ UNCHANGED sizes
    BY <1>6 DEF MapVram
  <2>2. VRAM_SIZE \in Nat /\ VRAM_BASE \in Nat /\ VRAM_SIZE = CleanupLen("vram")
    BY SMT DEF VRAM_SIZE, VRAM_BASE, CleanupLen
  <2>3. "vram" \in Regions \ {"real"} /\ "vbios_read" \in Stages \ {"failed", "down", "ebda_read", "ebda_map"}
    BY DEF Regions, Stages
  <2>4. (pc' = "vbios_read" /\ \A s \in Regions \ {"vram"} : maps'[s] = maps[s]) => InTurn'
    BY <1>1, <2>1 DEF InTurn, Early, Before, Regions
  <2>5. QED
    BY <2>1, <2>2, <2>3, <2>4, MapOrFailKeeps
<1>7. CASE ReadVbios
  <2>1. pc = "vbios_read" /\ UNCHANGED <<ebda_start, ebda_size, ebda_diff>>
    BY <1>7 DEF ReadVbios
  <2>2. PICK read \in BOOLEAN, h \in Headers \cup Garbage :
          /\ header' = [signed |-> h.signed, read |-> read]
          /\ \/ /\ vbios_size' = VbiosSize(h.blocks) /\ pc' = "vbios"
                /\ UNCHANGED <<ready, maps, ptr>>
             \/ pc' = "failed" /\ Cleanup /\ UNCHANGED vbios_size
    BY <1>7 DEF ReadVbios
  <2>3. h.signed \in BOOLEAN /\ VbiosSize(h.blocks) \in 0 .. SBIOS_BASE - VBIOS_BASE
    BY <2>2, VbiosSizeBounds
  <2>4. header' \in [signed : BOOLEAN, read : BOOLEAN]
    BY <2>2, <2>3
  <2>5. CASE vbios_size' = VbiosSize(h.blocks) /\ pc' = "vbios" /\ UNCHANGED <<ready, maps, ptr>>
    <3>1. \A r \in Regions \ {"vbios"} : CleanupLen(r)' = CleanupLen(r)
      BY <2>1 DEF CleanupLen, Regions
    <3>2. Owned'
      BY <1>1, <2>1, <2>5, <3>1 DEF Owned, InTurn, Before, Reached, Regions
    <3>3. InTurn' /\ Balanced' /\ DiffFits'
      BY <1>1, <2>1, <2>5 DEF InTurn, Early, Before, Balanced, DiffFits
    <3>4. TypeOK'
      BY <1>1, <2>1, <2>3, <2>4, <2>5, TypePartsNext DEF SizesOK, MapsOK, Stages
    <3>5. QED
      BY <3>2, <3>3, <3>4 DEF IInv
  <2>6. CASE pc' = "failed" /\ Cleanup /\ UNCHANGED vbios_size
    <3>1. maps' \in [Regions -> Mapping] /\ \A r \in Regions : maps'[r].len = 0
      BY <2>6, CleanupUnmaps DEF IInv
    <3>2. TypeOK'
      BY <1>1, <2>1, <2>4, <2>6, <3>1, TypePartsNext DEF SizesOK, MapsOK, Stages, Cleanup
    <3>3. DiffFits'
      BY <2>6 DEF DiffFits
    <3>4. QED
      BY <3>1, <3>2, <3>3, AllUnmapped DEF IInv
  <2>7. QED
    BY <2>2, <2>5, <2>6
<1>8. CASE MapVbios
  <2>1. pc = "vbios" /\ MapOrFail("vbios", vbios_size, VBIOS_BASE, "sbios") /\ UNCHANGED sizes
    BY <1>8 DEF MapVbios
  <2>2. VBIOS_BASE \in Nat /\ vbios_size = CleanupLen("vbios")
    BY SMT DEF VBIOS_BASE, CleanupLen
  <2>3. vbios_size \in Nat
    BY <1>1, Bounds, SMT DEF SizesOK
  <2>4. "vbios" \in Regions \ {"real"} /\ "sbios" \in Stages \ {"failed", "down", "ebda_read", "ebda_map"}
    BY DEF Regions, Stages
  <2>5. (pc' = "sbios" /\ \A s \in Regions \ {"vbios"} : maps'[s] = maps[s]) => InTurn'
    BY <1>1, <2>1 DEF InTurn, Early, Before, Regions
  <2>6. QED
    BY <2>1, <2>2, <2>3, <2>4, <2>5, MapOrFailKeeps
<1>9. CASE MapSbios
  <2>1. pc = "sbios" /\ MapOrFail("sbios", SBIOS_SIZE, SBIOS_BASE, "up") /\ UNCHANGED sizes
    BY <1>9 DEF MapSbios
  <2>2. SBIOS_SIZE \in Nat /\ SBIOS_BASE \in Nat /\ SBIOS_SIZE = CleanupLen("sbios")
    BY SMT DEF SBIOS_SIZE, SBIOS_BASE, CleanupLen
  <2>3. "sbios" \in Regions \ {"real"} /\ "up" \in Stages \ {"failed", "down", "ebda_read", "ebda_map"}
    BY DEF Regions, Stages
  <2>4. (pc' = "up" /\ \A s \in Regions \ {"sbios"} : maps'[s] = maps[s]) => InTurn'
    BY DEF InTurn, Early, Before
  <2>5. QED
    BY <2>1, <2>2, <2>3, <2>4, MapOrFailKeeps
<1>10. CASE v86_mem_cleanup
  <2>1. pc' = "down" /\ Cleanup /\ UNCHANGED sizes /\ SizesOK'
    BY <1>1, <1>10, SizesKept DEF v86_mem_cleanup
  <2>2. maps' \in [Regions -> Mapping] /\ \A r \in Regions : maps'[r].len = 0
    BY <2>1, CleanupUnmaps DEF IInv
  <2>3. TypeOK'
    BY <1>1, <2>1, <2>2, TypePartsNext DEF MapsOK, Stages, Cleanup
  <2>4. DiffFits'
    BY <2>1 DEF DiffFits
  <2>5. QED
    BY <2>2, <2>3, <2>4, AllUnmapped DEF IInv
<1>11. CASE UNCHANGED vars
  <2>1. UNCHANGED sizes /\ UNCHANGED <<pc, ready, maps, ptr>>
    BY <1>11 DEF vars, sizes
  <2>2. SizesOK' /\ UNCHANGED <<ebda_size, ebda_diff, vbios_size>>
    BY <1>1, <2>1, SizesKept
  <2>3. Owned'
    BY <1>1, <2>1, <2>2, SameLen DEF Owned, Reached
  <2>4. InTurn' /\ Balanced' /\ DiffFits'
    BY <1>1, <2>1, <2>2 DEF InTurn, Early, Before, Balanced, DiffFits, sizes
  <2>5. TypeOK'
    BY <1>1, <2>1, <2>2, TypePartsNext DEF MapsOK
  <2>6. QED
    BY <2>3, <2>4, <2>5 DEF IInv
<1>12. QED
  BY <1>2, <1>3, <1>4, <1>5, <1>6, <1>7, <1>8, <1>9, <1>10, <1>11 DEF Next

-----------------------------------------------------------------------------
\* The inductive invariant holds always.
LEMMA Invariant == Spec => []IInv
BY InitInvariant, StepInvariant, PTL DEF Spec

\* Whatever the BIOS says of the EBDA and the video ROM, the sizes stay in their
\* bounds: the video ROM ends where the system BIOS begins, at the latest.
THEOREM TypeCorrect == Spec => []TypeOK
<1>1. IInv => TypeOK
  BY DEF IInv
<1>2. QED
  BY Invariant, <1>1, PTL

\* Whichever open or mmap of v86_mem_init fails, and after v86_mem_cleanup,
\* nothing is left mapped.
THEOREM BalancedHolds == Spec => []Balanced
<1>1. IInv => Balanced
  BY DEF IInv
<1>2. QED
  BY Invariant, <1>1, PTL

-----------------------------------------------------------------------------
\* Where each region is once its turn has been, while v86_mem_init has not
\* failed.
FromVram  == {"vram", "vbios_read", "vbios", "sbios", "up"}
FromEbda  == {"ebda_read", "ebda_map"} \cup FromVram
FromLow   == {"low"} \cup FromEbda
Host(len, phys) == [len |-> len, phys |-> phys]
Fixed ==
  /\ pc \in FromLow => maps["real"] = Host(REAL_MEM_SIZE, 0)
  /\ pc \in FromEbda => maps["low"] = Host(IVTBDA_SIZE, 0)
  /\ pc \in FromVram \ {"vram"} => maps["vram"] = Host(VRAM_SIZE, VRAM_BASE)
  /\ pc \in {"sbios", "up"} => maps["vbios"] = Host(vbios_size, VBIOS_BASE)
  /\ pc = "up" => maps["sbios"] = Host(SBIOS_SIZE, SBIOS_BASE)

\* The EBDA ends before the video RAM begins, and begins on a page, though
\* not on that of the vectors.
EbdaBetween ==
  /\ ebda_start + ebda_size <= VRAM_BASE
  /\ ebda_start - ebda_diff >= PageSize
EbdaPlaced ==
  /\ pc \in Before => "ebda" \notin ptr
  /\ pc = "ebda_map" => EbdaBetween
  /\ pc \in FromVram =>
       IF "ebda" \in ptr
       THEN EbdaBetween /\ maps["ebda"] = Host(ebda_size + ebda_diff, ebda_start - ebda_diff)
       ELSE maps["ebda"].len = 0
Placed == Fixed /\ EbdaPlaced

\* The stages in sets of their own.
LEMMA StageSets ==
  /\ FromEbda = {"ebda_read", "ebda_map", "vram", "vbios_read", "vbios", "sbios", "up"}
  /\ FromLow = {"low", "ebda_read", "ebda_map", "vram", "vbios_read", "vbios", "sbios", "up"}
  /\ Before = {"real", "low", "ebda_read", "ebda_map"}
BY DEF FromLow, FromEbda, FromVram, Before, Early

\* The page that an address not in page 0 is in begins after page 0.
LEMMA PageAfterFirst ==
  ASSUME NEW a \in Nat, PageOf(a) # 0
  PROVE  PageOf(a) \in Nat /\ PageOf(a) >= PageSize
<1>1. PageOf(a) \in Nat
  BY PageOfBounds
<1>2. a % PageSize \in 0 .. PageSize - 1 /\ a = PageSize * (a \div PageSize) + (a % PageSize)
      /\ a \div PageSize \in Int
  BY PageAssumption
<1>3. PageOf(a) = PageSize * (a \div PageSize)
  BY <1>2, PageAssumption DEF PageOf
<1>4. ASSUME NEW q \in Int, PageSize * q \in Nat \ {0} PROVE PageSize * q >= PageSize
  <2>1. q >= 1
    BY <1>4, PageAssumption, SMTT(30)
  <2>2. PageSize * q >= PageSize
    BY <2>1, PageAssumption, SMTT(30)
  <2>3. QED
    BY <2>2, PageAssumption
<1>5. QED
  BY <1>1, <1>2, <1>3, <1>4

\* The last place for an EBDA is before the video RAM.
LEMMA EbdaBeforeVram == EBDA_BASE \in Nat /\ VRAM_BASE \in Nat /\ EBDA_BASE <= VRAM_BASE
BY SMT DEF EBDA_BASE, VRAM_BASE

\* Whatever the byte of the EBDA says, its end is cut at the video RAM.
LEMMA EbdaCut ==
  ASSUME NEW start \in 0 .. EBDA_BASE, NEW byte \in Nat
  PROVE  start + EbdaSize(start, byte) <= VRAM_BASE
<1>1. EBDA_BASE \in Nat /\ VRAM_BASE \in Nat /\ EBDA_BASE <= VRAM_BASE
  BY EbdaBeforeVram
<1>2. start \in Nat /\ start <= VRAM_BASE
  BY <1>1, SMT
<1>3. QED
  BY <1>1, <1>2, SMT DEF EbdaSize

\* A region is where it was mapped, and the others are where they were.
LEMMA MapPlaces ==
  ASSUME NEW r \in Regions, NEW len \in Nat, NEW offset \in Nat,
         maps \in [Regions -> Mapping], ptr \subseteq Regions, Map(r, len, offset)
  PROVE  /\ maps'[r] = Host(len, offset) /\ ptr' = ptr \cup {r}
         /\ \A s \in Regions \ {r} : maps'[s] = maps[s]
BY DEF Map, Host

\* Each action places its region and leaves the others where they are.
LEMMA StepPlaced == IInv /\ Placed /\ [Next]_vars => Placed'
<1> SUFFICES ASSUME IInv, Placed, [Next]_vars PROVE Placed'
  OBVIOUS
<1>1. pc \in Stages /\ SizesOK /\ MapsOK /\ InTurn /\ Fixed /\ EbdaPlaced
  BY TypeParts DEF IInv, Placed
<1>2. maps \in [Regions -> Mapping] /\ ptr \subseteq Regions
  BY <1>1 DEF MapsOK
<1>3. \A r \in {"low", "real", "vbios", "sbios", "vram", "ebda"} : r \in Regions
  BY DEF Regions
<1>4. CASE pc' \in {"failed", "down"}
  BY <1>4 DEF Placed, Fixed, EbdaPlaced, FromLow, FromEbda, FromVram, Before, Early
<1>5. CASE MapReal
  <2>1. CASE Map("real", REAL_MEM_SIZE, 0) /\ pc' = "low"
    <3>1. REAL_MEM_SIZE \in Nat /\ 0 \in Nat
      BY SMT DEF REAL_MEM_SIZE
    <3>2. maps'["real"] = Host(REAL_MEM_SIZE, 0) /\ ptr' = ptr \cup {"real"}
      BY <1>2, <1>3, <2>1, <3>1, MapPlaces
    <3>3. "ebda" \notin ptr
      BY <1>1, <1>5 DEF EbdaPlaced, Before, Early, MapReal
    <3>4. QED
      BY <2>1, <3>2, <3>3 DEF Placed, Fixed, EbdaPlaced, FromEbda, FromVram
  <2>2. QED
    BY <1>4, <1>5, <2>1 DEF MapReal
<1>6. CASE MapLow
  <2>1. CASE Map("low", IVTBDA_SIZE, 0) /\ pc' = "ebda_read"
    <3>1. IVTBDA_SIZE \in Nat /\ 0 \in Nat
      BY SMT DEF IVTBDA_SIZE
    <3>2. /\ maps'["low"] = Host(IVTBDA_SIZE, 0) /\ ptr' = ptr \cup {"low"}
          /\ maps'["real"] = maps["real"]
      BY <1>2, <1>3, <2>1, <3>1, MapPlaces
    <3>3. "ebda" \notin ptr /\ maps["real"] = Host(REAL_MEM_SIZE, 0)
      BY <1>1, <1>6 DEF EbdaPlaced, Fixed, FromLow, Before, Early, MapLow
    <3>4. QED
      BY <2>1, <3>2, <3>3 DEF Placed, Fixed, EbdaPlaced, FromEbda, FromVram
  <2>2. QED
    BY <1>4, <1>6, <2>1 DEF MapLow
<1>7. CASE ReadEbda
  <2>1. /\ pc = "ebda_read" /\ pc' \in {"ebda_map", "vram"}
        /\ UNCHANGED <<maps, ptr, ebda_start, vbios_size>>
    BY <1>7 DEF ReadEbda
  <2>2. Fixed'
    BY <1>1, <2>1 DEF Fixed, FromLow, FromEbda, FromVram
  <2>3. "ebda" \notin ptr' /\ maps'["ebda"].len = 0
    BY <1>1, <2>1 DEF EbdaPlaced, InTurn, Before
  <2>4. CASE pc' = "ebda_map"
    <3>1. PICK byte \in EbdaBytes : ebda_size' = EbdaSize(ebda_start, byte)
      BY <1>7, <2>4 DEF ReadEbda
    <3>2. byte \in Nat
      BY ValueRanges
    <3>3. ebda_start' + ebda_size' <= VRAM_BASE
      BY <1>1, <2>1, <3>1, <3>2, EbdaCut DEF SizesOK
    <3>4. ebda_start \in Nat /\ ebda_start # 0
      BY <1>1, <2>1, Bounds DEF IInv, DiffFits, SizesOK
    <3>5. /\ Readable(ebda_start)
          /\ ebda_diff' = IF PageOf(ebda_start) # 0
                            THEN ebda_start - PageOf(ebda_start) ELSE ebda_diff
      BY <1>7, <2>4 DEF ReadEbda
    <3>6. PageOf(ebda_start) # 0
      BY <3>4, <3>5 DEF Readable
    <3>7. PageOf(ebda_start) \in Nat /\ PageOf(ebda_start) >= PageSize
      BY <3>4, <3>6, PageAfterFirst
    <3>8. ebda_start' - ebda_diff' = PageOf(ebda_start)
      BY <2>1, <3>4, <3>5, <3>6, <3>7
    <3>9. QED
      BY <2>2, <2>3, <2>4, <3>3, <3>7, <3>8 DEF Placed, EbdaPlaced, EbdaBetween, FromVram
  <2>5. CASE pc' = "vram"
    BY <2>2, <2>3, <2>5 DEF Placed, EbdaPlaced, Before, Early
  <2>6. QED
    BY <2>1, <2>4, <2>5
<1>8. CASE MapEbda
  <2>1. /\ pc = "ebda_map" /\ pc' = "vram" /\ UNCHANGED sizes
        /\ "ebda" \notin ptr /\ maps["ebda"].len = 0 /\ EbdaBetween
    BY <1>1, <1>8 DEF MapEbda, EbdaPlaced, InTurn, Before
  <2>2. EbdaBetween'
    BY <2>1 DEF EbdaBetween, sizes
  <2>3. CASE Map("ebda", ebda_size + ebda_diff, ebda_start - ebda_diff)
    <3>1. ebda_size + ebda_diff \in Nat
      BY <1>1, Bounds, SMT DEF SizesOK
    <3>2. ebda_start - ebda_diff \in Nat
      BY <1>1, <2>1 DEF IInv, DiffFits
    <3>3. /\ maps'["ebda"] = Host(ebda_size + ebda_diff, ebda_start - ebda_diff)
          /\ ptr' = ptr \cup {"ebda"}
          /\ \A s \in Regions \ {"ebda"} : maps'[s] = maps[s]
      BY <1>2, <1>3, <2>3, <3>1, <3>2, MapPlaces
    <3>4. maps'["real"] = maps["real"] /\ maps'["low"] = maps["low"]
      BY <1>3, <3>3
    <3>5. Fixed'
      BY <1>1, <2>1, <3>4 DEF Fixed, FromLow, FromEbda, FromVram
    <3>6. EbdaPlaced'
      BY <2>1, <2>2, <3>3 DEF EbdaPlaced, Before, Early, sizes
    <3>7. QED
      BY <3>5, <3>6 DEF Placed
  <2>4. CASE UNCHANGED <<maps, ptr>>
    BY <1>1, <2>1, <2>4 DEF Placed, Fixed, EbdaPlaced, FromLow, FromEbda, FromVram, Before, Early
  <2>5. QED
    BY <1>8, <2>3, <2>4 DEF MapEbda
\* A later region: the EBDA is not touched any more.
<1>9. ASSUME NEW r \in {"vram", "vbios", "sbios"}, NEW len \in Nat, NEW offset \in Nat,
             Map(r, len, offset), UNCHANGED sizes, pc \in FromVram, pc' \in FromVram
      PROVE  /\ maps'[r] = Host(len, offset)
             /\ \A s \in Regions \ {r} : maps'[s] = maps[s]
             /\ EbdaPlaced'
  <2>1. /\ maps'[r] = Host(len, offset) /\ ptr' = ptr \cup {r}
        /\ \A s \in Regions \ {r} : maps'[s] = maps[s]
    BY <1>2, <1>3, <1>9, MapPlaces
  <2>2. maps'["ebda"] = maps["ebda"] /\ ("ebda" \in ptr' <=> "ebda" \in ptr)
    BY <1>3, <2>1
  <2>3. EbdaBetween' <=> EbdaBetween
    BY <1>9 DEF EbdaBetween, sizes
  <2>4. QED
    BY <1>1, <1>9, <2>1, <2>2, <2>3 DEF EbdaPlaced, FromVram, Before, Early, sizes
<1>10. CASE MapVram
  <2>1. CASE Map("vram", VRAM_SIZE, VRAM_BASE) /\ pc' = "vbios_read"
    <3>1. VRAM_SIZE \in Nat /\ VRAM_BASE \in Nat /\ pc = "vram" /\ UNCHANGED sizes
      BY <1>10, SMT DEF VRAM_SIZE, VRAM_BASE, MapVram
    <3>2. /\ maps'["vram"] = Host(VRAM_SIZE, VRAM_BASE) /\ EbdaPlaced'
          /\ maps'["real"] = maps["real"] /\ maps'["low"] = maps["low"]
      BY <1>3, <1>9, <2>1, <3>1 DEF FromVram
    <3>3. QED
      BY <1>1, <2>1, <3>1, <3>2 DEF Placed, Fixed, FromLow, FromEbda, FromVram
  <2>2. QED
    BY <1>4, <1>10, <2>1 DEF MapVram, MapOrFail
<1>11. CASE ReadVbios
  <2>1. CASE pc' = "vbios" /\ UNCHANGED <<maps, ptr>>
    <3>1. pc = "vbios_read" /\ UNCHANGED <<ebda_start, ebda_size, ebda_diff>>
      BY <1>11 DEF ReadVbios
    <3>2. EbdaBetween' <=> EbdaBetween
      BY <3>1 DEF EbdaBetween
    <3>3. QED
      BY <1>1, <2>1, <3>1, <3>2
         DEF Placed, Fixed, EbdaPlaced, FromLow, FromEbda, FromVram, Before, Early
  <2>2. QED
    BY <1>4, <1>11, <2>1 DEF ReadVbios
<1>12. CASE MapVbios
  <2>1. CASE Map("vbios", vbios_size, VBIOS_BASE) /\ pc' = "sbios"
    <3>1. vbios_size \in Nat /\ VBIOS_BASE \in Nat /\ pc = "vbios" /\ UNCHANGED sizes
      BY <1>1, <1>12, Bounds, SMT DEF VBIOS_BASE, MapVbios, SizesOK
    <3>2. /\ maps'["vbios"] = Host(vbios_size, VBIOS_BASE) /\ EbdaPlaced'
          /\ maps'["real"] = maps["real"] /\ maps'["low"] = maps["low"]
          /\ maps'["vram"] = maps["vram"]
      BY <1>3, <1>9, <2>1, <3>1 DEF FromVram
    <3>3. vbios_size' = vbios_size
      BY <3>1 DEF sizes
    <3>4. QED
      BY <1>1, <2>1, <3>1, <3>2, <3>3 DEF Placed, Fixed, FromLow, FromEbda, FromVram
  <2>2. QED
    BY <1>4, <1>12, <2>1 DEF MapVbios, MapOrFail
<1>13. CASE MapSbios
  <2>1. CASE Map("sbios", SBIOS_SIZE, SBIOS_BASE) /\ pc' = "up"
    <3>1. SBIOS_SIZE \in Nat /\ SBIOS_BASE \in Nat /\ pc = "sbios" /\ UNCHANGED sizes
      BY <1>13, SMT DEF SBIOS_SIZE, SBIOS_BASE, MapSbios
    <3>2. /\ maps'["sbios"] = Host(SBIOS_SIZE, SBIOS_BASE) /\ EbdaPlaced'
          /\ maps'["real"] = maps["real"] /\ maps'["low"] = maps["low"]
          /\ maps'["vram"] = maps["vram"] /\ maps'["vbios"] = maps["vbios"]
      BY <1>3, <1>9, <2>1, <3>1 DEF FromVram
    <3>3. vbios_size' = vbios_size
      BY <3>1 DEF sizes
    <3>4. QED
      BY <1>1, <2>1, <3>1, <3>2, <3>3 DEF Placed, Fixed, FromLow, FromEbda, FromVram
  <2>2. QED
    BY <1>4, <1>13, <2>1 DEF MapSbios, MapOrFail
<1>14. CASE UNCHANGED vars
  BY <1>1, <1>14 DEF vars, Placed, Fixed, EbdaPlaced, EbdaBetween
<1>15. QED
  BY <1>4, <1>5, <1>6, <1>7, <1>8, <1>10, <1>11, <1>12, <1>13, <1>14 DEF Next, v86_mem_cleanup

\* When the daemon is up, all regions are where they belong.
LEMMA PlacedAlways == Spec => [](IInv /\ Placed)
<1>1. Init => Placed
  BY DEF Init, Placed, Fixed, EbdaPlaced, Before, Early, FromLow, FromEbda, FromVram
<1>2. QED
  BY <1>1, InitInvariant, StepInvariant, StepPlaced, PTL DEF Spec

\* The places of the regions, one after the other.
LEMMA Bases ==
  /\ IVTBDA_SIZE \in Nat /\ REAL_MEM_BASE \in Nat /\ REAL_MEM_SIZE \in Nat
  /\ VRAM_BASE \in Nat /\ VRAM_SIZE \in Nat /\ VBIOS_BASE \in Nat
  /\ SBIOS_BASE \in Nat /\ SBIOS_SIZE \in Nat
  /\ IVTBDA_SIZE <= REAL_MEM_BASE /\ REAL_MEM_BASE + REAL_MEM_SIZE <= VRAM_BASE
  /\ VRAM_BASE + VRAM_SIZE <= VBIOS_BASE /\ VBIOS_BASE <= SBIOS_BASE
BY SMT DEF IVTBDA_SIZE, REAL_MEM_BASE, REAL_MEM_SIZE, VRAM_BASE, VRAM_SIZE, VBIOS_BASE,
           SBIOS_BASE, SBIOS_SIZE

\* Where everything is once the daemon is up, in numbers.
LEMMA UpPlaces ==
  ASSUME IInv, Placed, pc = "up"
  PROVE  /\ maps["real"] = Host(REAL_MEM_SIZE, 0)
         /\ maps["low"] = Host(IVTBDA_SIZE, 0)
         /\ maps["vram"] = Host(VRAM_SIZE, VRAM_BASE)
         /\ maps["vbios"] = Host(vbios_size, VBIOS_BASE)
         /\ maps["sbios"] = Host(SBIOS_SIZE, SBIOS_BASE)
         /\ IF "ebda" \in ptr
            THEN EbdaBetween /\ maps["ebda"] = Host(ebda_size + ebda_diff, ebda_start - ebda_diff)
            ELSE maps["ebda"].len = 0
         /\ vbios_size \in Nat /\ VBIOS_BASE + vbios_size <= SBIOS_BASE
         /\ ebda_start \in Nat /\ ebda_size \in Nat /\ ebda_diff \in Nat
<1>1. SizesOK
  BY TypeParts DEF IInv
<1>2. vbios_size \in Nat /\ VBIOS_BASE + vbios_size <= SBIOS_BASE
  BY <1>1, Bases, Bounds, SMT DEF SizesOK
<1>3. ebda_start \in Nat /\ ebda_size \in Nat /\ ebda_diff \in Nat
  BY <1>1, Bounds, SMT DEF SizesOK
<1>4. QED
  BY <1>2, <1>3 DEF Placed, Fixed, EbdaPlaced, FromLow, FromEbda, FromVram

\* An address that vptr takes lies in the region's live mapping and reaches
\* the byte with that address, for every address there is.
LEMMA AddressResolves ==
  ASSUME IInv, Placed, pc = "up", NEW a \in Nat, vptr(a).region # "none"
  PROVE  /\ vptr(a).offset \in 0 .. maps[vptr(a).region].len - 1
         /\ vptr(a).region # "real" => maps[vptr(a).region].phys + vptr(a).offset = a
<1> DEFINE v == vptr(a)
<1>1. CASE v = At("real", a - REAL_MEM_BASE) /\ In(a, REAL_MEM_BASE, REAL_MEM_SIZE)
  BY <1>1, UpPlaces, Bases DEF At, In, Host
<1>2. CASE v = At("vbios", a - VBIOS_BASE) /\ In(a, VBIOS_BASE, vbios_size)
  BY <1>2, UpPlaces, Bases DEF At, In, Host
<1>3. CASE v = At("sbios", a - SBIOS_BASE) /\ In(a, SBIOS_BASE, SBIOS_SIZE)
  BY <1>3, UpPlaces, Bases DEF At, In, Host
<1>4. CASE v = At("vram", a - VRAM_BASE) /\ In(a, VRAM_BASE, VRAM_SIZE)
  BY <1>4, UpPlaces, Bases DEF At, In, Host
<1>5. CASE v = At("low", a) /\ In(a, 0, IVTBDA_SIZE)
  BY <1>5, UpPlaces, Bases DEF At, In, Host
<1>6. CASE v = At("ebda", EbdaOffset(a)) /\ "ebda" \in ptr /\ In(a, ebda_start, ebda_size)
  <2>1. EbdaOffset(a) = a - ebda_start + ebda_diff
    BY DEF EbdaOffset
  <2>2. QED
    BY <1>6, <2>1, UpPlaces DEF At, In, Host
<1>7. CASE v = At("none", 0)
  BY <1>7 DEF At
<1>8. \/ v = At("real", a - REAL_MEM_BASE) /\ In(a, REAL_MEM_BASE, REAL_MEM_SIZE)
      \/ v = At("vbios", a - VBIOS_BASE) /\ In(a, VBIOS_BASE, vbios_size)
      \/ v = At("sbios", a - SBIOS_BASE) /\ In(a, SBIOS_BASE, SBIOS_SIZE)
      \/ v = At("vram", a - VRAM_BASE) /\ In(a, VRAM_BASE, VRAM_SIZE)
      \/ v = At("low", a) /\ In(a, 0, IVTBDA_SIZE)
      \/ v = At("ebda", EbdaOffset(a)) /\ "ebda" \in ptr /\ In(a, ebda_start, ebda_size)
      \/ v = At("none", 0)
  BY SMT DEF vptr
<1>9. QED
  BY <1>1, <1>2, <1>3, <1>4, <1>5, <1>6, <1>7, <1>8

\* An emulated address that vptr accepts lies in a live mapping and reaches the
\* byte of physical memory with that very address, wherever the EBDA is and
\* however long it and the video BIOS say they are.
THEOREM ResolvesHolds == Spec => []Resolves
<1>1. IInv /\ Placed => Resolves
  <2> SUFFICES ASSUME IInv, Placed, pc = "up", NEW a \in Edges, vptr(a).region # "none"
               PROVE  /\ vptr(a).offset \in 0 .. maps[vptr(a).region].len - 1
                      /\ vptr(a).region # "real" =>
                           maps[vptr(a).region].phys + vptr(a).offset = a
    BY DEF Resolves
  <2>1. a \in Nat
    <3>1. \A b \in {0, REAL_MEM_BASE, VBIOS_BASE, SBIOS_BASE, VRAM_BASE, ebda_start,
                    IVTBDA_SIZE, REAL_MEM_BASE + REAL_MEM_SIZE, VRAM_BASE + VRAM_SIZE,
                    VBIOS_BASE + vbios_size, SBIOS_BASE + SBIOS_SIZE,
                    ebda_start + ebda_size} : b \in Nat
      BY UpPlaces, Bases
    <3>2. QED
      BY <3>1 DEF Edges
  <2>2. QED
    BY <2>1, AddressResolves
<1>2. QED
  BY <1>1, PlacedAlways, PTL

\* No two regions show the same byte of physical memory, where pages are at
\* least as long as the vectors and the BIOS data area.
THEOREM WindowsApartHolds ==
  ASSUME PageSize >= IVTBDA_SIZE
  PROVE  Spec => []WindowsApart
<1>1. IInv /\ Placed => WindowsApart
  <2> SUFFICES ASSUME IInv, Placed, pc = "up" PROVE WindowsApart
    BY DEF WindowsApart
  <2> DEFINE Apart(r, s) ==
               \/ maps[r].phys + maps[r].len <= maps[s].phys
               \/ maps[s].phys + maps[s].len <= maps[r].phys
               \/ maps[r].len = 0 \/ maps[s].len = 0
  <2>1. /\ Apart("low", "vram") /\ Apart("low", "vbios") /\ Apart("low", "sbios")
        /\ Apart("vram", "vbios") /\ Apart("vram", "sbios") /\ Apart("vbios", "sbios")
    BY UpPlaces, Bases DEF Host
  <2>2. /\ Apart("ebda", "low") /\ Apart("ebda", "vram")
        /\ Apart("ebda", "vbios") /\ Apart("ebda", "sbios")
    <3>1. CASE "ebda" \in ptr
      BY <3>1, UpPlaces, Bases, PageAssumption DEF Host, EbdaBetween
    <3>2. CASE "ebda" \notin ptr
      BY <3>2, UpPlaces
    <3>3. QED
      BY <3>1, <3>2
  <2>3. \A r, s \in {"low", "vram", "vbios", "sbios", "ebda"} : Apart(r, s) => Apart(s, r)
    OBVIOUS
  <2>4. Regions \ {"real"} = {"low", "vram", "vbios", "sbios", "ebda"}
    BY DEF Regions
  <2>5. \A r, s \in Regions \ {"real"} : r # s => Apart(r, s)
    <3> HIDE DEF Apart
    <3>1. QED
      BY <2>1, <2>2, <2>3, <2>4
  <2>6. QED
    BY <2>5 DEF WindowsApart
<1>2. QED
  BY <1>1, PlacedAlways, PTL
=============================================================================
