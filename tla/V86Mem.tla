------------------------------- MODULE V86Mem -------------------------------
(***************************************************************************)
(* How the daemon brings real-mode memory up and down, and how an emulated *)
(* address finds its host memory: v86_mem.c lines 10-53, 84-106 and        *)
(* 207-341.  Six regions are mapped one after another; every open and mmap *)
(* may fail, the BIOS data area says where the extended one (EBDA) is, the *)
(* EBDA and the video BIOS say how long they are.                          *)
(*                                                                         *)
(* A host mapping is a record of its length and of the offset in /dev/mem  *)
(* it starts at; a pointer variable is the region's name while the region  *)
(* is mapped, and stays set after munmap, as in the code.  The allocator   *)
(* inside the region "real" is RealMem's; its ready flag is kept here.     *)
(***************************************************************************)
EXTENDS Integers

CONSTANTS
  PageSize,    \* getpagesize()
  BdaWords,    \* values the word at 0x40e may have
  EbdaBytes,   \* values the first byte of the EBDA may have
  Headers,     \* what the video BIOS may start with: [signed, blocks]
  Garbage      \* what tmp may hold when nothing was read into it

BYTE_MAX == 255
WORD_MAX == 65535

ASSUME PageAssumption == PageSize \in Nat \ {0}
ASSUME ValueAssumption ==
  /\ BdaWords \subseteq 0 .. WORD_MAX /\ EbdaBytes \subseteq 0 .. BYTE_MAX
  /\ Headers \subseteq [signed : BOOLEAN, blocks : 0 .. BYTE_MAX]
  /\ Garbage \subseteq [signed : BOOLEAN, blocks : 0 .. BYTE_MAX]

IVTBDA_SIZE   == 4096
REAL_MEM_BASE == 65536
REAL_MEM_SIZE == 131072
EBDA_BASE     == 654336
VRAM_BASE     == 655360
VRAM_SIZE     == 131072
VBIOS_BASE    == 786432
SBIOS_BASE    == 917504
SBIOS_SIZE    == 131072

\* What the one byte that says it can make of the size of the EBDA: 255 kB.
EBDA_MAX == 261120

Regions == {"low", "real", "vbios", "sbios", "vram", "ebda"}

VARIABLES
  pc,          \* where v86_mem_init is; "up", "failed" or "down" outside it
  ready,       \* mem_info.ready
  maps,        \* the process's mappings: region -> [len, phys]
  ptr,         \* the regions whose mem_* pointer is not NULL
  ebda_start, ebda_size, ebda_diff, vbios_size,
  header       \* the video BIOS header looked at: was it signed, was it read

vars == <<pc, ready, maps, ptr, ebda_start, ebda_size, ebda_diff, vbios_size, header>>
sizes == <<ebda_start, ebda_size, ebda_diff, vbios_size, header>>

-----------------------------------------------------------------------------
Unmapped == [len |-> 0, phys |-> 0]

\* mmap refuses an empty mapping and an offset that is no multiple of a page.
Mappable(len, offset) == len > 0 /\ offset % PageSize = 0

\* map_file: open and mmap the named region, or leave its pointer NULL.
Map(r, len, offset) ==
  /\ Mappable(len, offset)
  /\ maps' = [maps EXCEPT ![r] = [len |-> len, phys |-> offset]]
  /\ ptr' = ptr \cup {r}

\* The part of the mapping of r that munmap(mem_r, len) leaves behind.
Rest(r, len) ==
  IF maps[r].len <= len THEN Unmapped
  ELSE [len |-> maps[r].len - len, phys |-> maps[r].phys + len]

\* t & -getpagesize()
PageOf(a) == a - (a % PageSize)

\* get_bytes_from_phys can succeed only if the page below addr is not page 0
\* (for page 0 the offset is left unaligned).
Readable(addr) == PageOf(addr) # 0 \/ addr = 0

\* Mutant of CleanupLen: the offset of the EBDA in its page is forgotten.
CleanupLenNoDiff(r) ==
  [low |-> IVTBDA_SIZE, real |-> REAL_MEM_SIZE, vram |-> VRAM_SIZE,
   sbios |-> SBIOS_SIZE, vbios |-> vbios_size, ebda |-> ebda_size][r]

\* The length v86_mem_cleanup passes to munmap.
CleanupLen(r) ==
  [low |-> IVTBDA_SIZE, real |-> REAL_MEM_SIZE, vram |-> VRAM_SIZE,
   sbios |-> SBIOS_SIZE, vbios |-> vbios_size, ebda |-> ebda_size + ebda_diff][r]

\* v86_mem_cleanup: unmap what has a pointer; "real" goes by its ready flag.
Cleanup ==
  /\ maps' = [r \in Regions |->
                IF IF r = "real" THEN ready ELSE r \in ptr
                  THEN Rest(r, CleanupLen(r)) ELSE maps[r]]
  /\ ready' = FALSE
  /\ UNCHANGED ptr

-----------------------------------------------------------------------------
Init ==
  /\ pc = "real" /\ ready = FALSE
  /\ maps = [r \in Regions |-> Unmapped] /\ ptr = {}
  /\ ebda_start = 0 /\ ebda_size = 0 /\ ebda_diff = 0 /\ vbios_size = 0
  /\ header = [signed |-> FALSE, read |-> FALSE]

\* real_mem_init, from /dev/zero.
MapReal ==
  /\ pc = "real"
  /\ \/ /\ Map("real", REAL_MEM_SIZE, 0) /\ ready' = TRUE /\ pc' = "low"
     \/ pc' = "failed" /\ UNCHANGED <<maps, ptr, ready>>
  /\ UNCHANGED sizes

\* Where the EBDA starts according to the word at 0x40e.
EbdaStart(word) ==
  LET start == 16 * word IN
  IF start = 0 \/ start > EBDA_BASE THEN EBDA_BASE ELSE start

MapLow ==
  /\ pc = "low"
  /\ \/ /\ Map("low", IVTBDA_SIZE, 0)
        /\ \E word \in BdaWords : ebda_start' = EbdaStart(word)
        /\ pc' = "ebda_read"
        /\ UNCHANGED ready
     \/ /\ pc' = "failed"
        /\ maps' = [maps EXCEPT !["real"] = Unmapped] /\ ready' = FALSE
        /\ UNCHANGED <<ptr, ebda_start>>
  /\ UNCHANGED <<ebda_size, ebda_diff, vbios_size, header>>

\* Mutant of EbdaSize: an EBDA that runs into the video RAM is not cut.
EbdaSizeUncut(start, byte) == 1024 * byte

\* The size of the EBDA, from its first byte, cut where the video RAM begins.
EbdaSize(start, byte) ==
  IF start + 1024 * byte > VRAM_BASE THEN VRAM_BASE - start ELSE 1024 * byte

ReadEbda ==
  /\ pc = "ebda_read"
  /\ \/ /\ Readable(ebda_start)
        /\ \E byte \in EbdaBytes : ebda_size' = EbdaSize(ebda_start, byte)
        /\ ebda_diff' = IF PageOf(ebda_start) # 0
                          THEN ebda_start - PageOf(ebda_start) ELSE ebda_diff
        /\ pc' = "ebda_map"
     \/ pc' = "vram" /\ UNCHANGED <<ebda_size, ebda_diff>>
  /\ UNCHANGED <<ready, maps, ptr, ebda_start, vbios_size, header>>

\* The daemon does without an EBDA it cannot map.
MapEbda ==
  /\ pc = "ebda_map"
  /\ \/ Map("ebda", ebda_size + ebda_diff, ebda_start - ebda_diff)
     \/ UNCHANGED <<maps, ptr>>
  /\ pc' = "vram"
  /\ UNCHANGED <<ready, sizes>>

\* A region without which v86_mem_init fails.
MapOrFail(r, len, offset, next) ==
  \/ /\ Map(r, len, offset) /\ pc' = next
     /\ UNCHANGED ready
  \/ pc' = "failed" /\ Cleanup

MapVram ==
  /\ pc = "vram" /\ MapOrFail("vram", VRAM_SIZE, VRAM_BASE, "vbios_read")
  /\ UNCHANGED sizes

VbiosSize(blocks) == 512 * blocks

\* The result of get_bytes_from_phys is not looked at: when it fails, tmp still
\* holds what was there before.
ReadVbios ==
  /\ pc = "vbios_read"
  /\ \E read \in BOOLEAN : \E h \in (IF read THEN Headers ELSE Garbage) :
       /\ header' = [signed |-> h.signed, read |-> read]
       /\ \/ /\ h.signed
             /\ vbios_size' = VbiosSize(h.blocks) /\ pc' = "vbios"
             /\ UNCHANGED <<ready, maps, ptr>>
          \/ /\ ~ h.signed
             /\ pc' = "failed" /\ Cleanup
             /\ UNCHANGED vbios_size
  /\ UNCHANGED <<ebda_start, ebda_size, ebda_diff>>

MapVbios ==
  /\ pc = "vbios" /\ MapOrFail("vbios", vbios_size, VBIOS_BASE, "sbios")
  /\ UNCHANGED sizes

MapSbios ==
  /\ pc = "sbios" /\ MapOrFail("sbios", SBIOS_SIZE, SBIOS_BASE, "up")
  /\ UNCHANGED sizes

v86_mem_cleanup ==
  /\ pc = "up" /\ pc' = "down" /\ Cleanup
  /\ UNCHANGED sizes

Next ==
  \/ MapReal \/ MapLow \/ ReadEbda \/ MapEbda \/ MapVram
  \/ ReadVbios \/ MapVbios \/ MapSbios \/ v86_mem_cleanup

Spec == Init /\ [][Next]_vars

-----------------------------------------------------------------------------
\* Mutant of EbdaOffset: the mapping starts on a page, the EBDA need not.
EbdaOffsetNoDiff(addr) == addr - ebda_start

EbdaOffset(addr) == addr - ebda_start + ebda_diff

\* vptr: the region an emulated address belongs to and the offset in it.
In(addr, base, size) == addr >= base /\ addr < base + size
At(r, offset) == [region |-> r, offset |-> offset]
vptr(addr) ==
  CASE In(addr, REAL_MEM_BASE, REAL_MEM_SIZE) -> At("real", addr - REAL_MEM_BASE)
    [] In(addr, VBIOS_BASE, vbios_size)       -> At("vbios", addr - VBIOS_BASE)
    [] In(addr, SBIOS_BASE, SBIOS_SIZE)       -> At("sbios", addr - SBIOS_BASE)
    [] In(addr, VRAM_BASE, VRAM_SIZE)         -> At("vram", addr - VRAM_BASE)
    [] In(addr, 0, IVTBDA_SIZE)               -> At("low", addr)
    [] /\ "ebda" \in ptr
       /\ In(addr, ebda_start, ebda_size)
       /\ ~ In(addr, REAL_MEM_BASE, REAL_MEM_SIZE)
       /\ ~ In(addr, 0, IVTBDA_SIZE)          -> At("ebda", EbdaOffset(addr))
    [] OTHER                                  -> At("none", 0)

-----------------------------------------------------------------------------
\* The first and last bytes of the regions and of their neighbours.
Edges ==
  LET bases == {0, REAL_MEM_BASE, VBIOS_BASE, SBIOS_BASE, VRAM_BASE, ebda_start,
                IVTBDA_SIZE, REAL_MEM_BASE + REAL_MEM_SIZE, VRAM_BASE + VRAM_SIZE,
                VBIOS_BASE + vbios_size, SBIOS_BASE + SBIOS_SIZE,
                ebda_start + ebda_size}
  IN  {a \in bases \cup {b - 1 : b \in bases} : a >= 0}

\* The video BIOS ends before the system BIOS begins, whatever its header says
\* (one byte of 512-byte blocks), and the EBDA starts no later than EBDA_BASE.
TypeOK ==
  /\ pc \in {"real", "low", "ebda_read", "ebda_map", "vram", "vbios_read",
             "vbios", "sbios", "up", "failed", "down"}
  /\ ready \in BOOLEAN
  /\ maps \in [Regions -> [len : Nat, phys : Nat]]
  /\ ptr \subseteq Regions
  /\ ebda_start \in 0 .. EBDA_BASE /\ ebda_size \in 0 .. EBDA_MAX
  /\ ebda_diff \in 0 .. PageSize - 1
  /\ vbios_size \in 0 .. SBIOS_BASE - VBIOS_BASE
  /\ header \in [signed : BOOLEAN, read : BOOLEAN]

\* Whichever open or mmap fails, and after v86_mem_cleanup, everything that was
\* mapped is unmapped again, to the last byte.
Balanced == pc \in {"failed", "down"} => \A r \in Regions : maps[r].len = 0

\* An emulated address that vptr accepts lies in a live mapping of its region
\* and reaches the byte of physical memory with that very address, except in
\* the daemon's own memory.
Resolves ==
  pc = "up" =>
    \A a \in Edges :
      LET v == vptr(a) IN
      v.region # "none" =>
        /\ v.offset \in 0 .. maps[v.region].len - 1
        /\ v.region # "real" => maps[v.region].phys + v.offset = a

\* No two regions show the same byte of physical memory: the EBDA, which may
\* be anywhere below EBDA_BASE, neither reaches into the video RAM nor shows
\* the vectors a second time.
WindowsApart ==
  pc = "up" =>
    \A r, s \in Regions \ {"real"} :
      r # s =>
        \/ maps[r].phys + maps[r].len <= maps[s].phys
        \/ maps[s].phys + maps[s].len <= maps[r].phys
        \/ maps[r].len = 0 \/ maps[s].len = 0

\* "Video BIOS not found" (v86_mem.c line 290): the daemon comes up only on a
\* video BIOS whose signature it has seen.
VbiosSeen == pc = "up" => header.signed /\ header.read
=============================================================================
