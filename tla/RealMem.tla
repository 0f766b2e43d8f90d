------------------------------ MODULE RealMem ------------------------------
(***************************************************************************)
(* The allocator of real-mode memory: v86_mem.c lines 22-31 and 108-205    *)
(* (the x86emu backend), and the same code in libs/lrmi-0.10/lrmi.c lines  *)
(* 76-85 and 135-246 (the vm86 backend, which differs only in the size of  *)
(* its arena).  The stack and the halt stub of the emulator and the buffer *)
(* of every task live in this arena.                                       *)
(*                                                                         *)
(* The table mem_info.blocks partitions the arena in address order; a      *)
(* block does not store its address, the loops add sizes up in r.  The     *)
(* field addr below is an auxiliary component with the value r has when a  *)
(* loop reaches the block; Tiles says that it is that sum.                 *)
(***************************************************************************)
EXTENDS Integers

CONSTANTS
  REAL_MEM_BASE,     \* first address of the arena (0x10000)
  REAL_MEM_SIZE,     \* its size in bytes (0x20000, 0x40000 in LRMI)
  REAL_MEM_BLOCKS,   \* entries of the block table (0x100)
  Requests,          \* the sizes callers allocate
  Strays             \* addresses callers free that no block starts at

\* unsigned int size : 20 -- the size field of a block holds less than this.
FieldRange == 1048576

ASSUME ArenaAssumption ==
  /\ REAL_MEM_BASE \in Nat /\ REAL_MEM_BASE > 0
  /\ REAL_MEM_SIZE \in Nat /\ REAL_MEM_SIZE > 0
  /\ REAL_MEM_SIZE < FieldRange
  /\ REAL_MEM_SIZE % 16 = 0
ASSUME TableAssumption == REAL_MEM_BLOCKS \in Nat /\ REAL_MEM_BLOCKS > 1
ASSUME RequestsAssumption == Requests \subseteq (Nat \ {0})
ASSUME StraysAssumption == Strays \subseteq Nat

VARIABLES
  ready,     \* mem_info.ready
  count,     \* mem_info.count
  blocks,    \* mem_info.blocks, the whole array, stale entries included
  ret        \* what the last v86_mem_alloc returned

vars == <<ready, count, blocks, ret>>

Slots == 0 .. REAL_MEM_BLOCKS - 1
Block == [addr : Nat, size : 0 .. FieldRange - 1, free : BOOLEAN]

\* A store to the size field keeps the low 20 bits.
Bits20(n) == n % FieldRange

\* Mutant of RoundUp: sizes are not rounded.
RoundUpNot(size) == size

\* (size + 15) & ~15
RoundUp(size) == 16 * ((size + 15) \div 16)

\* memmove the entries i .. n-1 of table b one slot up, or i+1 .. n-1 one down.
insert_block(b, n, i) ==
  [j \in Slots |-> IF j \in i + 1 .. n THEN b[j - 1] ELSE b[j]]
delete_block(b, n, i) ==
  [j \in Slots |-> IF j \in i .. n - 2 THEN b[j + 1] ELSE b[j]]

Init ==
  /\ ready = FALSE
  /\ count = 0
  /\ blocks = [j \in Slots |-> [addr |-> 0, size |-> 0, free |-> FALSE]]
  /\ ret = 0

real_mem_init ==
  /\ ~ ready          \* else it returns 0 at once; if the mapping fails, 1
  /\ ready' = TRUE
  /\ count' = 1
  /\ blocks' = [blocks EXCEPT ![0] = [addr |-> REAL_MEM_BASE,
                                      size |-> Bits20(REAL_MEM_SIZE),
                                      free |-> TRUE]]
  /\ UNCHANGED ret

real_mem_deinit == ready /\ ready' = FALSE /\ UNCHANGED <<count, blocks, ret>>

-----------------------------------------------------------------------------
\* Mutant of TableFull: the table is filled one entry too far.
TableFullLate == count > REAL_MEM_BLOCKS

TableFull == count = REAL_MEM_BLOCKS

\* Mutant of Fits: an exact fit is taken and leaves an empty block behind.
FitsLoosely(i, need) == blocks[i].free /\ need <= blocks[i].size

\* Mutant of Fits: a block is not asked whether it is free.
FitsUsed(i, need) == need < blocks[i].size

Fits(i, need) == blocks[i].free /\ need < blocks[i].size

\* The loop of v86_mem_alloc stops at the first block that fits.
FirstFit(i, need) ==
  /\ i \in 0 .. count - 1
  /\ Fits(i, need)
  /\ \A j \in 0 .. i - 1 : ~ Fits(j, need)

\* Mutant of Split: the tail keeps the size of the whole block.
SplitUncut(i, need) ==
  [insert_block(blocks, count, i) EXCEPT
     ![i] = [addr |-> blocks[i].addr, size |-> Bits20(need), free |-> FALSE],
     ![i + 1].addr = blocks[i].addr + need]

\* The head of block i becomes the allocation, its tail stays free.
Split(i, need) ==
  [insert_block(blocks, count, i) EXCEPT
     ![i] = [addr |-> blocks[i].addr, size |-> Bits20(need), free |-> FALSE],
     ![i + 1] = [addr |-> blocks[i].addr + need,
                 size |-> Bits20(blocks[i].size - need),
                 free |-> blocks[i].free]]

AllocTake(size) ==
  /\ ready
  /\ ~ TableFull
  /\ \E i \in Slots :
       /\ FirstFit(i, RoundUp(size))
       /\ blocks' = Split(i, RoundUp(size))
       /\ ret' = blocks[i].addr
  /\ count' = count + 1
  /\ UNCHANGED ready

AllocFail(size) ==
  /\ \/ ~ ready
     \/ TableFull
     \/ \A i \in 0 .. count - 1 : ~ Fits(i, RoundUp(size))
  /\ ret' = 0
  /\ UNCHANGED <<ready, count, blocks>>

v86_mem_alloc(size) == AllocTake(size) \/ AllocFail(size)

-----------------------------------------------------------------------------
\* The loop of v86_mem_free stops at the first block that starts at m.
StartsAt(i, m) ==
  /\ i \in 0 .. count - 1
  /\ blocks[i].addr = m
  /\ \A j \in 0 .. i - 1 : blocks[j].addr # m

\* A table: the array and how many of its entries are in use.  Absorb adds
\* block i + 1 to block i and deletes it.
Table(b, n) == [blocks |-> b, count |-> n]
Absorb(t, i) ==
  Table(delete_block([t.blocks EXCEPT
                        ![i].size = Bits20(@ + t.blocks[i + 1].size)],
                     t.count, i + 1),
        t.count - 1)

\* Mutant of MergeNext and MergePrev: the neighbour is left alone.
MergeNot(t, i) == t

MergeNext(t, i) ==
  IF i + 1 < t.count /\ t.blocks[i + 1].free THEN Absorb(t, i) ELSE t

MergePrev(t, i) ==
  IF i - 1 >= 0 /\ t.blocks[i - 1].free THEN Absorb(t, i - 1) ELSE t

MarkFree(b, i) == [b EXCEPT ![i].free = TRUE]

FreeHit(m) ==
  /\ ready
  /\ \E i \in Slots :
       LET freed == Table(MarkFree(blocks, i), count)
           t     == MergePrev(MergeNext(freed, i), i)
       IN /\ StartsAt(i, m)
          /\ blocks' = t.blocks
          /\ count' = t.count
  /\ UNCHANGED <<ready, ret>>

FreeMiss(m) ==
  /\ ~ ready \/ \A i \in 0 .. count - 1 : blocks[i].addr # m
  /\ UNCHANGED vars

v86_mem_free(m) == FreeHit(m) \/ FreeMiss(m)

-----------------------------------------------------------------------------
\* Callers free what they allocated, but also 0 (a task without a buffer),
\* addresses inside a block and blocks that are free already.
Addresses == Strays \cup {blocks[i].addr : i \in 0 .. count - 1}

Next ==
  \/ real_mem_init
  \/ real_mem_deinit
  \/ \E size \in Requests : v86_mem_alloc(size)
  \/ \E m \in Addresses : v86_mem_free(m)

Spec == Init /\ [][Next]_vars

-----------------------------------------------------------------------------
Live == {[addr |-> blocks[i].addr, size |-> blocks[i].size] :
           i \in {j \in 0 .. count - 1 : ready /\ ~ blocks[j].free}}

TypeOK ==
  /\ ready \in BOOLEAN
  /\ count \in 0 .. REAL_MEM_BLOCKS
  /\ blocks \in [Slots -> Block]
  /\ ret \in Nat

\* The blocks of the table tile the arena: the first starts at its base, each
\* one starts where the one before it ends, the last ends at the arena's end.
\* The loops of v86_mem_alloc and v86_mem_free find addresses by adding sizes
\* up, so a single wrong size would move every later block.
Tiles ==
  ready =>
    /\ count >= 1
    /\ blocks[0].addr = REAL_MEM_BASE
    /\ \A i \in 0 .. count - 2 :
         blocks[i + 1].addr = blocks[i].addr + blocks[i].size
    /\ blocks[count - 1].addr + blocks[count - 1].size =
         REAL_MEM_BASE + REAL_MEM_SIZE

\* v86_mem_free merges with both neighbours and v86_mem_alloc splits a free
\* block, so no two neighbours are ever free: fragments do not build up over
\* the life of the daemon and fill the table.
Coalesced ==
  ready => \A i \in 0 .. count - 2 : ~ (blocks[i].free /\ blocks[i + 1].free)

\* v86_mem_alloc takes a block only if it is strictly larger than the request:
\* no block is ever empty and the last block of the arena is always free.
SpareTail ==
  ready =>
    /\ blocks[count - 1].free
    /\ \A i \in 0 .. count - 1 : blocks[i].size > 0

\* Whatever was allocated and freed and in whatever order, once nothing is
\* live the table is the single free block it started as.
NoLeak ==
  (ready /\ Live = {}) =>
    /\ count = 1
    /\ blocks[0].addr = REAL_MEM_BASE
    /\ blocks[0].size = REAL_MEM_SIZE

\* The block table implements the abstract heap: chunks handed out lie in the
\* arena, on paragraphs and apart from each other, and no operation moves,
\* resizes or drops a chunk that is not the one being freed.
H == INSTANCE Heap WITH
       Base <- REAL_MEM_BASE, Size <- REAL_MEM_SIZE,
       up <- ready, live <- Live
HeapSpec == H!Spec
=============================================================================
