--------------------------- MODULE RealMemProofs ---------------------------
(***************************************************************************)
(* Proofs about the allocator of real-mode memory, for every arena, table  *)
(* size and set of requests that the assumptions of RealMem allow.         *)
(***************************************************************************)
EXTENDS RealMem, TLAPS

\* An array as the C program declares it.
Array == [Slots -> Block]

\* The modulus of the 20-bit fields is a positive number.
LEMMA FieldRangeType == FieldRange \in Nat /\ FieldRange > 0
BY SMT DEF FieldRange

\* What is stored in a 20-bit field fits it.
LEMMA Bits20Type ==
  ASSUME NEW n \in Nat
  PROVE  Bits20(n) \in 0 .. FieldRange - 1
BY FieldRangeType DEF Bits20

\* A value below 2^20 survives the store to the bit field.
LEMMA Bits20Fits ==
  ASSUME NEW n \in Nat, n < FieldRange
  PROVE  Bits20(n) = n
BY FieldRangeType DEF Bits20

\* A rounded request is a number.
LEMMA RoundUpType ==
  ASSUME NEW size \in Nat \ {0}
  PROVE  /\ RoundUp(size) \in Nat
         /\ RoundUp(size) >= size
         /\ RoundUp(size) % 16 = 0
BY DEF RoundUp

\* Moving entries keeps an array an array, whatever the position.
LEMMA InsertType ==
  ASSUME NEW b \in Array, NEW n \in 0 .. REAL_MEM_BLOCKS, NEW i \in Nat
  PROVE  insert_block(b, n, i) \in Array
<1> SUFFICES ASSUME NEW j \in Slots
             PROVE  (IF j \in i + 1 .. n THEN b[j - 1] ELSE b[j]) \in Block
    BY DEF insert_block, Array
<1>1. j \in i + 1 .. n => j - 1 \in Slots
    BY TableAssumption DEF Slots
<1> QED BY <1>1 DEF Array

\* delete_block keeps the entries of the table what they are.
LEMMA DeleteType ==
  ASSUME NEW b \in Array, NEW n \in 0 .. REAL_MEM_BLOCKS, NEW i \in Nat
  PROVE  delete_block(b, n, i) \in Array
<1> SUFFICES ASSUME NEW j \in Slots
             PROVE  (IF j \in i .. n - 2 THEN b[j + 1] ELSE b[j]) \in Block
    BY DEF delete_block, Array
<1>1. j \in i .. n - 2 => j + 1 \in Slots
    BY TableAssumption DEF Slots
<1> QED BY <1>1 DEF Array

-----------------------------------------------------------------------------
(***************************************************************************)
(* Type correctness: no operation leaves the table with more entries than  *)
(* it has room for, or with a size its 20-bit field cannot hold.           *)
(***************************************************************************)
LEMMA AbsorbType ==
  ASSUME NEW b \in Array, NEW n \in 0 .. REAL_MEM_BLOCKS,
         NEW i \in Nat, i + 1 < n
  PROVE  /\ Absorb(Table(b, n), i).blocks \in Array
         /\ Absorb(Table(b, n), i).count = n - 1
<1> DEFINE merged == [b EXCEPT ![i].size = Bits20(@ + b[i + 1].size)]
<1>1. i \in Slots /\ i + 1 \in Slots
    BY TableAssumption DEF Slots
<1>2. b[i] \in Block /\ b[i + 1] \in Block
    BY <1>1 DEF Array
<1>3. Bits20(b[i].size + b[i + 1].size) \in 0 .. FieldRange - 1
    BY <1>2, Bits20Type, FieldRangeType DEF Block
<1>4. merged \in Array
    BY <1>1, <1>2, <1>3 DEF Array, Block
<1>5. delete_block(merged, n, i + 1) \in Array
    BY <1>4, DeleteType
<1> QED BY <1>5 DEF Absorb, Table

\* Both merges of v86_mem_free keep the types.
LEMMA MergeType ==
  ASSUME NEW b \in Array, NEW n \in 0 .. REAL_MEM_BLOCKS,
         NEW i \in 0 .. n - 1
  PROVE  LET t == MergePrev(MergeNext(Table(b, n), i), i)
         IN  t.blocks \in Array /\ t.count \in 0 .. REAL_MEM_BLOCKS
<1> DEFINE u == MergeNext(Table(b, n), i)
<1>1. /\ u = Table(u.blocks, u.count)
      /\ u.blocks \in Array
      /\ u.count \in 0 .. REAL_MEM_BLOCKS
      /\ i < u.count
  <2>1. CASE i + 1 < n /\ b[i + 1].free
      BY <2>1, AbsorbType, TableAssumption DEF MergeNext, Absorb, Table
  <2>2. CASE ~ (i + 1 < n /\ b[i + 1].free)
      BY <2>2 DEF MergeNext, Table
  <2> QED BY <2>1, <2>2
<1>2. CASE i - 1 >= 0 /\ u.blocks[i - 1].free
  <2>1. MergePrev(u, i) = Absorb(Table(u.blocks, u.count), i - 1)
      BY <1>1, <1>2 DEF MergePrev
  <2> QED BY <2>1, <1>1, <1>2, AbsorbType, TableAssumption
<1>3. CASE ~ (i - 1 >= 0 /\ u.blocks[i - 1].free)
    BY <1>1, <1>3 DEF MergePrev
<1> QED BY <1>2, <1>3

\* Splitting a block keeps the types, if the table has an entry left.
LEMMA SplitType ==
  ASSUME TypeOK, NEW i \in 0 .. count - 1, NEW need \in Nat,
         need < blocks[i].size
  PROVE  Split(i, need) \in Array
<1> DEFINE b == insert_block(blocks, count, i)
<1>1. i \in Slots /\ blocks[i] \in Block /\ count \in 0 .. REAL_MEM_BLOCKS
    BY TableAssumption DEF TypeOK, Slots
<1>2. b \in Array
    BY <1>1, InsertType DEF TypeOK, Array, Slots
<1>3. blocks[i].addr \in Nat /\ blocks[i].size \in Nat
      /\ blocks[i].free \in BOOLEAN
    BY <1>1, FieldRangeType DEF Block
<1>4. [addr |-> blocks[i].addr, size |-> Bits20(need), free |-> FALSE] \in Block
    BY <1>3, Bits20Type DEF Block
<1>5. [addr |-> blocks[i].addr + need, size |-> Bits20(blocks[i].size - need),
       free |-> blocks[i].free] \in Block
  <2>1. blocks[i].size - need \in Nat
      BY <1>3
  <2> QED BY <1>3, <2>1, Bits20Type DEF Block
<1>6. \A x, y \in Block : [b EXCEPT ![i] = x, ![i + 1] = y] \in Array
    BY <1>2 DEF Array
<1> QED BY <1>4, <1>5, <1>6 DEF Split

\* TypeOK holds initially.
LEMMA TypeInit == Init => TypeOK
<1>1. [addr |-> 0, size |-> 0, free |-> FALSE] \in Block
    BY FieldRangeType DEF Block
<1>2. Init => blocks \in [Slots -> Block]
    BY <1>1 DEF Init
<1>3. Init => count \in 0 .. REAL_MEM_BLOCKS /\ ret \in Nat
    BY TableAssumption DEF Init
<1>4. Init => ready \in BOOLEAN
    BY DEF Init
<1> QED BY <1>2, <1>3, <1>4 DEF TypeOK

\* TypeOK is inductive by itself.
LEMMA TypeStep == TypeOK /\ [Next]_vars => TypeOK'
<1> SUFFICES ASSUME TypeOK, [Next]_vars
             PROVE  TypeOK'
    OBVIOUS
<1> USE DEF TypeOK
<1>1. CASE real_mem_init
  <2>1. [addr |-> REAL_MEM_BASE, size |-> Bits20(REAL_MEM_SIZE),
         free |-> TRUE] \in Block
      BY ArenaAssumption, Bits20Type DEF Block
  <2>2. \A x \in Block : [blocks EXCEPT ![0] = x] \in [Slots -> Block]
      OBVIOUS
  <2>3. blocks' \in [Slots -> Block]
      BY <1>1, <2>1, <2>2 DEF real_mem_init
  <2>4. ready' \in BOOLEAN /\ ret' \in Nat /\ count' \in 0 .. REAL_MEM_BLOCKS
      BY <1>1, TableAssumption DEF real_mem_init
  <2> QED BY <2>3, <2>4
<1>2. CASE real_mem_deinit
    BY <1>2 DEF real_mem_deinit
<1>3. ASSUME NEW size \in Requests, AllocTake(size)
      PROVE  TypeOK'
  <2>1. RoundUp(size) \in Nat
      BY RequestsAssumption, RoundUpType
  <2>2. PICK i \in Slots : /\ FirstFit(i, RoundUp(size))
                           /\ blocks' = Split(i, RoundUp(size))
                           /\ ret' = blocks[i].addr
      BY <1>3 DEF AllocTake
  <2>3. i \in 0 .. count - 1 /\ RoundUp(size) < blocks[i].size
      BY <2>2 DEF FirstFit, Fits
  <2>4. blocks' \in [Slots -> Block]
      BY <2>1, <2>2, <2>3, SplitType DEF Array
  <2>5. ret' \in Nat
      BY <2>2 DEF Block
  <2>6. count' \in 0 .. REAL_MEM_BLOCKS
      BY <1>3, TableAssumption DEF AllocTake, TableFull
  <2> QED BY <1>3, <2>4, <2>5, <2>6 DEF AllocTake
<1>4. ASSUME NEW size \in Requests, AllocFail(size)
      PROVE  TypeOK'
    BY <1>4 DEF AllocFail
<1>5. ASSUME NEW m \in Addresses, FreeHit(m)
      PROVE  TypeOK'
  <2>1. PICK i \in Slots :
          LET freed == Table(MarkFree(blocks, i), count)
              t     == MergePrev(MergeNext(freed, i), i)
          IN  i \in 0 .. count - 1 /\ blocks' = t.blocks /\ count' = t.count
      BY <1>5 DEF FreeHit, StartsAt
  <2>2. MarkFree(blocks, i) \in Array
      BY DEF Array, Block, MarkFree
  <2>3. count' \in 0 .. REAL_MEM_BLOCKS /\ blocks' \in Array
      BY <2>1, <2>2, MergeType
  <2> QED BY <1>5, <2>3 DEF FreeHit, Array
<1>6. ASSUME NEW m \in Addresses, FreeMiss(m)
      PROVE  TypeOK'
    BY <1>6 DEF FreeMiss, vars
<1>7. CASE UNCHANGED vars
    BY <1>7 DEF vars
<1> HIDE DEF TypeOK
<1> QED BY <1>1, <1>2, <1>3, <1>4, <1>5, <1>6, <1>7
        DEF Next, v86_mem_alloc, v86_mem_free

\* Every reachable state is well typed: the table never holds more blocks than
\* it has entries and no size overflows its field (v86_mem.c 22-31).
THEOREM TypeCorrect == Spec => []TypeOK
BY TypeInit, TypeStep, PTL DEF Spec
-----------------------------------------------------------------------------
(***************************************************************************)
(* The inductive invariant.  Tiles and SpareTail are not inductive alone:  *)
(* that merging two blocks does not overflow the size field needs every    *)
(* block to lie in the arena, and from adjacent blocks that follows only   *)
(* by induction.  Ordered states its conclusion, that any two blocks are   *)
(* in order, and carries it from step to step.                             *)
(***************************************************************************)
Layout(b, n) ==
  /\ n >= 1
  /\ b[0].addr = REAL_MEM_BASE
  /\ b[n - 1].addr + b[n - 1].size = REAL_MEM_BASE + REAL_MEM_SIZE
  /\ b[n - 1].free
  /\ \A j \in 0 .. n - 2 : b[j + 1].addr = b[j].addr + b[j].size
  /\ \A j \in 0 .. n - 1 : b[j].size > 0
Ordered(b, n) ==
  \A j, k \in 0 .. n - 1 : j < k => b[j].addr + b[j].size <= b[k].addr
Aligned(b, n) ==
  \A j \in 0 .. n - 1 : (b[j].addr - REAL_MEM_BASE) % 16 = 0 /\ b[j].size % 16 = 0
Sound(b, n) == Layout(b, n) /\ Ordered(b, n) /\ Aligned(b, n)

\* Only the pair (i, i + 1) of neighbours may be free together.
ApartBut(b, n, i) ==
  \A j \in 0 .. n - 2 : b[j].free /\ b[j + 1].free => j = i
Apart(b, n) == \A j \in 0 .. n - 2 : ~ (b[j].free /\ b[j + 1].free)

IInv == TypeOK /\ (ready => Sound(blocks, count) /\ Apart(blocks, count))

\* Every block lies in the arena, so a block's size fits its field.
LEMMA InArena ==
  ASSUME NEW b \in Array, NEW n \in 0 .. REAL_MEM_BLOCKS, Sound(b, n),
         NEW j \in 0 .. n - 1
  PROVE  /\ b[j].addr >= REAL_MEM_BASE
         /\ b[j].addr + b[j].size <= REAL_MEM_BASE + REAL_MEM_SIZE
<1>1. \A k \in 0 .. n - 1 : k \in Slots /\ b[k].addr \in Nat /\ b[k].size \in Nat
    BY TableAssumption, FieldRangeType DEF Array, Block, Slots
<1>2. b[j].addr >= REAL_MEM_BASE
    BY <1>1, ArenaAssumption, TableAssumption DEF Sound, Layout, Ordered
<1>3. b[j].addr + b[j].size <= REAL_MEM_BASE + REAL_MEM_SIZE
    BY <1>1, ArenaAssumption, TableAssumption DEF Sound, Layout, Ordered
<1> QED BY <1>2, <1>3

\* What Absorb does to each entry of the table.
LEMMA AbsorbShape ==
  ASSUME NEW b \in Array, NEW n \in 0 .. REAL_MEM_BLOCKS, Sound(b, n),
         NEW i \in Nat, i + 1 < n
  PROVE  LET c == Absorb(Table(b, n), i).blocks
         IN  /\ \A j \in 0 .. i - 1 : c[j] = b[j]
             /\ c[i].addr = b[i].addr
             /\ c[i].size = b[i].size + b[i + 1].size
             /\ c[i].free = b[i].free
             /\ \A j \in i + 1 .. n - 2 : c[j] = b[j + 1]
<1> DEFINE merged == [b EXCEPT ![i].size = Bits20(@ + b[i + 1].size)]
           c      == Absorb(Table(b, n), i).blocks
<1>1. /\ i \in 0 .. n - 1 /\ i + 1 \in 0 .. n - 1
      /\ i \in Slots /\ i + 1 \in Slots
      /\ \A k \in 0 .. n - 1 : k \in Slots
    BY TableAssumption DEF Slots
<1>2. b[i] \in Block /\ b[i + 1] \in Block
    BY <1>1 DEF Array
<1>3. /\ b[i].addr \in Nat /\ b[i + 1].addr \in Nat
      /\ b[i].size \in Nat /\ b[i + 1].size \in Nat
    BY <1>2, FieldRangeType DEF Block
<1>4. b[i + 1].addr = b[i].addr + b[i].size
    BY TableAssumption DEF Sound, Layout
<1>5. b[i].size + b[i + 1].size < FieldRange
    BY <1>1, <1>3, <1>4, InArena, ArenaAssumption, FieldRangeType
<1>6. Bits20(b[i].size + b[i + 1].size) = b[i].size + b[i + 1].size
    BY <1>3, <1>5, Bits20Fits
<1>7. /\ merged[i].addr = b[i].addr
      /\ merged[i].size = b[i].size + b[i + 1].size
      /\ merged[i].free = b[i].free
      /\ \A k \in Slots : k # i => merged[k] = b[k]
    BY <1>1, <1>2, <1>6 DEF Array, Block
<1>8. \A k \in Slots : c[k] = IF k \in i + 1 .. n - 2 THEN merged[k + 1] ELSE merged[k]
    BY DEF Absorb, Table, delete_block
<1> HIDE DEF merged, c
<1>9. \A j \in 0 .. i - 1 : c[j] = b[j]
    BY <1>1, <1>7, <1>8, TableAssumption
<1>10. c[i] = merged[i]
    BY <1>1, <1>8
<1>11. \A j \in i + 1 .. n - 2 : c[j] = b[j + 1]
  <2> TAKE j \in i + 1 .. n - 2
  <2>1. j \in Slots /\ j + 1 \in Slots /\ j + 1 # i
      BY TableAssumption DEF Slots
  <2> QED BY <2>1, <1>7, <1>8
<1> QED BY <1>7, <1>9, <1>10, <1>11 DEF c

\* Fields of the entries in use, for the arithmetic below.
LEMMA EntryTypes ==
  ASSUME NEW b \in Array, NEW n \in 0 .. REAL_MEM_BLOCKS
  PROVE  \A j \in 0 .. n - 1 : /\ j \in Slots /\ b[j] \in Block
                               /\ b[j].addr \in Nat /\ b[j].size \in Nat
                               /\ b[j].free \in BOOLEAN
<1>1. \A j \in 0 .. n - 1 : j \in Slots
    BY TableAssumption DEF Slots
<1>2. \A j \in 0 .. n - 1 : b[j] \in Block
    BY <1>1 DEF Array
<1> QED BY <1>1, <1>2, FieldRangeType DEF Block

\* Two free neighbours may be merged.
LEMMA AbsorbSound ==
  ASSUME NEW b \in Array, NEW n \in 0 .. REAL_MEM_BLOCKS, Sound(b, n),
         NEW i \in Nat, i + 1 < n, b[i].free
  PROVE  Sound(Absorb(Table(b, n), i).blocks, n - 1)
<1> DEFINE c == Absorb(Table(b, n), i).blocks
<1>1. \A j \in 0 .. n - 1 : b[j].addr \in Nat /\ b[j].size \in Nat
    BY EntryTypes
<1>2. /\ \A j \in 0 .. i - 1 : c[j] = b[j]
      /\ c[i].addr = b[i].addr
      /\ c[i].size = b[i].size + b[i + 1].size
      /\ c[i].free = b[i].free
      /\ \A j \in i + 1 .. n - 2 : c[j] = b[j + 1]
    BY AbsorbShape
<1>3. b[i + 1].addr = b[i].addr + b[i].size
    BY TableAssumption DEF Sound, Layout
<1> HIDE DEF c
<1>4. \A j \in 0 .. n - 2 :
        /\ c[j].addr = (IF j <= i THEN b[j].addr ELSE b[j + 1].addr)
        /\ c[j].size = (IF j < i THEN b[j].size
                        ELSE IF j = i THEN b[i].size + b[i + 1].size
                        ELSE b[j + 1].size)
    BY <1>2, TableAssumption
<1>5. c[0].addr = REAL_MEM_BASE
    BY <1>4, TableAssumption DEF Sound, Layout
<1>6. c[n - 2].addr + c[n - 2].size = REAL_MEM_BASE + REAL_MEM_SIZE
  <2>1. b[n - 1].addr + b[n - 1].size = REAL_MEM_BASE + REAL_MEM_SIZE
      BY DEF Sound, Layout
  <2>2. CASE i = n - 2
      BY <2>1, <2>2, <1>1, <1>2, <1>3, TableAssumption
  <2>3. CASE i < n - 2
      BY <2>1, <2>3, <1>4, TableAssumption
  <2> QED BY <2>2, <2>3, TableAssumption
<1>7. c[n - 2].free
  <2>1. b[n - 1].free
      BY DEF Sound, Layout
  <2>2. CASE i = n - 2
      BY <2>2, <1>2
  <2>3. CASE i < n - 2
    <3>1. n - 2 \in i + 1 .. n - 2 /\ (n - 2) + 1 = n - 1
        BY <2>3, TableAssumption
    <3>2. c[n - 2] = b[(n - 2) + 1]
        BY <3>1, <1>2
    <3> QED BY <2>1, <3>1, <3>2
  <2> QED BY <2>2, <2>3, TableAssumption
<1>8. \A j \in 0 .. n - 3 : c[j + 1].addr = c[j].addr + c[j].size
    BY <1>1, <1>3, <1>4, TableAssumption DEF Sound, Layout
<1>9. \A j \in 0 .. n - 2 : c[j].size > 0
    BY <1>1, <1>4, TableAssumption DEF Sound, Layout
<1>10. Ordered(c, n - 1)
  <2> SUFFICES ASSUME NEW j \in 0 .. n - 2, NEW k \in 0 .. n - 2, j < k
               PROVE  c[j].addr + c[j].size <= c[k].addr
      BY DEF Ordered
  <2>1. CASE j = i
    <3>1. b[i + 1].addr + b[i + 1].size <= b[k + 1].addr
        BY <2>1, TableAssumption DEF Sound, Ordered
    <3> QED BY <2>1, <3>1, <1>1, <1>3, <1>4, TableAssumption
  <2>2. CASE j # i
      BY <2>2, <1>1, <1>4, TableAssumption DEF Sound, Ordered
  <2> QED BY <2>1, <2>2
<1>11. Aligned(c, n - 1)
  <2> SUFFICES ASSUME NEW j \in 0 .. n - 2
               PROVE  (c[j].addr - REAL_MEM_BASE) % 16 = 0 /\ c[j].size % 16 = 0
      BY DEF Aligned
  <2>1. \A k \in 0 .. n - 1 : (b[k].addr - REAL_MEM_BASE) % 16 = 0 /\ b[k].size % 16 = 0
      BY DEF Sound, Aligned
  <2>2. (b[i].size + b[i + 1].size) % 16 = 0
      BY <2>1, <1>1, TableAssumption
  <2> QED BY <2>1, <2>2, <1>1, <1>4, TableAssumption
<1> QED BY <1>5, <1>6, <1>7, <1>8, <1>9, <1>10, <1>11, TableAssumption
        DEF Sound, Layout, c

\* What v86_mem_alloc does to each entry of the table.
LEMMA SplitShape ==
  ASSUME TypeOK, Sound(blocks, count), NEW i \in 0 .. count - 1,
         count < REAL_MEM_BLOCKS,
         NEW need \in Nat, need < blocks[i].size
  PROVE  LET c == Split(i, need)
         IN  /\ \A j \in 0 .. i - 1 : c[j] = blocks[j]
             /\ c[i] = [addr |-> blocks[i].addr, size |-> need, free |-> FALSE]
             /\ c[i + 1] = [addr |-> blocks[i].addr + need,
                            size |-> blocks[i].size - need,
                            free |-> blocks[i].free]
             /\ \A j \in i + 2 .. count : c[j] = blocks[j - 1]
<1> DEFINE b == insert_block(blocks, count, i)
           c == Split(i, need)
<1>1. blocks \in Array /\ count \in 0 .. REAL_MEM_BLOCKS
    BY DEF TypeOK, Array
<1>2. i \in Slots /\ i + 1 \in Slots /\ \A j \in 0 .. count : j \in Slots
    BY <1>1, TableAssumption DEF Slots
<1>3. blocks[i].size \in Nat /\ blocks[i].size < FieldRange
  <2>1. blocks[i] \in Block
      BY <1>1, <1>2 DEF Array
  <2> QED BY <2>1, FieldRangeType DEF Block
<1>4. Bits20(need) = need /\ Bits20(blocks[i].size - need) = blocks[i].size - need
    BY <1>3, Bits20Fits, FieldRangeType
<1>5. \A j \in Slots : b[j] = IF j \in i + 1 .. count THEN blocks[j - 1] ELSE blocks[j]
    BY DEF insert_block
<1>6. DOMAIN b = Slots
    BY DEF insert_block
<1>7. c = [b EXCEPT ![i] = [addr |-> blocks[i].addr, size |-> need, free |-> FALSE],
                    ![i + 1] = [addr |-> blocks[i].addr + need,
                                size |-> blocks[i].size - need,
                                free |-> blocks[i].free]]
    BY <1>4 DEF Split
<1> HIDE DEF b, c
<1>8. \A j \in 0 .. i - 1 : c[j] = blocks[j]
    BY <1>1, <1>2, <1>5, <1>6, <1>7
<1>9. \A j \in i + 2 .. count : c[j] = blocks[j - 1]
    BY <1>1, <1>2, <1>5, <1>6, <1>7
<1>10. /\ c[i] = [addr |-> blocks[i].addr, size |-> need, free |-> FALSE]
       /\ c[i + 1] = [addr |-> blocks[i].addr + need,
                      size |-> blocks[i].size - need,
                      free |-> blocks[i].free]
  <2>1. i # i + 1
      BY TableAssumption
  <2> QED BY <2>1, <1>2, <1>6, <1>7
<1> QED BY <1>8, <1>9, <1>10 DEF c

\* Splitting a free block into an allocation and a free rest.
LEMMA SplitSound ==
  ASSUME TypeOK, Sound(blocks, count), Apart(blocks, count),
         NEW i \in 0 .. count - 1, count < REAL_MEM_BLOCKS, blocks[i].free,
         NEW need \in Nat, 0 < need, need < blocks[i].size, need % 16 = 0
  PROVE  /\ Sound(Split(i, need), count + 1)
         /\ Apart(Split(i, need), count + 1)
<1> DEFINE c == Split(i, need)
<1>1. /\ blocks \in Array /\ count \in 0 .. REAL_MEM_BLOCKS
      /\ count \in Nat /\ count >= 1
    BY TableAssumption DEF TypeOK, Array, Sound, Layout
<1>2. \A j \in 0 .. count - 1 : blocks[j].addr \in Nat /\ blocks[j].size \in Nat
    BY <1>1, EntryTypes
<1>3. /\ \A j \in 0 .. i - 1 : c[j] = blocks[j]
      /\ c[i] = [addr |-> blocks[i].addr, size |-> need, free |-> FALSE]
      /\ c[i + 1] = [addr |-> blocks[i].addr + need,
                     size |-> blocks[i].size - need,
                     free |-> blocks[i].free]
      /\ \A j \in i + 2 .. count : c[j] = blocks[j - 1]
    BY SplitShape
<1> HIDE DEF c
<1>4. \A j \in 0 .. count :
        /\ c[j].addr = (IF j <= i THEN blocks[j].addr
                        ELSE IF j = i + 1 THEN blocks[i].addr + need
                        ELSE blocks[j - 1].addr)
        /\ c[j].size = (IF j < i THEN blocks[j].size
                        ELSE IF j = i THEN need
                        ELSE IF j = i + 1 THEN blocks[i].size - need
                        ELSE blocks[j - 1].size)
    BY <1>1, <1>3
<1>5. \A j \in 0 .. count :
        c[j].free <=> IF j < i THEN blocks[j].free
                      ELSE IF j = i THEN FALSE ELSE blocks[j - 1].free
    BY <1>1, <1>3
<1>6. c[0].addr = REAL_MEM_BASE
    BY <1>1, <1>4 DEF Sound, Layout
<1>7. c[count].addr + c[count].size = REAL_MEM_BASE + REAL_MEM_SIZE
  <2>1. blocks[count - 1].addr + blocks[count - 1].size =
          REAL_MEM_BASE + REAL_MEM_SIZE
      BY DEF Sound, Layout
  <2>2. CASE i = count - 1
    <3>1. c[count].addr = blocks[i].addr + need /\ c[count].size = blocks[i].size - need
        BY <2>2, <1>1, <1>4
    <3> QED BY <2>1, <2>2, <3>1, <1>2
  <2>3. CASE i < count - 1
      BY <2>1, <2>3, <1>1, <1>4
  <2> QED BY <2>2, <2>3, <1>1
<1>8. c[count].free
    BY <1>1, <1>5 DEF Sound, Layout
<1>9. \A j \in 0 .. count - 1 : c[j + 1].addr = c[j].addr + c[j].size
  <2> TAKE j \in 0 .. count - 1
  <2>1. CASE j < i
    <3>1. j + 1 <= i /\ blocks[j + 1].addr = blocks[j].addr + blocks[j].size
        BY <2>1, <1>1 DEF Sound, Layout
    <3> QED BY <3>1, <2>1, <1>1, <1>4
  <2>2. CASE j = i
      BY <2>2, <1>1, <1>4
  <2>3. CASE j = i + 1
    <3>1. blocks[i + 1].addr = blocks[i].addr + blocks[i].size
        BY <2>3, <1>1 DEF Sound, Layout
    <3>2. c[j + 1].addr = blocks[i + 1].addr
        BY <2>3, <1>1, <1>4
    <3>3. c[j].addr = blocks[i].addr + need /\ c[j].size = blocks[i].size - need
        BY <2>3, <1>1, <1>4
    <3> QED BY <3>1, <3>2, <3>3, <1>2
  <2>4. CASE j > i + 1
    <3>1. blocks[(j - 1) + 1].addr = blocks[j - 1].addr + blocks[j - 1].size
        BY <2>4, <1>1 DEF Sound, Layout
    <3> QED BY <3>1, <2>4, <1>1, <1>4
  <2> QED BY <2>1, <2>2, <2>3, <2>4, <1>1
<1>10. \A j \in 0 .. count : c[j].size > 0
    BY <1>1, <1>2, <1>4 DEF Sound, Layout
<1>11. Ordered(c, count + 1)
  <2> SUFFICES ASSUME NEW j \in 0 .. count, NEW k \in 0 .. count, j < k
               PROVE  c[j].addr + c[j].size <= c[k].addr
      BY <1>1 DEF Ordered
  <2>1. CASE j = i /\ k = i + 1
      BY <2>1, <1>1, <1>2, <1>4
  <2>2. CASE (j = i \/ j = i + 1) /\ k > i + 1
    <3>1. blocks[i].addr + blocks[i].size <= blocks[k - 1].addr
        BY <2>2, <1>1 DEF Sound, Ordered
    <3> QED BY <2>2, <3>1, <1>1, <1>2, <1>4
  <2>3. CASE j < i /\ (k = i \/ k = i + 1)
    <3>1. blocks[j].addr + blocks[j].size <= blocks[i].addr
        BY <2>3, <1>1 DEF Sound, Ordered
    <3> QED BY <2>3, <3>1, <1>1, <1>2, <1>4
  <2>4. CASE (j < i \/ j > i + 1) /\ k # i /\ k # i + 1
      BY <2>4, <1>1, <1>2, <1>4 DEF Sound, Ordered
  <2> QED BY <2>1, <2>2, <2>3, <2>4, <1>1
<1>12. Aligned(c, count + 1)
  <2>1. \A k \in 0 .. count - 1 :
          (blocks[k].addr - REAL_MEM_BASE) % 16 = 0 /\ blocks[k].size % 16 = 0
      BY DEF Sound, Aligned
  <2>2. /\ ((blocks[i].addr + need) - REAL_MEM_BASE) % 16 = 0
        /\ (blocks[i].size - need) % 16 = 0
      BY <2>1, <1>1, <1>2, ArenaAssumption
  <2> SUFFICES ASSUME NEW j \in 0 .. count
               PROVE  (c[j].addr - REAL_MEM_BASE) % 16 = 0 /\ c[j].size % 16 = 0
      BY <1>1 DEF Aligned
  <2>3. CASE j = i
      BY <2>1, <2>3, <1>1, <1>4
  <2>4. CASE j = i + 1
    <3>1. c[j].addr = blocks[i].addr + need /\ c[j].size = blocks[i].size - need
        BY <2>4, <1>1, <1>4
    <3> QED BY <2>2, <3>1
  <2>5. CASE j < i \/ j > i + 1
    <3>1. PICK k \in 0 .. count - 1 : c[j].addr = blocks[k].addr /\ c[j].size = blocks[k].size
        BY <2>5, <1>1, <1>4
    <3> QED BY <2>1, <3>1
  <2> QED BY <2>3, <2>4, <2>5, <1>1
<1>13. Sound(c, count + 1)
    BY <1>1, <1>6, <1>7, <1>8, <1>9, <1>10, <1>11, <1>12 DEF Sound, Layout
<1>14. Apart(c, count + 1)
  <2> SUFFICES ASSUME NEW j \in 0 .. count - 1
               PROVE  ~ (c[j].free /\ c[j + 1].free)
      BY <1>1 DEF Apart
  <2>1. CASE j + 1 < i
      BY <2>1, <1>1, <1>5 DEF Apart
  <2>2. CASE j + 1 = i \/ j = i
      BY <2>2, <1>1, <1>5
  <2>3. CASE j > i
    <3>1. ~ (blocks[j - 1].free /\ blocks[(j - 1) + 1].free)
        BY <2>3, <1>1 DEF Apart
    <3> QED BY <2>3, <3>1, <1>1, <1>5
  <2> QED BY <2>1, <2>2, <2>3, <1>1
<1> QED BY <1>13, <1>14 DEF c

\* Marking a block free moves nothing.
LEMMA MarkSound ==
  ASSUME NEW b \in Array, NEW n \in 0 .. REAL_MEM_BLOCKS, Sound(b, n),
         Apart(b, n), NEW i \in 0 .. n - 1
  PROVE  LET c == MarkFree(b, i)
         IN  /\ c \in Array /\ Sound(c, n) /\ c[i].free
             /\ \A j \in 0 .. n - 1 :
                  /\ c[j].addr = b[j].addr /\ c[j].size = b[j].size
                  /\ j # i => c[j] = b[j]
<1> DEFINE c == MarkFree(b, i)
<1>1. \A j \in 0 .. n - 1 : j \in Slots /\ b[j] \in Block
    BY EntryTypes
<1>2. c \in Array
    BY <1>1 DEF Array, Block, MarkFree
<1>3. /\ c[i].free
      /\ \A j \in 0 .. n - 1 : /\ c[j].addr = b[j].addr /\ c[j].size = b[j].size
                               /\ j # i => c[j] = b[j]
    BY <1>1 DEF Array, Block, MarkFree
<1> HIDE DEF c
<1>4. Layout(c, n)
    BY <1>3, TableAssumption DEF Sound, Layout
<1>5. Ordered(c, n) /\ Aligned(c, n)
    BY <1>3 DEF Sound, Ordered, Aligned
<1> QED BY <1>2, <1>3, <1>4, <1>5 DEF Sound, c

\* Freeing a block: after both merges no two neighbours are free.
LEMMA MergeSound ==
  ASSUME NEW b \in Array, NEW n \in 0 .. REAL_MEM_BLOCKS, Sound(b, n),
         NEW i \in 0 .. n - 1, b[i].free,
         \A j \in 0 .. n - 2 : b[j].free /\ b[j + 1].free => j = i - 1 \/ j = i
  PROVE  LET t == MergePrev(MergeNext(Table(b, n), i), i)
         IN  Sound(t.blocks, t.count) /\ Apart(t.blocks, t.count)
<1> DEFINE u == MergeNext(Table(b, n), i)
<1>1. /\ u = Table(u.blocks, u.count)
      /\ u.blocks \in Array
      /\ u.count \in 0 .. REAL_MEM_BLOCKS
      /\ i \in 0 .. u.count - 1
      /\ u.blocks[i].free
      /\ Sound(u.blocks, u.count)
      /\ ApartBut(u.blocks, u.count, i - 1)
  <2>1. CASE i + 1 < n /\ b[i + 1].free
    <3>1. u = Absorb(Table(b, n), i)
        BY <2>1 DEF MergeNext, Table
    <3>2. u = Table(u.blocks, u.count)
        BY <3>1 DEF Absorb, Table
    <3>3. u.blocks \in Array /\ u.count = n - 1
        BY <3>1, <2>1, AbsorbType
    <3>4. Sound(u.blocks, u.count)
        BY <3>1, <3>3, <2>1, AbsorbSound
    <3>5. /\ \A j \in 0 .. i - 1 : u.blocks[j] = b[j]
          /\ u.blocks[i].free = b[i].free
          /\ \A j \in i + 1 .. n - 2 : u.blocks[j] = b[j + 1]
      <4> DEFINE c == Absorb(Table(b, n), i).blocks
      <4>1. i \in Nat /\ i + 1 < n
          BY <2>1, TableAssumption
      <4>2. /\ \A j \in 0 .. i - 1 : c[j] = b[j]
            /\ c[i].addr = b[i].addr
            /\ c[i].size = b[i].size + b[i + 1].size
            /\ c[i].free = b[i].free
            /\ \A j \in i + 1 .. n - 2 : c[j] = b[j + 1]
          BY <4>1, AbsorbShape
      <4> HIDE DEF c, u
      <4>3. u.blocks = c
          BY <3>1 DEF c
      <4> QED BY <4>2, <4>3
    <3> HIDE DEF u
    <3>6. ApartBut(u.blocks, n - 1, i - 1)
      <4> SUFFICES ASSUME NEW j \in 0 .. n - 3,
                          u.blocks[j].free, u.blocks[j + 1].free
                   PROVE  j = i - 1
          BY TableAssumption DEF ApartBut
      <4>1. CASE j < i - 1
        <5>1. u.blocks[j] = b[j] /\ u.blocks[j + 1] = b[j + 1]
            BY <4>1, <3>5
        <5> QED BY <5>1, <4>1, TableAssumption
      <4>2. CASE j >= i
        <5>1. u.blocks[j + 1] = b[j + 2]
            BY <4>2, <3>5, TableAssumption
        <5>2. b[j + 1].free
          <6>1. CASE j = i
              BY <6>1, <2>1
          <6>2. CASE j > i
              BY <6>2, <3>5, TableAssumption
          <6> QED BY <6>1, <6>2, <4>2
        <5>3. b[j + 1].free /\ b[(j + 1) + 1].free
            BY <5>1, <5>2
        <5> QED BY <5>3, <4>2, TableAssumption
      <4> QED BY <4>1, <4>2
    <3> QED BY <3>2, <3>3, <3>4, <3>5, <3>6, <2>1, TableAssumption
  <2>2. CASE ~ (i + 1 < n /\ b[i + 1].free)
    <3>1. u = Table(b, n)
        BY <2>2 DEF MergeNext, Table
    <3>2. u.blocks = b /\ u.count = n
        BY <3>1 DEF Table
    <3>3. ApartBut(b, n, i - 1)
        BY <2>2, TableAssumption DEF ApartBut
    <3> QED BY <3>1, <3>2, <3>3
  <2> QED BY <2>1, <2>2
<1> DEFINE v == u.blocks
           k == u.count
           t == MergePrev(u, i)
<1> HIDE DEF u
<1>2. CASE i - 1 >= 0 /\ v[i - 1].free
  <2>1. t = Absorb(Table(v, k), i - 1)
      BY <1>1, <1>2 DEF MergePrev
  <2>2. t.count = k - 1
      BY <2>1, <1>1, <1>2, AbsorbType, TableAssumption
  <2>3. Sound(t.blocks, k - 1)
      BY <2>1, <1>1, <1>2, AbsorbSound, TableAssumption
  <2>4. /\ \A j \in 0 .. i - 2 : t.blocks[j] = v[j]
        /\ t.blocks[i - 1].free = v[i - 1].free
        /\ \A j \in i .. k - 2 : t.blocks[j] = v[j + 1]
    <3>1. i - 1 \in Nat /\ (i - 1) + 1 < k /\ (i - 1) - 1 = i - 2 /\ (i - 1) + 1 = i
        BY <1>1, <1>2, TableAssumption
    <3> HIDE DEF t, v, k
    <3> QED BY <3>1, <2>1, <1>1, AbsorbShape DEF v, k
  <2> HIDE DEF t
  <2>5. Apart(t.blocks, k - 1)
    <3> SUFFICES ASSUME NEW j \in 0 .. k - 3,
                        t.blocks[j].free, t.blocks[j + 1].free
                 PROVE  FALSE
        BY <1>1, TableAssumption DEF Apart
    <3>1. CASE j < i - 1
      <4>1. v[j].free
          BY <3>1, <2>4
      <4>2. v[j + 1].free
        <5>1. CASE j + 1 = i - 1
            BY <5>1, <1>2
        <5>2. CASE j + 1 < i - 1
            BY <5>2, <2>4
        <5> QED BY <5>1, <5>2, <3>1
      <4> QED BY <4>1, <4>2, <3>1, <1>1, TableAssumption DEF ApartBut
    <3>2. CASE j >= i - 1
      <4>1. v[(j + 1) + 1].free
          BY <3>2, <2>4, <1>1, TableAssumption
      <4>2. v[j + 1].free
        <5>1. CASE j = i - 1
            BY <5>1, <1>1
        <5>2. CASE j > i - 1
            BY <5>2, <2>4, <1>1, TableAssumption
        <5> QED BY <5>1, <5>2, <3>2
      <4> QED BY <4>1, <4>2, <3>2, <1>1, TableAssumption DEF ApartBut
    <3> QED BY <3>1, <3>2
  <2> QED BY <2>2, <2>3, <2>5 DEF t, u
<1>3. CASE ~ (i - 1 >= 0 /\ v[i - 1].free)
  <2>1. t = u
      BY <1>3 DEF MergePrev
  <2>2. Apart(v, k)
    <3> SUFFICES ASSUME NEW j \in 0 .. k - 2, v[j].free, v[j + 1].free
                 PROVE  FALSE
        BY DEF Apart
    <3>1. j = i - 1
        BY <1>1 DEF ApartBut
    <3> QED BY <3>1, <1>3
  <2> QED BY <2>1, <2>2, <1>1 DEF u
<1> QED BY <1>2, <1>3

-----------------------------------------------------------------------------
(***************************************************************************)
(* The invariant holds initially and every operation preserves it.         *)
(***************************************************************************)
LEMMA IInvInit == Init => IInv
BY TypeInit DEF Init, IInv

\* The mapped arena starts as one free block.
LEMMA InitSound ==
  ASSUME TypeOK, real_mem_init
  PROVE  Sound(blocks', count') /\ Apart(blocks', count')
<1>1. 0 \in Slots
    BY TableAssumption DEF Slots
<1>2. Bits20(REAL_MEM_SIZE) = REAL_MEM_SIZE
    BY ArenaAssumption, Bits20Fits
<1>3. /\ count' = 1
      /\ blocks'[0] = [addr |-> REAL_MEM_BASE, size |-> REAL_MEM_SIZE, free |-> TRUE]
    BY <1>1, <1>2 DEF real_mem_init, TypeOK
<1>4. /\ blocks'[0].addr = REAL_MEM_BASE
      /\ blocks'[0].size = REAL_MEM_SIZE
      /\ blocks'[0].free
    BY <1>3
<1>5. Layout(blocks', 1)
    BY <1>4, ArenaAssumption DEF Layout
<1>6. Ordered(blocks', 1) /\ Apart(blocks', 1)
    BY DEF Ordered, Apart
<1>7. Aligned(blocks', 1)
    BY <1>4, ArenaAssumption DEF Aligned
<1> QED BY <1>3, <1>5, <1>6, <1>7 DEF Sound

\* v86_mem_alloc keeps the table sound, whether it finds a block or not.
LEMMA AllocSound ==
  ASSUME IInv, NEW size \in Requests, AllocTake(size)
  PROVE  Sound(blocks', count') /\ Apart(blocks', count')
<1>1. PICK i \in Slots : /\ FirstFit(i, RoundUp(size))
                         /\ blocks' = Split(i, RoundUp(size))
    BY DEF AllocTake
<1>2. /\ i \in 0 .. count - 1
      /\ blocks[i].free
      /\ RoundUp(size) < blocks[i].size
    BY <1>1 DEF FirstFit, Fits
<1>3. TypeOK /\ Sound(blocks, count) /\ Apart(blocks, count)
    BY DEF IInv, AllocTake
<1>4. count < REAL_MEM_BLOCKS
    BY <1>3, TableAssumption DEF AllocTake, TableFull, TypeOK
<1>5. /\ RoundUp(size) \in Nat /\ 0 < RoundUp(size)
      /\ RoundUp(size) % 16 = 0
    BY RequestsAssumption, RoundUpType
<1>6. count' = count + 1
    BY DEF AllocTake
<1> QED BY <1>1, <1>2, <1>3, <1>4, <1>5, <1>6, SplitSound

\* v86_mem_free keeps the table sound, whatever address it is given.
LEMMA FreeSound ==
  ASSUME IInv, NEW m, FreeHit(m)
  PROVE  Sound(blocks', count') /\ Apart(blocks', count')
<1>1. PICK i \in Slots :
        LET freed == Table(MarkFree(blocks, i), count)
            t     == MergePrev(MergeNext(freed, i), i)
        IN  i \in 0 .. count - 1 /\ blocks' = t.blocks /\ count' = t.count
    BY DEF FreeHit, StartsAt
<1> DEFINE b == MarkFree(blocks, i)
<1>2. /\ blocks \in Array /\ count \in 0 .. REAL_MEM_BLOCKS
      /\ Sound(blocks, count) /\ Apart(blocks, count)
    BY DEF IInv, TypeOK, Array, FreeHit
<1>3. i \in 0 .. count - 1
    BY <1>1
<1>4. /\ b \in Array /\ Sound(b, count) /\ b[i].free
      /\ \A j \in 0 .. count - 1 :
           /\ b[j].addr = blocks[j].addr /\ b[j].size = blocks[j].size
           /\ j # i => b[j] = blocks[j]
    BY <1>2, <1>3, MarkSound
<1> HIDE DEF b
<1>5. \A j \in 0 .. count - 2 : b[j].free /\ b[j + 1].free => j = i - 1 \/ j = i
    BY <1>2, <1>3, <1>4, TableAssumption DEF Apart
<1>6. LET t == MergePrev(MergeNext(Table(b, count), i), i)
      IN  Sound(t.blocks, t.count) /\ Apart(t.blocks, t.count)
    BY <1>2, <1>3, <1>4, <1>5, MergeSound
<1> QED BY <1>1, <1>6 DEF b

\* The invariant is inductive: one step for each action.
LEMMA IInvStep == IInv /\ [Next]_vars => IInv'
<1> SUFFICES ASSUME IInv, [Next]_vars
             PROVE  IInv'
    OBVIOUS
<1>1. TypeOK'
    BY TypeStep DEF IInv
<1>2. SUFFICES ready' => Sound(blocks', count') /\ Apart(blocks', count')
    BY <1>1 DEF IInv
<1>3. CASE real_mem_init
    BY <1>3, InitSound DEF IInv
<1>4. CASE real_mem_deinit
    BY <1>4 DEF real_mem_deinit
<1>5. ASSUME NEW size \in Requests, AllocTake(size)
      PROVE  Sound(blocks', count') /\ Apart(blocks', count')
    BY <1>5, AllocSound
<1>6. ASSUME NEW m \in Addresses, FreeHit(m)
      PROVE  Sound(blocks', count') /\ Apart(blocks', count')
    BY <1>6, FreeSound
<1>7. CASE UNCHANGED <<ready, count, blocks>>
    BY <1>7 DEF IInv
<1>8. ASSUME NEW size \in Requests, AllocFail(size)
      PROVE  UNCHANGED <<ready, count, blocks>>
    BY <1>8 DEF AllocFail
<1>9. ASSUME NEW m \in Addresses, FreeMiss(m)
      PROVE  UNCHANGED <<ready, count, blocks>>
    BY <1>9 DEF FreeMiss, vars
<1>10. UNCHANGED vars => UNCHANGED <<ready, count, blocks>>
    BY DEF vars
<1> QED BY <1>3, <1>4, <1>5, <1>6, <1>7, <1>8, <1>9, <1>10
        DEF Next, v86_mem_alloc, v86_mem_free

\* The inductive invariant holds always.
LEMMA Invariant == Spec => []IInv
BY IInvInit, IInvStep, PTL DEF Spec

\* In every reachable state the blocks tile the arena, so the addresses that
\* the loops of v86_mem_alloc and v86_mem_free add up are the right ones.
THEOREM TilesHolds == Spec => []Tiles
<1>1. IInv => Tiles
    BY DEF IInv, Sound, Layout, Tiles
<1> QED BY <1>1, Invariant, PTL

\* v86_mem_free never leaves two free neighbours behind.
THEOREM CoalescedHolds == Spec => []Coalesced
<1>1. IInv => Coalesced
    BY DEF IInv, Apart, Coalesced
<1> QED BY <1>1, Invariant, PTL

\* The strict comparison of v86_mem_alloc keeps the last block free and no
\* block empty.
THEOREM SpareTailHolds == Spec => []SpareTail
<1>1. IInv => SpareTail
    BY DEF IInv, Sound, Layout, SpareTail
<1> QED BY <1>1, Invariant, PTL

\* Once everything is freed the table is one free block again, whatever the
\* order of the calls.
THEOREM NoLeakHolds == Spec => []NoLeak
<1>1. ASSUME IInv, ready, Live = {}
      PROVE  count = 1 /\ blocks[0].addr = REAL_MEM_BASE /\ blocks[0].size = REAL_MEM_SIZE
  <2>1. Sound(blocks, count) /\ Apart(blocks, count) /\ TypeOK
      BY <1>1 DEF IInv
  <2>2. \A j \in 0 .. count - 1 : blocks[j].free
    <3> SUFFICES ASSUME NEW j \in 0 .. count - 1, ~ blocks[j].free
                 PROVE  FALSE
        OBVIOUS
    <3>1. [addr |-> blocks[j].addr, size |-> blocks[j].size] \in Live
        BY <1>1 DEF Live
    <3> QED BY <3>1, <1>1
  <2>3. count \in Nat /\ count >= 1
      BY <2>1, TableAssumption DEF TypeOK, Sound, Layout
  <2>4. count = 1
    <3> SUFFICES ASSUME count > 1
                 PROVE  FALSE
        BY <2>3
    <3>1. blocks[0].free /\ blocks[0 + 1].free
        BY <2>2, <2>3
    <3> QED BY <2>1, <2>3, <3>1 DEF Apart
  <2>5. blocks[0].addr = REAL_MEM_BASE
        /\ blocks[0].addr + blocks[0].size = REAL_MEM_BASE + REAL_MEM_SIZE
      BY <2>1, <2>4 DEF Sound, Layout
  <2>6. blocks[0].size \in Nat
      BY <2>1, <2>3, EntryTypes DEF TypeOK, Array
  <2> QED BY <2>4, <2>5, <2>6, ArenaAssumption
<1>2. IInv => NoLeak
    BY <1>1 DEF NoLeak
<1> QED BY <1>2, Invariant, PTL

-----------------------------------------------------------------------------
(***************************************************************************)
(* The block table implements the abstract heap: every step of RealMem is  *)
(* a step of Heap or leaves Heap's variables alone.                        *)
(***************************************************************************)
Chunk(x) == [addr |-> x.addr, size |-> x.size]
Chunks(b, n) == {Chunk(b[j]) : j \in {k \in 0 .. n - 1 : ~ b[k].free}}

\* The chunks the caller holds are the used blocks of the table.
LEMMA LiveChunks == Live = IF ready THEN Chunks(blocks, count) ELSE {}
BY DEF Live, Chunks, Chunk

\* The same of the next state.
LEMMA LiveChunksNext == Live' = IF ready' THEN Chunks(blocks', count') ELSE {}
BY DEF Live, Chunks, Chunk

\* Merging free blocks loses no chunk.
LEMMA AbsorbChunks ==
  ASSUME NEW b \in Array, NEW n \in 0 .. REAL_MEM_BLOCKS, Sound(b, n),
         NEW i \in Nat, i + 1 < n, b[i].free, b[i + 1].free
  PROVE  Chunks(Absorb(Table(b, n), i).blocks, n - 1) = Chunks(b, n)
<1> DEFINE c == Absorb(Table(b, n), i).blocks
<1>1. /\ \A j \in 0 .. i - 1 : c[j] = b[j]
      /\ c[i].addr = b[i].addr
      /\ c[i].size = b[i].size + b[i + 1].size
      /\ c[i].free = b[i].free
      /\ \A j \in i + 1 .. n - 2 : c[j] = b[j + 1]
    BY AbsorbShape
<1> HIDE DEF c
<1>2. ASSUME NEW j \in 0 .. n - 2, ~ c[j].free
      PROVE  Chunk(c[j]) \in Chunks(b, n)
  <2>1. CASE j < i
    <3>1. j \in 0 .. n - 1 /\ c[j] = b[j]
        BY <2>1, <1>1, TableAssumption
    <3> QED BY <3>1, <1>2 DEF Chunks
  <2>2. CASE j > i
    <3>1. j + 1 \in 0 .. n - 1 /\ c[j] = b[j + 1]
        BY <2>2, <1>1, TableAssumption
    <3> QED BY <3>1, <1>2 DEF Chunks
  <2>3. j # i
      BY <1>1, <1>2
  <2> QED BY <2>1, <2>2, <2>3
<1>3. ASSUME NEW j \in 0 .. n - 1, ~ b[j].free
      PROVE  Chunk(b[j]) \in Chunks(c, n - 1)
  <2>1. CASE j < i
    <3>1. j \in 0 .. (n - 1) - 1 /\ c[j] = b[j]
        BY <2>1, <1>1, TableAssumption
    <3> QED BY <3>1, <1>3 DEF Chunks
  <2>2. CASE j > i + 1
    <3>1. j - 1 \in 0 .. (n - 1) - 1 /\ c[j - 1] = b[j]
        BY <2>2, <1>1, TableAssumption
    <3> QED BY <3>1, <1>3 DEF Chunks
  <2>3. j # i /\ j # i + 1
      BY <1>3
  <2> QED BY <2>1, <2>2, <2>3
<1>4. Chunks(c, n - 1) \subseteq Chunks(b, n)
    BY <1>2, TableAssumption DEF Chunks
<1>5. Chunks(b, n) \subseteq Chunks(c, n - 1)
    BY <1>3, TableAssumption DEF Chunks
<1> QED BY <1>4, <1>5 DEF c

\* Merging free blocks takes no chunk from anybody.
LEMMA MergeChunks ==
  ASSUME NEW b \in Array, NEW n \in 0 .. REAL_MEM_BLOCKS, Sound(b, n),
         NEW i \in 0 .. n - 1, b[i].free
  PROVE  LET t == MergePrev(MergeNext(Table(b, n), i), i)
         IN  Chunks(t.blocks, t.count) = Chunks(b, n)
<1> DEFINE u == MergeNext(Table(b, n), i)
<1>1. /\ u = Table(u.blocks, u.count)
      /\ u.blocks \in Array
      /\ u.count \in 0 .. REAL_MEM_BLOCKS
      /\ i \in 0 .. u.count - 1
      /\ u.blocks[i].free
      /\ Sound(u.blocks, u.count)
      /\ Chunks(u.blocks, u.count) = Chunks(b, n)
  <2>1. CASE i + 1 < n /\ b[i + 1].free
    <3>1. u = Absorb(Table(b, n), i)
        BY <2>1 DEF MergeNext, Table
    <3>2. u = Table(u.blocks, u.count)
        BY <3>1 DEF Absorb, Table
    <3>3. i \in Nat /\ i + 1 < n
        BY <2>1, TableAssumption
    <3>4. u.blocks \in Array /\ u.count = n - 1
        BY <3>1, <3>3, AbsorbType
    <3>5. Sound(u.blocks, n - 1) /\ Chunks(u.blocks, n - 1) = Chunks(b, n)
        BY <3>1, <3>3, <2>1, AbsorbSound, AbsorbChunks
    <3>6. u.blocks[i].free
      <4> DEFINE c == Absorb(Table(b, n), i).blocks
      <4>1. c[i].free = b[i].free
          BY <3>3, AbsorbShape
      <4> HIDE DEF c, u
      <4> QED BY <4>1, <3>1 DEF c
    <3> HIDE DEF u
    <3> QED BY <3>2, <3>3, <3>4, <3>5, <3>6, TableAssumption
  <2>2. CASE ~ (i + 1 < n /\ b[i + 1].free)
      BY <2>2 DEF MergeNext, Table
  <2> QED BY <2>1, <2>2
<1> HIDE DEF u
<1>2. CASE i - 1 >= 0 /\ u.blocks[i - 1].free
  <2>1. MergePrev(u, i) = Absorb(Table(u.blocks, u.count), i - 1)
      BY <1>1, <1>2 DEF MergePrev
  <2>2. i - 1 \in Nat /\ (i - 1) + 1 < u.count /\ (i - 1) + 1 = i
      BY <1>1, <1>2, TableAssumption
  <2>3. MergePrev(u, i).count = u.count - 1
      BY <2>1, <2>2, <1>1, AbsorbType
  <2>4. Chunks(MergePrev(u, i).blocks, u.count - 1) = Chunks(u.blocks, u.count)
      BY <2>1, <2>2, <1>1, <1>2, AbsorbChunks
  <2> QED BY <2>3, <2>4, <1>1 DEF u
<1>3. CASE ~ (i - 1 >= 0 /\ u.blocks[i - 1].free)
    BY <1>1, <1>3 DEF MergePrev, u
<1> QED BY <1>2, <1>3

\* An allocation adds its chunk and keeps the others.
LEMMA SplitChunks ==
  ASSUME TypeOK, Sound(blocks, count), NEW i \in 0 .. count - 1,
         count < REAL_MEM_BLOCKS, blocks[i].free,
         NEW need \in Nat, need < blocks[i].size
  PROVE  Chunks(Split(i, need), count + 1) =
           Chunks(blocks, count) \cup {[addr |-> blocks[i].addr, size |-> need]}
<1> DEFINE c == Split(i, need)
           new == [addr |-> blocks[i].addr, size |-> need]
<1>1. /\ \A j \in 0 .. i - 1 : c[j] = blocks[j]
      /\ c[i] = [addr |-> blocks[i].addr, size |-> need, free |-> FALSE]
      /\ c[i + 1] = [addr |-> blocks[i].addr + need,
                     size |-> blocks[i].size - need,
                     free |-> blocks[i].free]
      /\ \A j \in i + 2 .. count : c[j] = blocks[j - 1]
    BY SplitShape
<1>2. count \in Nat
    BY TableAssumption DEF TypeOK
<1> HIDE DEF c
<1>3. Chunk(c[i]) = new /\ ~ c[i].free
    BY <1>1 DEF Chunk
<1>4. c[i + 1].free
    BY <1>1
<1>5. ASSUME NEW j \in 0 .. count, ~ c[j].free
      PROVE  Chunk(c[j]) \in Chunks(blocks, count) \cup {new}
  <2>1. CASE j < i
    <3>1. j \in 0 .. count - 1 /\ c[j] = blocks[j]
        BY <2>1, <1>1, <1>2
    <3> QED BY <3>1, <1>5 DEF Chunks
  <2>2. CASE j > i + 1
    <3>1. j - 1 \in 0 .. count - 1 /\ c[j] = blocks[j - 1]
        BY <2>2, <1>1, <1>2
    <3> QED BY <3>1, <1>5 DEF Chunks
  <2>3. CASE j = i
      BY <2>3, <1>3
  <2>4. j # i + 1
      BY <1>4, <1>5
  <2> QED BY <2>1, <2>2, <2>3, <2>4, <1>2
<1>6. ASSUME NEW j \in 0 .. count - 1, ~ blocks[j].free
      PROVE  Chunk(blocks[j]) \in Chunks(c, count + 1)
  <2>1. CASE j < i
    <3>1. j \in 0 .. (count + 1) - 1 /\ c[j] = blocks[j]
        BY <2>1, <1>1, <1>2
    <3> QED BY <3>1, <1>6 DEF Chunks
  <2>2. CASE j > i
    <3>1. j + 1 \in 0 .. (count + 1) - 1 /\ c[j + 1] = blocks[j]
        BY <2>2, <1>1, <1>2
    <3> QED BY <3>1, <1>6 DEF Chunks
  <2>3. j # i
      BY <1>6
  <2> QED BY <2>1, <2>2, <2>3, <1>2
<1>7. new \in Chunks(c, count + 1)
  <2>1. i \in 0 .. (count + 1) - 1
      BY <1>2
  <2> QED BY <2>1, <1>3 DEF Chunks
<1>8. Chunks(c, count + 1) \subseteq Chunks(blocks, count) \cup {new}
    BY <1>5, <1>2 DEF Chunks
<1>9. Chunks(blocks, count) \subseteq Chunks(c, count + 1)
    BY <1>6, <1>2 DEF Chunks
<1> QED BY <1>7, <1>8, <1>9 DEF c

\* Marking the block at an address free removes the chunk there, if any.
LEMMA MarkChunks ==
  ASSUME NEW b \in Array, NEW n \in 0 .. REAL_MEM_BLOCKS, Sound(b, n),
         Apart(b, n), NEW i \in 0 .. n - 1
  PROVE  Chunks(MarkFree(b, i), n) =
           {c \in Chunks(b, n) : c.addr # b[i].addr}
<1> DEFINE f == MarkFree(b, i)
<1>1. /\ f[i].free
      /\ \A j \in 0 .. n - 1 : /\ f[j].addr = b[j].addr /\ f[j].size = b[j].size
                               /\ j # i => f[j] = b[j]
    BY MarkSound
<1> HIDE DEF f
<1>2. \A j \in 0 .. n - 1 : Chunk(f[j]) = Chunk(b[j]) /\ Chunk(b[j]).addr = b[j].addr
    BY <1>1 DEF Chunk
<1>3. \A j \in 0 .. n - 1 : j # i => b[j].addr # b[i].addr
  <2>1. \A j \in 0 .. n - 1 : b[j].addr \in Nat /\ b[j].size \in Nat
      BY EntryTypes
  <2>2. \A j \in 0 .. n - 1 : b[j].size > 0
      BY DEF Sound, Layout
  <2> QED BY <2>1, <2>2, TableAssumption DEF Sound, Ordered
<1>4. ASSUME NEW j \in 0 .. n - 1, ~ f[j].free
      PROVE  Chunk(f[j]) \in {c \in Chunks(b, n) : c.addr # b[i].addr}
  <2>1. j # i /\ ~ b[j].free
      BY <1>1, <1>4
  <2>2. Chunk(b[j]) \in Chunks(b, n)
      BY <2>1 DEF Chunks
  <2> QED BY <2>1, <2>2, <1>2, <1>3
<1>5. ASSUME NEW j \in 0 .. n - 1, ~ b[j].free, Chunk(b[j]).addr # b[i].addr
      PROVE  Chunk(b[j]) \in Chunks(f, n)
  <2>1. j # i
      BY <1>2, <1>5
  <2>2. ~ f[j].free
      BY <2>1, <1>1, <1>5
  <2> QED BY <2>2, <1>2 DEF Chunks
<1>6. Chunks(f, n) \subseteq {c \in Chunks(b, n) : c.addr # b[i].addr}
    BY <1>4 DEF Chunks
<1>7. {c \in Chunks(b, n) : c.addr # b[i].addr} \subseteq Chunks(f, n)
    BY <1>5 DEF Chunks
<1> QED BY <1>6, <1>7 DEF f

\* A chunk taken from a free block overlaps no chunk handed out before.
LEMMA FreshChunk ==
  ASSUME TypeOK, Sound(blocks, count), NEW i \in 0 .. count - 1, blocks[i].free,
         NEW need \in Nat, need < blocks[i].size,
         NEW c \in Chunks(blocks, count)
  PROVE  ~ H!Overlap(c, [addr |-> blocks[i].addr, size |-> need])
<1>1. PICK j \in 0 .. count - 1 : ~ blocks[j].free /\ c = Chunk(blocks[j])
    BY DEF Chunks
<1>2. c.addr = blocks[j].addr /\ c.size = blocks[j].size /\ j # i
    BY <1>1 DEF Chunk
<1>3. /\ blocks[i].addr \in Nat /\ blocks[i].size \in Nat
      /\ blocks[j].addr \in Nat /\ blocks[j].size \in Nat
    BY EntryTypes DEF TypeOK, Array
<1>4. \/ blocks[j].addr + blocks[j].size <= blocks[i].addr
      \/ blocks[i].addr + blocks[i].size <= blocks[j].addr
    BY <1>2, TableAssumption DEF TypeOK, Sound, Ordered
<1> DEFINE new == [addr |-> blocks[i].addr, size |-> need]
<1>5. new.addr = blocks[i].addr /\ new.size = need
    OBVIOUS
<1> HIDE DEF new
<1>6. ~ (c.addr < new.addr + new.size /\ new.addr < c.addr + c.size)
    BY <1>2, <1>3, <1>4, <1>5
<1> QED BY <1>6 DEF H!Overlap, new

\* An allocation that succeeds is a Grant of the abstract heap.
LEMMA AllocIsGrant ==
  ASSUME IInv, NEW size \in Requests, AllocTake(size)
  PROVE  H!Grant(size)
<1> DEFINE need == RoundUp(size)
<1>1. PICK i \in Slots : /\ FirstFit(i, need)
                         /\ blocks' = Split(i, need)
                         /\ ret' = blocks[i].addr
    BY DEF AllocTake
<1>2. i \in 0 .. count - 1 /\ blocks[i].free /\ need < blocks[i].size
    BY <1>1 DEF FirstFit, Fits
<1>3. /\ ready /\ ready' = ready /\ count' = count + 1
      /\ TypeOK /\ Sound(blocks, count)
    BY DEF IInv, AllocTake
<1>4. count < REAL_MEM_BLOCKS
    BY <1>3, TableAssumption DEF AllocTake, TableFull, TypeOK
<1>5. need \in Nat /\ need = H!Paragraphs(size)
    BY RequestsAssumption, RoundUpType DEF RoundUp, H!Paragraphs
<1> HIDE DEF need
<1>6. Live' = Live \cup {[addr |-> ret', size |-> need]}
    BY <1>1, <1>2, <1>3, <1>4, <1>5, SplitChunks, LiveChunks, LiveChunksNext
<1>7. \A c \in Live : ~ H!Overlap(c, [addr |-> ret', size |-> need])
    BY <1>1, <1>2, <1>3, <1>5, FreshChunk, LiveChunks
<1>8. ret' >= REAL_MEM_BASE /\ ret' + need <= REAL_MEM_BASE + REAL_MEM_SIZE
  <2>1. blocks[i].addr \in Nat /\ blocks[i].size \in Nat
      BY <1>2, <1>3, EntryTypes DEF TypeOK, Array
  <2>2. /\ blocks[i].addr >= REAL_MEM_BASE
        /\ blocks[i].addr + blocks[i].size <= REAL_MEM_BASE + REAL_MEM_SIZE
      BY <1>2, <1>3, InArena DEF TypeOK, Array
  <2> QED BY <2>1, <2>2, <1>1, <1>2, <1>5, ArenaAssumption
<1>9. (ret' - REAL_MEM_BASE) % 16 = 0
    BY <1>1, <1>2, <1>3 DEF Sound, Aligned
<1> QED BY <1>3, <1>5, <1>6, <1>7, <1>8, <1>9 DEF H!Grant

\* Freeing an address takes the chunk that starts there, and no other.
LEMMA FreeTakesChunk ==
  ASSUME IInv, NEW m, FreeHit(m)
  PROVE  Live' = {c \in Live : c.addr # m} /\ ready' = ready /\ ret' = ret
<1>1. PICK i \in Slots :
        LET freed == Table(MarkFree(blocks, i), count)
            t     == MergePrev(MergeNext(freed, i), i)
        IN  StartsAt(i, m) /\ blocks' = t.blocks /\ count' = t.count
    BY DEF FreeHit
<1> DEFINE b == MarkFree(blocks, i)
<1>2. /\ blocks \in Array /\ count \in 0 .. REAL_MEM_BLOCKS
      /\ Sound(blocks, count) /\ Apart(blocks, count)
      /\ ready /\ ready' = ready /\ ret' = ret
    BY DEF IInv, TypeOK, Array, FreeHit
<1>3. i \in 0 .. count - 1 /\ blocks[i].addr = m
    BY <1>1 DEF StartsAt
<1>4. b \in Array /\ Sound(b, count) /\ b[i].free
    BY <1>2, <1>3, MarkSound
<1>5. Chunks(b, count) = {c \in Chunks(blocks, count) : c.addr # m}
  <2>1. Chunks(b, count) = {c \in Chunks(blocks, count) : c.addr # blocks[i].addr}
      BY <1>2, <1>3, MarkChunks
  <2> HIDE DEF b
  <2> QED BY <2>1, <1>3
<1> HIDE DEF b
<1>6. LET t == MergePrev(MergeNext(Table(b, count), i), i)
      IN  Chunks(t.blocks, t.count) = Chunks(b, count)
    BY <1>2, <1>3, <1>4, MergeChunks
<1>7. Live' = {c \in Live : c.addr # m}
    BY <1>1, <1>2, <1>5, <1>6, LiveChunks, LiveChunksNext DEF b
<1> QED BY <1>2, <1>7

\* A chunk is not empty and lies in the arena.
LEMMA ChunkInArena ==
  ASSUME IInv, NEW c \in Live
  PROVE  /\ c.addr \in Nat /\ c.size \in Nat /\ c.size > 0
         /\ c.addr >= REAL_MEM_BASE /\ c.addr + c.size <= REAL_MEM_BASE + REAL_MEM_SIZE
<1>1. ready /\ TypeOK /\ Sound(blocks, count)
    BY DEF IInv, Live
<1>2. PICK i \in 0 .. count - 1 : c = [addr |-> blocks[i].addr, size |-> blocks[i].size]
    BY DEF Live
<1>3. blocks[i].addr \in Nat /\ blocks[i].size \in Nat
    BY <1>1, EntryTypes DEF TypeOK, Array
<1>4. /\ blocks[i].addr >= REAL_MEM_BASE
      /\ blocks[i].addr + blocks[i].size <= REAL_MEM_BASE + REAL_MEM_SIZE
    BY <1>1, InArena DEF TypeOK, Array
<1>5. blocks[i].size > 0
    BY <1>1 DEF Sound, Layout
<1> QED BY <1>2, <1>3, <1>4, <1>5

\* No two chunks overlap.
LEMMA ChunksApart ==
  ASSUME IInv, NEW c \in Live, NEW d \in Live, c.addr # d.addr
  PROVE  c.addr >= d.addr + d.size \/ d.addr >= c.addr + c.size
<1>1. ready /\ TypeOK /\ Sound(blocks, count)
    BY DEF IInv, Live
<1>2. PICK i \in 0 .. count - 1 : c = [addr |-> blocks[i].addr, size |-> blocks[i].size]
    BY DEF Live
<1>3. PICK j \in 0 .. count - 1 : d = [addr |-> blocks[j].addr, size |-> blocks[j].size]
    BY DEF Live
<1>4. i < j \/ j < i
    BY <1>2, <1>3, TableAssumption
<1>5. \/ blocks[i].addr + blocks[i].size <= blocks[j].addr
      \/ blocks[j].addr + blocks[j].size <= blocks[i].addr
    BY <1>1, <1>4 DEF Sound, Ordered
<1>6. /\ blocks[i].addr \in Nat /\ blocks[i].size \in Nat
      /\ blocks[j].addr \in Nat /\ blocks[j].size \in Nat
    BY <1>1, EntryTypes DEF TypeOK, Array
<1> QED BY <1>2, <1>3, <1>5, <1>6

\* What v86_mem_alloc gives its caller: a chunk where none was, or 0 and nothing.
LEMMA AllocAdds ==
  ASSUME IInv, NEW size \in Requests, v86_mem_alloc(size)
  PROVE  /\ IInv' /\ ready' = ready
         /\ ret' = 0 => Live' = Live
         /\ ret' # 0 =>
              /\ Live' = Live \cup {[addr |-> ret', size |-> RoundUp(size)]}
              /\ \A c \in Live : c.addr # ret'
<1>1. IInv'
    BY IInvStep DEF Next
<1>2. CASE AllocFail(size)
    BY <1>1, <1>2, LiveChunks, LiveChunksNext DEF AllocFail
<1>3. CASE AllocTake(size)
  <2>1. H!Grant(size)
      BY <1>3, AllocIsGrant
  <2> DEFINE new == [addr |-> ret', size |-> RoundUp(size)]
  <2>2. /\ Live' = Live \cup {new} /\ \A c \in Live : ~ H!Overlap(c, new)
        /\ ret' >= REAL_MEM_BASE
      BY <2>1 DEF H!Grant, H!Paragraphs, RoundUp
  <2>3. RoundUp(size) \in Nat /\ RoundUp(size) > 0
      BY RequestsAssumption, RoundUpType
  <2>4. ret' \in Nat /\ ret' # 0
      BY <1>1, <2>2, ArenaAssumption DEF IInv, TypeOK
  <2>5. new.addr = ret' /\ new.size = RoundUp(size)
      OBVIOUS
  <2> HIDE DEF new
  <2>6. ASSUME NEW c \in Live
        PROVE  c.addr # ret'
    <3>1. c.addr \in Nat /\ c.size \in Nat /\ c.size > 0
        BY ChunkInArena
    <3>2. ~ (c.addr < new.addr + new.size /\ new.addr < c.addr + c.size)
        BY <2>2 DEF H!Overlap
    <3> QED BY <3>1, <3>2, <2>3, <2>4, <2>5
  <2> QED BY <1>1, <1>3, <2>2, <2>4, <2>6 DEF AllocTake, new
<1> QED BY <1>2, <1>3 DEF v86_mem_alloc

\* What v86_mem_free takes from its caller: the chunk at that address, if any.
LEMMA FreeRemoves ==
  ASSUME IInv, NEW m, v86_mem_free(m)
  PROVE  /\ IInv' /\ ready' = ready /\ ret' = ret
         /\ Live' = {c \in Live : c.addr # m}
<1>1. CASE FreeHit(m)
  <2>1. m \in Addresses
      BY <1>1 DEF FreeHit, StartsAt, Addresses
  <2>2. IInv'
      BY <1>1, <2>1, IInvStep DEF Next, v86_mem_free
  <2> QED BY <1>1, <2>2, FreeTakesChunk
<1>2. CASE FreeMiss(m)
  <2>1. UNCHANGED <<ready, count, blocks, ret>>
      BY <1>2 DEF FreeMiss, vars
  <2>2. IInv'
      BY <2>1, IInvStep DEF vars
  <2>3. Live' = Live
      BY <2>1, LiveChunks, LiveChunksNext
  <2>4. \A c \in Live : c.addr # m
      BY <1>2 DEF FreeMiss, Live
  <2> QED BY <2>1, <2>2, <2>3, <2>4
<1> QED BY <1>1, <1>2 DEF v86_mem_free

-----------------------------------------------------------------------------
(***************************************************************************)
(* Where chunks go.  Chunks that lie one behind the other from the base of *)
(* the arena on are the first blocks of the table, the rest is one free    *)
(* block, and the next chunk is cut from it.                               *)
(***************************************************************************)
\* The block that starts where a chunk does is that chunk, and not the last.
LEMMA ChunkIsBlock ==
  ASSUME IInv, NEW n \in 0 .. count - 1, NEW c \in Live, c.addr = blocks[n].addr
  PROVE  /\ ~ blocks[n].free /\ n + 1 \in 0 .. count - 1
         /\ blocks[n + 1].addr = c.addr + c.size
<1>1. PICK j \in 0 .. count - 1 :
        ready /\ ~ blocks[j].free /\ c = [addr |-> blocks[j].addr, size |-> blocks[j].size]
    BY DEF Live
<1>2. /\ blocks \in Array /\ count \in 0 .. REAL_MEM_BLOCKS /\ count \in Nat
      /\ Sound(blocks, count)
    BY <1>1, TableAssumption DEF IInv, TypeOK, Array
<1>3. \A k \in 0 .. count - 1 :
        blocks[k].addr \in Nat /\ blocks[k].size \in Nat /\ blocks[k].size > 0
    BY <1>2, EntryTypes DEF Sound, Layout
<1>4. c.addr = blocks[j].addr /\ c.size = blocks[j].size
    BY <1>1
<1>5. j = n
  <2>1. /\ j < n => blocks[j].addr + blocks[j].size <= blocks[n].addr
        /\ n < j => blocks[n].addr + blocks[n].size <= blocks[j].addr
      BY <1>2 DEF Sound, Ordered
  <2> QED BY <1>2, <1>3, <1>4, <2>1
<1>6. n # count - 1
    BY <1>1, <1>2, <1>5 DEF Sound, Layout
<1>7. n \in 0 .. count - 2
    BY <1>2, <1>6
<1> QED BY <1>1, <1>2, <1>4, <1>5, <1>7 DEF Sound, Layout

\* Behind the last chunk is one free block, up to the end of the arena.
LEMMA RestIsBlock ==
  ASSUME IInv, ready, NEW n \in 0 .. count - 1, \A c \in Live : c.addr < blocks[n].addr
  PROVE  /\ count = n + 1 /\ blocks[n].free
         /\ blocks[n].addr \in Nat /\ blocks[n].addr >= REAL_MEM_BASE /\ blocks[n].size \in Nat
         /\ blocks[n].addr + blocks[n].size = REAL_MEM_BASE + REAL_MEM_SIZE
<1>1. /\ blocks \in Array /\ count \in 0 .. REAL_MEM_BLOCKS /\ count \in Nat
      /\ Sound(blocks, count) /\ Apart(blocks, count)
    BY TableAssumption DEF IInv, TypeOK, Array
<1>2. \A k \in 0 .. count - 1 : blocks[k].addr \in Nat /\ blocks[k].size \in Nat
    BY <1>1, EntryTypes
<1>3. ASSUME NEW k \in n .. count - 1
      PROVE  blocks[k].free
  <2>1. k \in 0 .. count - 1 /\ (n < k \/ k = n)
      BY <1>1
  <2>2. blocks[n].addr <= blocks[k].addr
      BY <1>1, <1>2, <2>1 DEF Sound, Ordered
  <2> SUFFICES ASSUME ~ blocks[k].free PROVE FALSE
      OBVIOUS
  <2>3. [addr |-> blocks[k].addr, size |-> blocks[k].size] \in Live
      BY <2>1 DEF Live
  <2>4. blocks[k].addr < blocks[n].addr
      BY <2>3
  <2> QED BY <1>2, <2>1, <2>2, <2>4
<1>4. count = n + 1
  <2> SUFFICES ASSUME count # n + 1 PROVE FALSE
      OBVIOUS
  <2>1. n \in 0 .. count - 2 /\ n \in n .. count - 1 /\ n + 1 \in n .. count - 1
      BY <1>1
  <2> QED BY <1>1, <1>3, <2>1 DEF Apart
<1>5. n \in n .. count - 1 /\ n = count - 1
    BY <1>1, <1>4
<1>6. blocks[n].addr + blocks[n].size = REAL_MEM_BASE + REAL_MEM_SIZE
    BY <1>1, <1>5 DEF Sound, Layout
<1>7. blocks[n].addr >= REAL_MEM_BASE
    BY <1>1, InArena
<1> QED BY <1>2, <1>3, <1>4, <1>5, <1>6, <1>7

\* The table starts at the base of the arena.
LEMMA FirstBlock == ASSUME IInv, ready PROVE 0 \in 0 .. count - 1 /\ blocks[0].addr = REAL_MEM_BASE
<1>1. count \in Nat /\ Layout(blocks, count)
    BY TableAssumption DEF IInv, TypeOK, Sound
<1> QED BY <1>1 DEF Layout

\* From a table whose only free block is the last, a chunk is cut from there, if
\* it fits and the table has an entry left.
LEMMA AllocFromRest ==
  ASSUME IInv, ready, NEW n \in 0 .. count - 1, count = n + 1, blocks[n].free,
         \A j \in 0 .. n - 1 : ~ blocks[j].free,
         NEW size \in Nat \ {0}, v86_mem_alloc(size)
  PROVE  /\ ret' # 0 => ret' = blocks[n].addr
         /\ count < REAL_MEM_BLOCKS /\ RoundUp(size) < blocks[n].size => ret' # 0
<1>1. count \in 0 .. REAL_MEM_BLOCKS /\ blocks \in Array /\ Sound(blocks, count)
    BY DEF IInv, TypeOK, Array
<1>2. blocks[n].addr \in Nat /\ blocks[n].addr >= REAL_MEM_BASE
    BY <1>1, EntryTypes, InArena
<1>3. CASE AllocTake(size)
  <2>1. PICK i \in Slots : FirstFit(i, RoundUp(size)) /\ ret' = blocks[i].addr
      BY <1>3 DEF AllocTake
  <2>2. i \in 0 .. count - 1 /\ blocks[i].free
      BY <2>1 DEF FirstFit, Fits
  <2>3. i = n
      BY <2>2
  <2> QED BY <1>2, <2>1, <2>3, ArenaAssumption
<1>4. CASE AllocFail(size)
  <2>1. ret' = 0 /\ (TableFull \/ \A i \in 0 .. count - 1 : ~ Fits(i, RoundUp(size)))
      BY <1>4 DEF AllocFail
  <2> QED BY <1>1, <2>1, TableAssumption DEF TableFull, Fits
<1> QED BY <1>3, <1>4 DEF v86_mem_alloc

\* Freeing the address of a chunk gives that chunk back; freeing a block that
\* is free already changes nothing that the heap knows of.
LEMMA FreeIsGiveBack ==
  ASSUME IInv, NEW m, FreeHit(m)
  PROVE  H!Next \/ UNCHANGED H!vars
<1>1. Live' = {c \in Live : c.addr # m} /\ ready' = ready /\ ret' = ret
    BY FreeTakesChunk
<1>2. CASE \E c \in Live : c.addr = m
  <2>1. PICK c \in Live : c.addr = m
      BY <1>2
  <2>2. H!GiveBack(c.addr)
      BY <2>1, <1>1 DEF H!GiveBack
  <2> QED BY <2>1, <2>2 DEF H!Next
<1>3. CASE ~ \E c \in Live : c.addr = m
  <2>1. Live' = Live
      BY <1>1, <1>3
  <2> QED BY <2>1, <1>1 DEF H!vars
<1> QED BY <1>2, <1>3

\* The initial states are those of the abstract heap.
LEMMA HeapInit == Init => H!Init
<1>1. Init => Live = {}
    BY LiveChunks DEF Init
<1> QED BY <1>1 DEF Init, H!Init

\* Every step is one of the abstract heap, or leaves it alone.
LEMMA HeapStep == IInv /\ IInv' /\ [Next]_vars => [H!Next]_(H!vars)
<1> SUFFICES ASSUME IInv, IInv', [Next]_vars
             PROVE  H!Next \/ UNCHANGED H!vars
    OBVIOUS
<1>1. CASE real_mem_init
  <2>1. /\ count' = 1 /\ ready' = TRUE /\ ret' = ret
        /\ Sound(blocks', count')
      BY <1>1, InitSound DEF real_mem_init, IInv
  <2>2. blocks'[0].free
      BY <2>1 DEF Sound, Layout
  <2>3. Chunks(blocks', 1) = {}
      BY <2>2 DEF Chunks
  <2>4. H!Reset
      BY <2>1, <2>3, LiveChunksNext DEF H!Reset
  <2> QED BY <2>4 DEF H!Next
<1>2. CASE real_mem_deinit
  <2>1. H!Reset
      BY <1>2, LiveChunksNext DEF real_mem_deinit, H!Reset
  <2> QED BY <2>1 DEF H!Next
<1>3. ASSUME NEW size \in Requests, AllocTake(size)
      PROVE  H!Next
    BY <1>3, AllocIsGrant DEF H!Next
<1>4. ASSUME NEW size \in Requests, AllocFail(size)
      PROVE  H!Next
  <2>1. Live' = Live
      BY <1>4, LiveChunks, LiveChunksNext DEF AllocFail
  <2>2. H!Refuse
      BY <1>4, <2>1 DEF AllocFail, H!Refuse
  <2> QED BY <2>2 DEF H!Next
<1>5. ASSUME NEW m \in Addresses, FreeHit(m)
      PROVE  H!Next \/ UNCHANGED H!vars
    BY <1>5, FreeIsGiveBack
<1>6. CASE UNCHANGED vars
    BY <1>6, LiveChunks, LiveChunksNext DEF vars, H!vars
<1>7. ASSUME NEW m \in Addresses, FreeMiss(m)
      PROVE  UNCHANGED vars
    BY <1>7 DEF FreeMiss
<1> QED BY <1>1, <1>2, <1>3, <1>4, <1>5, <1>6, <1>7
        DEF Next, v86_mem_alloc, v86_mem_free

\* RealMem implements Heap: what v86_mem_alloc hands out lies in the arena, on
\* a paragraph, apart from all chunks still held, and v86_mem_free gives back
\* no chunk but the one that starts at its argument.
THEOREM ImplementsHeap == Spec => HeapSpec
<1>1. Spec => []IInv
    BY Invariant
<1> QED BY <1>1, HeapInit, HeapStep, PTL DEF Spec, HeapSpec, H!Spec

=============================================================================
