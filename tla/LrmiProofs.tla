---------------------------- MODULE LrmiProofs ----------------------------
(***************************************************************************)
(* Proofs about the vm86 backend, for every table of vectors, however deep *)
(* interrupts nest and whatever fails: LRMI_init maps all or nothing, the  *)
(* stack holds the places to come back to and stays apart from the buffers *)
(* of tasks, and a call is successful exactly when the BIOS came back to   *)
(* the stub.                                                               *)
(***************************************************************************)
EXTENDS Lrmi, SequenceTheorems, TLAPS

\* What is mapped of each area.
Has(m, real, ivt, vram, rom) ==
  /\ m \in [Segments_ -> Nat]
  /\ m["real"] = real /\ m["ivt"] = ivt /\ m["vram"] = vram /\ m["rom"] = rom

\* LRMI_init has mapped what it maps before it is at stage s, in full length.
MapsAt ==
  /\ pc = "real" => Has(maps, 0, 0, 0, 0) /\ ~ ready
  /\ pc = "ivt" => Has(maps, REAL_MEM_SIZE, 0, 0, 0)
  /\ pc = "vram" => Has(maps, REAL_MEM_SIZE, 1282, 0, 0)
  /\ pc = "rom" => Has(maps, REAL_MEM_SIZE, 1282, 131072, 0)
  /\ pc \in {"ivt", "vram", "rom"} => ready
  /\ pc \in {"real", "ivt", "vram", "rom", "failed"} => ~ context.ready
  /\ pc = "stack" => maps = Areas /\ ready
MInv == MapsAt /\ AllOrNothing

\* Where the process is in a call.
Calling == {"loop", "vm86", "back", "look"}

-----------------------------------------------------------------------------
\* There are four areas, all of them of some length.
LEMMA FourAreas ==
  /\ Segments_ = {"real", "ivt", "vram", "rom"}
  /\ Areas \in [Segments_ -> Nat] /\ Unmapped \in [Segments_ -> Nat]
<1>1. DOMAIN Areas = {"real", "ivt", "vram", "rom"}
  BY DEF Areas
<1>2. Segments_ = {"real", "ivt", "vram", "rom"}
  BY <1>1 DEF Segments_
<1>3. \A s \in Segments_ : Areas[s] \in Nat
  BY <1>2, MemoryAssumption DEF Areas
<1>4. Areas \in [Segments_ -> Nat]
  BY <1>1, <1>2, <1>3 DEF Areas
<1>5. Unmapped \in [Segments_ -> Nat]
  BY DEF Unmapped
<1>6. QED
  BY <1>2, <1>4, <1>5

\* Areas are as they should be when each of the four is.
LEMMA SameAreas ==
  ASSUME NEW m \in [Segments_ -> Nat], NEW a \in [Segments_ -> Nat],
         m["real"] = a["real"], m["ivt"] = a["ivt"], m["vram"] = a["vram"], m["rom"] = a["rom"]
  PROVE  m = a
BY FourAreas

\* Which lengths are all, and which are none.
LEMMA AllMapped == ASSUME NEW m, Has(m, REAL_MEM_SIZE, 1282, 131072, 262144) PROVE m = Areas
<1>1. /\ Areas["real"] = REAL_MEM_SIZE /\ Areas["ivt"] = 1282
      /\ Areas["vram"] = 131072 /\ Areas["rom"] = 262144
  BY DEF Areas
<1>2. QED
  BY <1>1, SameAreas, FourAreas DEF Has

LEMMA NoneIsNone == Has(Unmapped, 0, 0, 0, 0)
BY FourAreas DEF Has, Unmapped

LEMMA NoneMapped == ASSUME NEW m, Has(m, 0, 0, 0, 0) PROVE m = Unmapped
BY NoneIsNone, SameAreas, FourAreas DEF Has

\* munmap of the whole length leaves nothing of its area, and the others alone.
LEMMA MunmapAll ==
  ASSUME NEW m \in [Segments_ -> Nat], NEW s \in Segments_, NEW len \in Nat, m[s] <= len
  PROVE  /\ munmap(m, s, len) \in [Segments_ -> Nat]
         /\ munmap(m, s, len)[s] = 0
         /\ \A t \in Segments_ \ {s} : munmap(m, s, len)[t] = m[t]
<1> DEFINE left == IF m[s] > len THEN m[s] - len ELSE 0
<1>1. m[s] \in Nat /\ left = 0
  BY SMT
<1>2. munmap(m, s, len) = [m EXCEPT ![s] = left]
  BY DEF munmap
<1> HIDE DEF left
<1>3. QED
  BY <1>1, <1>2

\* The munmap of real_mem_deinit leaves nothing mapped, if nothing but the arena is.
LEMMA DeinitAll ==
  ASSUME NEW m \in [Segments_ -> Nat],
         m["real"] = REAL_MEM_SIZE, m["ivt"] = 0, m["vram"] = 0, m["rom"] = 0
  PROVE  munmap(m, "real", REAL_MEM_SIZE) = Unmapped
<1> DEFINE r == munmap(m, "real", REAL_MEM_SIZE)
<1>1. "real" \in Segments_ /\ REAL_MEM_SIZE \in Nat /\ m["real"] <= REAL_MEM_SIZE
  BY FourAreas, MemoryAssumption
<1>2. /\ r \in [Segments_ -> Nat] /\ r["real"] = 0
      /\ \A t \in Segments_ \ {"real"} : r[t] = m[t]
  BY <1>1, MunmapAll
<1> HIDE DEF r
<1>3. Has(r, 0, 0, 0, 0)
  BY <1>2, FourAreas DEF Has
<1>4. r = Unmapped
  BY <1>3, NoneMapped
<1>5. QED
  BY <1>4 DEF r

\* A mapping that works adds its length.
LEMMA MappedHas ==
  ASSUME NEW s \in Segments_, NEW len \in Nat, NEW next, Mapped(s, len, next),
         maps \in [Segments_ -> Nat]
  PROVE  /\ maps' \in [Segments_ -> Nat] /\ maps'[s] = len
         /\ \A t \in Segments_ \ {s} : maps'[t] = maps[t]
         /\ pc' = next /\ context' = context
BY DEF Mapped

-----------------------------------------------------------------------------
\* Each way out of LRMI_init undoes what was mapped on the way to it.
LEMMA InitStep == MInv /\ LRMI_init => MInv'
<1> SUFFICES ASSUME MInv, LRMI_init PROVE MInv'
  OBVIOUS
<1> DEFINE Failed_ == maps' = Unmapped /\ ~ ready' /\ pc' = "failed" /\ context' = context
<1>1. ASSUME Failed_, ~ context.ready PROVE MInv'
  BY <1>1 DEF MInv, MapsAt, AllOrNothing
<1> HIDE DEF Failed_
<1>2. CASE real_mem_init
  <2>1. Has(maps, 0, 0, 0, 0) /\ ~ ready /\ ~ context.ready
    BY <1>2 DEF real_mem_init, MInv, MapsAt
  <2>2. CASE Mapped("real", REAL_MEM_SIZE, "ivt") /\ M!real_mem_init
    <3>1. Has(maps', REAL_MEM_SIZE, 0, 0, 0) /\ pc' = "ivt" /\ context' = context
      BY <2>1, <2>2, MappedHas, FourAreas, MemoryAssumption DEF Has
    <3>2. ready'
      BY <2>2, Zenon DEF M!real_mem_init
    <3>3. QED
      BY <2>1, <3>1, <3>2 DEF MInv, MapsAt, AllOrNothing
  <2>3. CASE pc' = "failed" /\ UNCHANGED world
    <3>1. maps' = Unmapped /\ ready' = ready /\ context' = context
      BY <2>1, <2>3, NoneMapped DEF world, arena
    <3>2. QED
      BY <1>1, <2>1, <2>3, <3>1 DEF Failed_
  <2>4. QED
    BY <1>2, <2>2, <2>3 DEF real_mem_init
<1>3. CASE map_ivt
  <2>1. Has(maps, REAL_MEM_SIZE, 0, 0, 0) /\ ready /\ ~ context.ready
    BY <1>3 DEF map_ivt, MInv, MapsAt
  <2>2. CASE Mapped("ivt", 1282, "vram") /\ UNCHANGED arena
    <3>1. Has(maps', REAL_MEM_SIZE, 1282, 0, 0) /\ pc' = "vram" /\ context' = context
      BY <2>1, <2>2, MappedHas, FourAreas DEF Has
    <3>2. QED
      BY <2>1, <2>2, <3>1 DEF arena, MInv, MapsAt, AllOrNothing
  <2>3. CASE real_mem_deinit(maps)
    <3>1. Failed_
      BY <2>1, <2>3, DeinitAll DEF Has, Failed_, real_mem_deinit
    <3>2. QED
      BY <1>1, <2>1, <3>1
  <2>4. QED
    BY <1>3, <2>2, <2>3 DEF map_ivt
<1>4. CASE map_vram
  <2>1. Has(maps, REAL_MEM_SIZE, 1282, 0, 0) /\ ready /\ ~ context.ready
    BY <1>4 DEF map_vram, MInv, MapsAt
  <2>2. CASE Mapped("vram", 131072, "rom") /\ UNCHANGED arena
    <3>1. Has(maps', REAL_MEM_SIZE, 1282, 131072, 0) /\ pc' = "rom" /\ context' = context
      BY <2>1, <2>2, MappedHas, FourAreas DEF Has
    <3>2. QED
      BY <2>1, <2>2, <3>1 DEF arena, MInv, MapsAt, AllOrNothing
  <2>3. CASE real_mem_deinit(munmap(maps, "ivt", 1282))
    <3> DEFINE m == munmap(maps, "ivt", 1282)
    <3>1. /\ m \in [Segments_ -> Nat] /\ m["real"] = REAL_MEM_SIZE
          /\ m["ivt"] = 0 /\ m["vram"] = 0 /\ m["rom"] = 0
      BY <2>1, MunmapAll, FourAreas DEF Has
    <3>2. munmap(m, "real", REAL_MEM_SIZE) = Unmapped
      BY <3>1, DeinitAll
    <3>3. Failed_
      BY <2>1, <2>3, <3>2 DEF Failed_, real_mem_deinit
    <3>4. QED
      BY <1>1, <2>1, <3>3
  <2>4. QED
    BY <1>4, <2>2, <2>3 DEF map_vram
<1>5. CASE map_rom
  <2>1. Has(maps, REAL_MEM_SIZE, 1282, 131072, 0) /\ ready /\ ~ context.ready
    BY <1>5 DEF map_rom, MInv, MapsAt
  <2>2. CASE Mapped("rom", 262144, "stack") /\ UNCHANGED arena
    <3>1. Has(maps', REAL_MEM_SIZE, 1282, 131072, 262144) /\ pc' = "stack" /\ context' = context
      BY <2>1, <2>2, MappedHas, FourAreas DEF Has
    <3>2. maps' = Areas
      BY <3>1, AllMapped
    <3>3. QED
      BY <2>1, <2>2, <3>1, <3>2 DEF arena, MInv, MapsAt, AllOrNothing
  <2>3. CASE real_mem_deinit(munmap(munmap(maps, "ivt", 1282), "vram", 131072))
    <3> DEFINE l == munmap(maps, "ivt", 1282)
               m == munmap(l, "vram", 131072)
    <3>1. /\ l \in [Segments_ -> Nat] /\ l["real"] = REAL_MEM_SIZE
          /\ l["ivt"] = 0 /\ l["vram"] = 131072 /\ l["rom"] = 0
      BY <2>1, MunmapAll, FourAreas DEF Has
    <3> HIDE DEF l
    <3>2. /\ m \in [Segments_ -> Nat] /\ m["real"] = REAL_MEM_SIZE
          /\ m["ivt"] = 0 /\ m["vram"] = 0 /\ m["rom"] = 0
      BY <3>1, MunmapAll, FourAreas
    <3>3. munmap(m, "real", REAL_MEM_SIZE) = Unmapped
      BY <3>2, DeinitAll
    <3>4. Failed_
      BY <2>1, <2>3, <3>3 DEF Failed_, real_mem_deinit, l
    <3>5. QED
      BY <1>1, <2>1, <3>4
  <2>4. QED
    BY <1>5, <2>2, <2>3 DEF map_rom
<1>6. CASE pc = "stack" /\ M!AllocTake(DEFAULT_STACK_SIZE) /\ pc' = "perm" /\ UNCHANGED maps
  <2>1. ready' = ready
    BY <1>6 DEF M!AllocTake
  <2>2. QED
    BY <1>6, <2>1 DEF MInv, MapsAt, AllOrNothing
<1>7. QED
  BY <1>2, <1>3, <1>4, <1>5, <1>6, Zenon DEF LRMI_init

\* What leaves the maps and the arena in place keeps the invariant, unless it
\* goes to a stage of LRMI_init.
MapPlaces == {"real", "ivt", "vram", "rom", "stack", "failed"}
LEMMA MapsKept ==
  ASSUME MInv, UNCHANGED <<maps, ready, context>>, pc' = pc \/ pc' \notin MapPlaces
  PROVE  MInv'
<1>1. CASE pc' = pc
  BY <1>1 DEF MInv, MapsAt, AllOrNothing
<1>2. CASE pc' \notin MapPlaces
  BY <1>2 DEF MInv, MapsAt, AllOrNothing, MapPlaces
<1>3. QED
  BY <1>1, <1>2

\* LRMI_init maps all it needs or leaves nothing mapped, whichever mapping
\* fails; and what is mapped stays.
LEMMA MapsStep == MInv /\ [Next]_vars => MInv'
<1> SUFFICES ASSUME MInv, [Next]_vars PROVE MInv'
  OBVIOUS
<1>1. CASE UNCHANGED vars
  BY <1>1, MapsKept DEF vars, world, arena, call
<1>2. CASE LRMI_init
  BY <1>2, InitStep
<1>3. CASE pc = "perm" /\ pc' = "idle" /\ UNCHANGED <<arena, held, maps, context>>
  BY <1>3, MapsKept DEF arena, MapPlaces
\* Once the backend is up, the calls leave all of it alone.
<1>4. ASSUME UNCHANGED world, pc' = pc \/ pc' \in Calling \cup {"idle", "dead"} PROVE MInv'
  <2>1. pc' = pc \/ pc' \notin MapPlaces
    BY <1>4, SMT DEF Calling, MapPlaces
  <2>2. QED
    BY <1>4, <2>1, MapsKept DEF world, arena
<1>5. ASSUME NEW size \in Requests, v86_mem_alloc(size) PROVE MInv'
  <2>1. ready' = ready
    BY <1>5, Zenon DEF v86_mem_alloc, M!v86_mem_alloc, M!AllocTake, M!AllocFail
  <2>2. QED
    BY <1>5, <2>1, MapsKept DEF v86_mem_alloc, call
<1>6. ASSUME NEW m \in held \cup {0}, v86_mem_free(m) PROVE MInv'
  <2>1. ready' = ready
    BY <1>6, Zenon DEF v86_mem_free, M!v86_mem_free, M!FreeHit, M!FreeMiss, M!vars
  <2>2. QED
    BY <1>6, <2>1, MapsKept DEF v86_mem_free, call
<1>7. ASSUME NEW v \in DOMAIN Vector, LRMI_int(v) PROVE MInv'
  <2>1. UNCHANGED world /\ pc' \in Calling \cup {"idle", "dead"}
    BY <1>7, Zenon DEF LRMI_int, Calling
  <2>2. QED
    BY <1>4, <2>1
<1>8. CASE run_vm86
  <2>1. UNCHANGED world /\ pc' \in Calling \cup {"idle", "dead"}
    BY <1>8, Zenon DEF run_vm86, run_vm86_enter, run_vm86_leave, run_vm86_look,
       Succeeded, Reflected, Emulated, Failed, Ended, Calling
  <2>2. QED
    BY <1>4, <2>1
<1>9. CASE Kernel
  <2>1. UNCHANGED world /\ (pc' = pc \/ pc' \in Calling \cup {"idle", "dead"})
    BY <1>9, Zenon DEF Kernel, BiosReturned, BiosIret, BiosHalt, BiosLost, BiosInt,
       BiosPort, Back, OnWithin, Calling
  <2>2. QED
    BY <1>4, <2>1
<1>10. ASSUME NEW s \in {"term", "stop"}, Signal(s) PROVE MInv'
  <2>1. UNCHANGED world /\ (pc' = pc \/ pc' \in Calling \cup {"idle", "dead"})
    BY <1>10 DEF Signal, Calling
  <2>2. QED
    BY <1>4, <2>1
<1>11. QED
  BY <1>1, <1>2, <1>3, <1>5, <1>6, <1>7, <1>8, <1>9, <1>10, Zenon DEF Next, v86_init

\* LRMI_init maps all it needs or leaves not a byte mapped, for every arena and
\* each of the four places where it fails and undoes what it did.
THEOREM AllOrNothingHolds == Spec => []AllOrNothing
<1>1. Init => MInv
  BY NoneIsNone DEF Init, M!Init, MInv, MapsAt, AllOrNothing
<1>2. MInv => AllOrNothing
  BY DEF MInv
<1>3. QED
  BY <1>1, <1>2, MapsStep, PTL DEF Spec

-----------------------------------------------------------------------------
Returned == {"back", "look"}
Places == [cs : Nat, ip : Nat]
Entry(s, at, p) == s[at + 1] = p.cs /\ s[at] = p.ip

\* The frames lie one above the other up to the end of the stack, there is
\* room for another one while interrupts may nest, and the BIOS is in a
\* segment that is not the stub's until all frames are gone.
Framed ==
  /\ frames \in Seq(Places) /\ Len(frames) <= DEPTH + 1
  /\ vm \in [cs : Nat, ip : Nat, sp : Int]
  /\ DOMAIN stack = 0 .. Top - 1
  /\ vm.sp = Top - 3 * Len(frames)
  /\ \A k \in 1 .. Len(frames) : Entry(stack, vm.sp + 3 * (k - 1), frames[k])
  /\ frames # <<>> => frames[Len(frames)] = Stub /\ vm.cs # Stub.cs
  /\ frames = <<>> => Place(vm) = Stub
  /\ \A k \in 1 .. Len(frames) - 1 : frames[k].cs # Stub.cs

\* What the kernel came back with fits where the BIOS is.
Told ==
  /\ vret.type = "INTx" =>
       \/ vret.arg = RETURN_TO_32_INT /\ frames = <<>>
       \/ vret.arg \in DOMAIN Vector /\ frames # <<>> /\ Len(frames) <= DEPTH
  /\ vret.type = "UNKNOWN" => frames # <<>>

FInv ==
  /\ DOMAIN stack = 0 .. Top - 1
  /\ pc \in Calling => Framed
  /\ pc \in Returned => Told

-----------------------------------------------------------------------------
\* The stack is as long as its frames may get.
LEMMA TopType == DEPTH \in Nat /\ Top \in Nat /\ Top = 3 * DEPTH + 3
BY LrmiAssumption, SMT DEF Top

\* The stub is a place.
LEMMA StubPlace == Stub \in Places /\ Stub.cs = 2304 /\ Stub.ip = 0
BY DEF Stub, Places

\* A frame more: it comes first, and the others follow.
LEMMA FramesPushed ==
  ASSUME NEW f \in Seq(Places), NEW p \in Places
  PROVE  /\ <<p>> \o f \in Seq(Places)
         /\ Len(<<p>> \o f) = Len(f) + 1
         /\ (<<p>> \o f)[1] = p
         /\ \A k \in 2 .. Len(f) + 1 : (<<p>> \o f)[k] = f[k - 1]
         /\ <<p>> \o f # <<>>
<1>1. <<p>> \in Seq(Places) /\ Len(<<p>>) = 1 /\ <<p>>[1] = p
  OBVIOUS
<1>2. QED
  BY <1>1, SMT

\* A frame less: the others move up.
LEMMA FramesPopped ==
  ASSUME NEW f \in Seq(Places), f # <<>>
  PROVE  /\ Tail(f) \in Seq(Places)
         /\ Len(Tail(f)) = Len(f) - 1 /\ Len(f) \in Nat \ {0}
         /\ \A k \in 1 .. Len(f) - 1 : Tail(f)[k] = f[k + 1]
OBVIOUS

\* An interrupt keeps the stack in order: a frame is pushed below the others,
\* which stay where they are.
LEMMA InterruptKeeps ==
  ASSUME NEW v \in DOMAIN Vector, NEW p \in Places, NEW sp,
         frames \in Seq(Places), Len(frames) <= DEPTH,
         sp = Top - 3 * Len(frames),
         DOMAIN stack = 0 .. Top - 1,
         \A k \in 1 .. Len(frames) : Entry(stack, sp + 3 * (k - 1), frames[k]),
         frames # <<>> => frames[Len(frames)] = Stub /\ p.cs # Stub.cs,
         frames = <<>> => p = Stub,
         \A k \in 1 .. Len(frames) - 1 : frames[k].cs # Stub.cs,
         Interrupt(v, sp, p)
  PROVE  Framed'
<1> DEFINE n == Len(frames)
<1>1. /\ vm' = [cs |-> Vector[v].seg, ip |-> Vector[v].off, sp |-> sp - 3]
      /\ stack' = Pushed(stack, sp, p)
      /\ frames' = <<p>> \o frames
  BY DEF Interrupt
<1>2. n \in Nat /\ sp \in Int /\ sp >= 3 /\ sp <= Top
  BY TopType, SMT
<1>3. /\ frames' \in Seq(Places) /\ Len(frames') = n + 1 /\ frames'[1] = p
      /\ \A k \in 2 .. n + 1 : frames'[k] = frames[k - 1]
      /\ frames' # <<>>
  BY <1>1, FramesPushed
<1>4. /\ DOMAIN stack' = 0 .. Top - 1
      /\ stack'[sp - 2] = p.cs /\ stack'[sp - 3] = p.ip
      /\ \A j \in 0 .. Top - 1 : j >= sp => stack'[j] = stack[j]
  <2>1. stack' = [[[stack EXCEPT ![sp - 1] = DEFAULT_VM86_FLAGS] EXCEPT ![(sp - 1) - 1] = p.cs]
                    EXCEPT ![(sp - 2) - 1] = p.ip]
    BY <1>1, Zenon DEF Pushed, pushw
  <2>2. /\ (sp - 1) - 1 = sp - 2 /\ (sp - 2) - 1 = sp - 3
        /\ sp - 1 \in 0 .. Top - 1 /\ sp - 2 \in 0 .. Top - 1 /\ sp - 3 \in 0 .. Top - 1
    BY <1>2, TopType
  <2>3. stack' = [[[stack EXCEPT ![sp - 1] = DEFAULT_VM86_FLAGS] EXCEPT ![sp - 2] = p.cs]
                    EXCEPT ![sp - 3] = p.ip]
    BY <2>1, <2>2
  <2>4. \A j \in 0 .. Top - 1 : j >= sp => j # sp - 1 /\ j # sp - 2 /\ j # sp - 3
    BY <1>2, TopType
  <2>5. QED
    BY <1>2, <2>2, <2>3, <2>4
<1>5. ASSUME NEW k \in 1 .. n + 1
      PROVE  Entry(stack', vm'.sp + 3 * (k - 1), frames'[k])
  <2>1. CASE k = 1
    <3>1. vm'.sp + 3 * (k - 1) = sp - 3 /\ sp - 3 + 1 = sp - 2
      BY <1>1, <1>2, <2>1, SMT
    <3>2. QED
      BY <1>3, <1>4, <2>1, <3>1 DEF Entry
  <2>2. CASE k # 1
    <3>1. k - 1 \in 1 .. n /\ frames'[k] = frames[k - 1]
      BY <1>2, <1>3, <1>5, <2>2
    <3>2. Entry(stack, sp + 3 * (k - 2), frames[k - 1])
      BY <3>1, SMT
    <3>3. vm'.sp + 3 * (k - 1) = sp + 3 * (k - 2)
      BY <1>1, <1>2, <3>1, SMT
    <3>4. /\ sp + 3 * (k - 2) \in 0 .. Top - 1 /\ sp + 3 * (k - 2) >= sp
          /\ sp + 3 * (k - 2) + 1 \in 0 .. Top - 1
      BY <1>2, <3>1, TopType, SMT
    <3>5. stack'[sp + 3 * (k - 2)] = stack[sp + 3 * (k - 2)]
      BY <1>4, <3>4
    <3>6. stack'[sp + 3 * (k - 2) + 1] = stack[sp + 3 * (k - 2) + 1]
      BY <1>2, <1>4, <3>1, <3>4, SMT
    <3>7. QED
      BY <3>1, <3>2, <3>3, <3>5, <3>6 DEF Entry
  <2>3. QED
    BY <2>1, <2>2
<1>6. vm' \in [cs : Nat, ip : Nat, sp : Int] /\ vm'.cs # Stub.cs /\ vm'.sp = Top - 3 * Len(frames')
  BY <1>1, <1>2, <1>3, LrmiAssumption, TopType, SMT
<1>7. frames'[Len(frames')] = Stub
  <2>1. CASE n = 0
    <3>1. frames = <<>> /\ p = Stub
      BY <2>1
    <3>2. Len(frames') = 1 /\ frames'[1] = Stub
      BY <1>3, <2>1, <3>1
    <3>3. QED
      BY <3>2, Zenon
  <2>2. CASE n # 0
    <3>1. n + 1 \in 2 .. n + 1 /\ (n + 1) - 1 = n
      BY <1>2, <2>2
    <3>2. frames'[n + 1] = frames[n]
      BY <1>3, <3>1
    <3>3. frames # <<>>
      BY <2>2
    <3>4. QED
      BY <1>3, <3>2, <3>3
  <2>3. QED
    BY <2>1, <2>2
<1>8. \A k \in 1 .. Len(frames') - 1 : frames'[k].cs # Stub.cs
  <2> SUFFICES ASSUME NEW k \in 1 .. n PROVE frames'[k].cs # Stub.cs
    BY <1>2, <1>3, SMT
  <2>1. CASE k = 1
    BY <1>3, <2>1
  <2>2. CASE k # 1
    BY <1>2, <1>3, <2>2, SMT
  <2>3. QED
    BY <2>1, <2>2
<1>9. Len(frames') <= DEPTH + 1
  BY <1>2, <1>3, TopType
<1>10. QED
  BY <1>3, <1>4, <1>5, <1>6, <1>7, <1>8, <1>9 DEF Framed

\* While a call goes on, nothing but interrupts and returns touches the stack.
LEMMA FramedKept ==
  ASSUME Framed, UNCHANGED <<stack, frames>>,
         \/ vm' = vm
         \/ vm' = [vm EXCEPT !.ip = @ + 1] /\ frames # <<>>
  PROVE  Framed'
<1>1. /\ vm' \in [cs : Nat, ip : Nat, sp : Int] /\ vm'.sp = vm.sp /\ vm'.cs = vm.cs
      /\ frames = <<>> => vm' = vm
  BY DEF Framed
<1>2. QED
  BY <1>1, Zenon DEF Framed, Place, Entry

\* A return pops the first frame: the BIOS is at its place, and the others lie
\* where they did.
LEMMA IretKeeps ==
  ASSUME Framed, frames # <<>>, UNCHANGED stack, frames' = Tail(frames),
         vm' = [cs |-> stack[vm.sp + 1], ip |-> stack[vm.sp], sp |-> vm.sp + 3]
  PROVE  Framed'
<1> DEFINE n == Len(frames)
<1>1. /\ frames' \in Seq(Places) /\ Len(frames') = n - 1 /\ n \in Nat \ {0}
      /\ \A k \in 1 .. n - 1 : frames'[k] = frames[k + 1]
  BY FramesPopped DEF Framed
<1>2. frames[1] \in Places /\ vm.sp \in Int /\ vm.sp = Top - 3 * n /\ n <= DEPTH + 1
  BY <1>1 DEF Framed
<1>3. stack[vm.sp + 1] = frames[1].cs /\ stack[vm.sp] = frames[1].ip
  <2>1. Entry(stack, vm.sp + 3 * (1 - 1), frames[1])
    BY <1>1 DEF Framed
  <2>2. vm.sp + 3 * (1 - 1) = vm.sp
    BY <1>2
  <2>3. QED
    BY <2>1, <2>2 DEF Entry
<1>4. /\ vm' \in [cs : Nat, ip : Nat, sp : Int]
      /\ vm'.cs = frames[1].cs /\ vm'.ip = frames[1].ip /\ vm'.sp = vm.sp + 3
  BY <1>2, <1>3 DEF Places
<1>5. vm'.sp = Top - 3 * Len(frames') /\ Len(frames') <= DEPTH + 1
  BY <1>1, <1>2, <1>4, TopType
<1>6. ASSUME NEW k \in 1 .. n - 1
      PROVE  Entry(stack', vm'.sp + 3 * (k - 1), frames'[k])
  <2>1. Entry(stack, vm.sp + 3 * ((k + 1) - 1), frames[k + 1])
    BY <1>1, <1>6 DEF Framed
  <2>2. vm.sp + 3 * ((k + 1) - 1) = vm'.sp + 3 * (k - 1)
    BY <1>2, <1>4, <1>6
  <2>3. QED
    BY <1>1, <1>6, <2>1, <2>2
<1>7. frames' = <<>> => Place(vm') = Stub
  <2>1. frames' = <<>> => n = 1
    <3>1. frames' = <<>> => Len(frames') = 0
      OBVIOUS
    <3>2. QED
      BY <1>1, <3>1
  <2>2. n = 1 => frames[1] = Stub
    BY <1>1 DEF Framed
  <2>3. QED
    BY <1>4, <2>1, <2>2 DEF Place, Stub
<1>8. frames' # <<>> => frames'[Len(frames')] = Stub /\ vm'.cs # Stub.cs
  <2> SUFFICES ASSUME frames' # <<>> PROVE frames'[Len(frames')] = Stub /\ vm'.cs # Stub.cs
    OBVIOUS
  <2>1. n - 1 \in 1 .. n - 1 /\ 1 \in 1 .. n - 1
    BY <1>1
  <2>2. frames'[n - 1] = frames[n]
    BY <1>1, <2>1
  <2>3. frames[n] = Stub /\ frames[1].cs # Stub.cs
    BY <2>1 DEF Framed
  <2>4. QED
    BY <1>1, <1>4, <2>2, <2>3
<1>9. \A k \in 1 .. Len(frames') - 1 : frames'[k].cs # Stub.cs
  BY <1>1 DEF Framed
<1>10. DOMAIN stack' = 0 .. Top - 1
  BY DEF Framed
<1>11. QED
  BY <1>1, <1>4, <1>5, <1>6, <1>7, <1>8, <1>9, <1>10 DEF Framed, Place

\* The invariant is inductive: one step for each action that runs in a call.
LEMMA FramesStep == FInv /\ [Next]_vars => FInv'
<1> SUFFICES ASSUME FInv, [Next]_vars PROVE FInv'
  OBVIOUS
<1>1. CASE UNCHANGED <<stack, frames, vm, vret>> /\ (pc' \in Calling => pc \in Calling)
           /\ (pc' \in Returned => pc \in Returned)
  BY <1>1, Zenon DEF FInv, Framed, Told, Place, Entry
\* What stands outside a call needs no more than a stack.
<1>2. CASE UNCHANGED stack /\ pc' \notin Calling
  BY <1>2 DEF FInv, Calling, Returned
<1>3. CASE v86_init
  <2>1. UNCHANGED stack /\ pc' \notin Calling
    BY <1>3 DEF v86_init, LRMI_init, real_mem_init, map_ivt, map_vram, map_rom, Mapped,
       real_mem_deinit, Calling
  <2>2. QED
    BY <1>2, <2>1
<1>4. ASSUME NEW size \in Requests, v86_mem_alloc(size) PROVE FInv'
  BY <1>1, <1>4 DEF v86_mem_alloc, call
<1>5. ASSUME NEW m \in held \cup {0}, v86_mem_free(m) PROVE FInv'
  BY <1>1, <1>5 DEF v86_mem_free, call
<1>6. ASSUME NEW v \in DOMAIN Vector, LRMI_int(v) PROVE FInv'
  <2>1. CASE InRom(Vector[v]) /\ frames = <<>> /\ Interrupt(v, Top, Stub) /\ pc' = "loop"
    <3>1. Framed'
      BY <2>1, TopType, StubPlace, InterruptKeeps DEF FInv
    <3>2. QED
      BY <2>1, <3>1 DEF FInv, Framed, Calling, Returned
  <2>2. CASE pc' = "idle" /\ UNCHANGED stack
    BY <1>2, <2>2 DEF Calling
  <2>3. QED
    BY <1>6, <2>1, <2>2 DEF LRMI_int
<1>7. CASE run_vm86_enter
  BY <1>7 DEF run_vm86_enter, FInv, Framed, Place, Entry, Calling, Returned
<1>8. CASE run_vm86_leave
  BY <1>1, <1>8 DEF run_vm86_leave, Calling, Returned
<1>9. CASE run_vm86_look
  <2>1. pc = "look" /\ Framed /\ Told
    BY <1>9 DEF run_vm86_look, FInv, Calling, Returned
  <2>2. CASE Succeeded \/ Failed
    BY <1>2, <2>2 DEF Succeeded, Failed, Ended, Calling
  <2>3. CASE Reflected
    <3>1. vret.arg \in DOMAIN Vector /\ frames # <<>> /\ Len(frames) <= DEPTH
      BY <2>1, <2>3 DEF Told, Reflected
    <3>2. Place(vm) \in Places /\ Place(vm).cs # Stub.cs
      BY <2>1, <3>1 DEF Framed, Place, Places
    <3>3. Framed'
      BY <2>1, <2>3, <3>1, <3>2, InterruptKeeps DEF Framed, Reflected
    <3>4. QED
      BY <2>3, <3>3 DEF FInv, Framed, Reflected, Calling, Returned
  <2>4. CASE Emulated
    <3>1. CASE pc' = "dead"
      BY <1>2, <2>4, <3>1 DEF Emulated, Calling
    <3>2. CASE pc' = "loop" /\ vm' = [vm EXCEPT !.ip = @ + 1]
      <4>1. frames # <<>> /\ UNCHANGED <<stack, frames>>
        BY <2>1, <2>4 DEF Told, Emulated
      <4>2. Framed'
        BY <2>1, <3>2, <4>1, FramedKept
      <4>3. QED
        BY <3>2, <4>1, <4>2 DEF FInv, Framed, Returned
    <3>3. QED
      BY <2>4, <3>1, <3>2 DEF Emulated
  <2>5. QED
    BY <1>9, <2>2, <2>3, <2>4 DEF run_vm86_look
<1>10. CASE Kernel
  <2>1. pc = "vm86" /\ Framed
    BY <1>10 DEF Kernel, BiosReturned, BiosIret, BiosHalt, BiosLost, BiosInt, BiosPort,
       InHandler, Inside, FInv, Calling
  <2>2. Inside => frames # <<>>
    BY <2>1 DEF Framed, Inside
  \* Framed is enough in vm86, and beside it Told when the kernel comes back.
  <2>3. ASSUME Framed', pc' = "vm86" \/ Told' PROVE FInv'
    BY <2>3, <2>1 DEF FInv, Framed, Returned
  <2>4. CASE BiosReturned
    <3>1. frames = <<>> /\ UNCHANGED <<stack, frames, vm>>
      BY <2>1, <2>4 DEF BiosReturned, Back, Framed, Place, Stub
    <3>2. Told'
      BY <2>4, <3>1 DEF BiosReturned, Back, Told
    <3>3. QED
      BY <2>1, <2>3, <3>1, <3>2, FramedKept
  <2>5. ASSUME NEW v \in DOMAIN Vector, BiosInt(v) PROVE FInv'
    <3>1. frames # <<>> /\ Len(frames) <= DEPTH
      BY <2>2, <2>5 DEF BiosInt, InHandler
    <3>2. CASE Interrupt(v, vm.sp, [Place(vm) EXCEPT !.ip = @ + 1]) /\ OnWithin
      <4>1. [Place(vm) EXCEPT !.ip = @ + 1] \in Places
            /\ [Place(vm) EXCEPT !.ip = @ + 1].cs # Stub.cs
        BY <2>1, <3>1 DEF Framed, Place, Places
      <4>2. Framed'
        BY <2>1, <3>1, <3>2, <4>1, InterruptKeeps DEF Framed
      <4>3. QED
        BY <2>1, <2>3, <3>2, <4>2 DEF OnWithin
    <3>3. CASE Stepped /\ Back("INTx", v, "int")
      <4>1. vm' = [vm EXCEPT !.ip = @ + 1] /\ UNCHANGED <<stack, frames>>
        BY <3>3 DEF Stepped, Back
      <4>2. Framed'
        BY <2>1, <3>1, <4>1, FramedKept
      <4>3. Told'
        BY <3>1, <3>3, <4>1 DEF Told, Back
      <4>4. QED
        BY <2>3, <4>2, <4>3
    <3>4. QED
      BY <2>5, <3>2, <3>3 DEF BiosInt
  <2>6. CASE BiosIret
    <3>1. frames # <<>> /\ UNCHANGED stack /\ frames' = Tail(frames) /\ pc' = "vm86"
          /\ vm' = [cs |-> stack[vm.sp + 1], ip |-> stack[vm.sp], sp |-> vm.sp + 3]
      BY <2>1, <2>2, <2>6 DEF BiosIret, OnWithin
    <3>2. Framed'
      BY <2>1, <3>1, IretKeeps
    <3>3. QED
      BY <2>3, <3>1, <3>2
  <2>7. ASSUME NEW port \in Ports, NEW form \in {"port", "literal", "wide"}, BiosPort(port, form)
        PROVE  FInv'
    <3>1. frames # <<>>
      BY <2>2, <2>7 DEF BiosPort, InHandler
    <3>2. CASE Stepped /\ UNCHANGED <<stack, frames>> /\ OnWithin
      BY <2>1, <2>3, <3>1, <3>2, FramedKept DEF Stepped, OnWithin
    <3>3. CASE Back("UNKNOWN", 0, form) /\ UNCHANGED vm
      <4>1. Told' /\ UNCHANGED <<stack, frames, vm>>
        BY <3>1, <3>3 DEF Back, Told
      <4>2. QED
        BY <2>1, <2>3, <4>1, FramedKept
    <3>4. QED
      BY <2>7, <3>2, <3>3 DEF BiosPort
  <2>8. CASE BiosHalt
    <3>1. Told' /\ UNCHANGED <<stack, frames, vm>>
      BY <2>2, <2>8 DEF BiosHalt, InHandler, Back, Told
    <3>2. QED
      BY <2>1, <2>3, <3>1, FramedKept
  <2>9. CASE BiosLost
    BY <1>2, <2>9 DEF BiosLost, Calling
  <2>10. QED
    BY <1>10, <2>4, <2>5, <2>6, <2>7, <2>8, <2>9 DEF Kernel
<1>11. ASSUME NEW s \in {"term", "stop"}, Signal(s) PROVE FInv'
  <2>1. CASE pc' = pc /\ UNCHANGED vret
    BY <1>1, <1>11, <2>1 DEF Signal, Calling, Returned
  <2>4. CASE pc' = "dead"
    BY <1>2, <1>11, <2>4 DEF Signal, Calling
  <2>2. CASE pc = "vm86" /\ pc' = "back" /\ vret'.type = "SIGNAL"
    <3>1. Framed' /\ Told'
      BY <1>11, <2>2, FramedKept DEF Signal, FInv, Calling, Told
    <3>2. QED
      BY <3>1 DEF FInv, Framed
  <2>3. QED
    <3>1. CASE masked
      BY <1>11, <2>1, <3>1 DEF Signal
    <3>2. CASE ~ masked
      BY <1>11, <2>1, <2>2, <2>4, <3>2 DEF Signal
    <3>3. QED
      BY <3>1, <3>2
<1>12. CASE UNCHANGED vars
  BY <1>1, <1>12 DEF vars, call
<1>13. QED
  BY <1>3, <1>4, <1>5, <1>6, <1>7, <1>8, <1>9, <1>10, <1>11, <1>12 DEF Next, run_vm86

\* The words on the stack are the places the BIOS has to come back to, in
\* their order, for every nest of interrupts and whoever pushed them.
THEOREM StackHoldsFramesHolds == Spec => []StackHoldsFrames
<1>1. Init => FInv
  BY DEF Init, FInv, Calling, Returned
<1>2. FInv => StackHoldsFrames
  <2> SUFFICES ASSUME Framed PROVE /\ vm.sp + 3 * Len(frames) = Top
                                   /\ \A k \in 1 .. Len(frames) :
                                        Entry(stack, vm.sp + 3 * (k - 1), frames[k])
                                   /\ frames # <<>> => frames[Len(frames)] = Stub
    BY Zenon DEF FInv, StackHoldsFrames, Calling, Entry
  <2>1. Len(frames) \in Nat
    BY DEF Framed
  <2>2. QED
    BY <2>1, TopType DEF Framed
<1>3. QED
  BY <1>1, <1>2, FramesStep, PTL DEF Spec
-----------------------------------------------------------------------------
\* Only the last interrupt makes a call successful, and the stack is back
\* where LRMI_int began.
LEMMA OkStep ==
  FInv /\ [Next]_vars => 
    (result' = "ok" /\ result # "ok" => Place(vm) = Stub /\ vm.sp = Top /\ frames = <<>>)
<1> SUFFICES ASSUME FInv, [Next]_vars, result' = "ok", result # "ok"
             PROVE  Place(vm) = Stub /\ vm.sp = Top /\ frames = <<>>
  OBVIOUS
<1>1. CASE run_vm86_look /\ Succeeded
  <2>1. Framed /\ Told /\ vret.type = "INTx" /\ vret.arg = RETURN_TO_32_INT
    BY <1>1 DEF run_vm86_look, Succeeded, FInv, Calling, Returned
  <2>2. frames = <<>>
    BY <2>1, LrmiAssumption DEF Told
  <2>3. Len(frames) = 0
    BY <2>2
  <2>4. QED
    BY <2>1, <2>2, <2>3, TopType DEF Framed
\* No other step sets the result to "ok".
<1>2. CASE result' \in {"notrom", "failed", "none", result}
  BY <1>2
<1>3. CASE v86_init
  BY <1>2, <1>3, Zenon DEF v86_init
<1>4. ASSUME NEW size \in Requests, v86_mem_alloc(size) PROVE FALSE
  BY <1>4, Zenon DEF v86_mem_alloc, call
<1>5. ASSUME NEW m \in held \cup {0}, v86_mem_free(m) PROVE FALSE
  BY <1>5, Zenon DEF v86_mem_free, call
<1>6. ASSUME NEW v \in DOMAIN Vector, LRMI_int(v) PROVE FALSE
  BY <1>6, Zenon DEF LRMI_int
<1>7. CASE run_vm86_enter \/ run_vm86_leave
  BY <1>2, <1>7, Zenon DEF run_vm86_enter, run_vm86_leave
<1>8. CASE run_vm86_look /\ ~ Succeeded
  BY <1>2, <1>8, Zenon DEF run_vm86_look, Reflected, Emulated, Failed, Ended
<1>9. CASE Kernel
  BY <1>2, <1>9, Zenon DEF Kernel, BiosReturned, BiosIret, BiosHalt, BiosLost, BiosInt, BiosPort,
     Back, OnWithin
<1>10. ASSUME NEW s \in {"term", "stop"}, Signal(s) PROVE FALSE
  BY <1>10, Zenon DEF Signal
<1>11. CASE UNCHANGED vars
  BY <1>11, Zenon DEF vars, call
<1>12. QED
  BY <1>1, <1>3, <1>4, <1>5, <1>6, <1>7, <1>8, <1>9, <1>10, <1>11, Zenon DEF Next, run_vm86

\* A call reports success only when the BIOS came back to the stub with all
\* its interrupts done and its stack used up.
THEOREM OkIsReturnedHolds == Spec => OkIsReturned
<1>1. Init => FInv
  BY DEF Init, FInv, Calling, Returned
<1>2. QED
  BY <1>1, FramesStep, OkStep, PTL DEF Spec, OkIsReturned

-----------------------------------------------------------------------------
\* The signals are blocked from before vm86 until after it, so that vm86 ends
\* with an interrupt or an instruction; and with ioperm no instruction it ends
\* with uses a port, for a port is beyond 1024 only when DX holds it.
Stages == {"real", "ivt", "vram", "rom", "stack", "perm"}
HInv ==
  /\ pc \in {"vm86", "back"} => masked
  /\ pc \in Calling \cup Stages => result = "none"
  /\ pc \in Returned => vret.type \in {"INTx", "UNKNOWN"}
  /\ pc \in Returned /\ "ioperm" \in granted /\ vret.type = "UNKNOWN" =>
       vret.insn \in {"port", "hlt"}
  /\ FailsOnlyOfHlt

LEMMA HltStep == HInv /\ [Next]_vars => HInv'
<1> SUFFICES ASSUME HInv, [Next]_vars PROVE HInv'
  OBVIOUS
<1> USE DEF HInv, FailsOnlyOfHlt, Calling, Returned, Stages
<1>1. CASE v86_init
  <2>1. pc \in Stages /\ pc' \notin Calling /\ UNCHANGED <<vret, result>>
    BY <1>1 DEF v86_init, LRMI_init, real_mem_init, map_ivt, map_vram, map_rom, Mapped,
       real_mem_deinit
  <2>2. QED
    BY <2>1
<1>2. ASSUME NEW size \in Requests, v86_mem_alloc(size) PROVE HInv'
  BY <1>2, Zenon DEF v86_mem_alloc, call
<1>3. ASSUME NEW m \in held \cup {0}, v86_mem_free(m) PROVE HInv'
  BY <1>3, Zenon DEF v86_mem_free, call
<1>4. ASSUME NEW v \in DOMAIN Vector, LRMI_int(v) PROVE HInv'
  BY <1>4 DEF LRMI_int
<1>5. CASE run_vm86_enter
  BY <1>5, Zenon DEF run_vm86_enter, world
<1>6. CASE run_vm86_leave
  BY <1>6, Zenon DEF run_vm86_leave, world
<1>7. CASE run_vm86_look
  BY <1>7, Zenon DEF run_vm86_look, Succeeded, Reflected, Emulated, Failed, Ended, Known, world
<1>8. CASE Kernel
  <2>1. pc = "vm86" /\ masked /\ result = "none" /\ UNCHANGED <<result, masked, granted>>
    BY <1>8, Zenon DEF Kernel, BiosReturned, BiosIret, BiosHalt, BiosLost, BiosInt, BiosPort,
       Back, OnWithin, InHandler, Inside, world
  \* The kernel goes on, comes back in one of three ways, or the process dies.
  <2>2. CASE pc' \in {"vm86", "dead"}
    BY <2>1, <2>2
  <2>3. CASE pc' = "back" /\ vret'.type = "INTx"
    BY <2>1, <2>3
  <2>4. CASE pc' = "back" /\ vret'.type = "UNKNOWN" /\ vret'.insn = "hlt"
    BY <2>1, <2>4
  <2>5. ASSUME NEW port \in Ports, NEW form \in {"port", "literal", "wide"},
               ~ Opened(port), form # "port" => port < 256,
               pc' = "back", vret' = [type |-> "UNKNOWN", arg |-> 0, insn |-> form]
        PROVE  HInv'
    BY LrmiAssumption, <2>1, <2>5 DEF Opened
  <2>6. ASSUME NEW port \in Ports, NEW form \in {"port", "literal", "wide"}, BiosPort(port, form)
        PROVE  HInv'
    <3>1. form # "port" => port < 256
      BY <2>6 DEF BiosPort
    <3>2. CASE Opened(port)
      BY <2>1, <2>2, <2>6, <3>2 DEF BiosPort, OnWithin
    <3>3. CASE ~ Opened(port)
      BY <2>5, <2>6, <3>1, <3>3 DEF BiosPort, Back
    <3>4. QED
      BY <3>2, <3>3
  <2>7. ASSUME NEW v \in DOMAIN Vector, BiosInt(v) PROVE HInv'
    BY <2>1, <2>2, <2>3, <2>7 DEF BiosInt, OnWithin, Back
  <2>8. CASE BiosReturned \/ BiosIret \/ BiosHalt \/ BiosLost
    BY <2>1, <2>2, <2>3, <2>4, <2>8 DEF BiosReturned, BiosIret, BiosHalt, BiosLost, OnWithin, Back
  <2>9. QED
    BY <1>8, <2>6, <2>7, <2>8 DEF Kernel
<1>9. ASSUME NEW s \in {"term", "stop"}, Signal(s) PROVE HInv'
  BY <1>9, Zenon DEF Signal, world
<1>10. CASE UNCHANGED vars
  BY <1>10, Zenon DEF vars, world, call
<1>11. QED
  BY <1>1, <1>2, <1>3, <1>4, <1>5, <1>6, <1>7, <1>8, <1>9, <1>10, Zenon DEF Next, run_vm86

\* With the permissions granted, a call fails only because of an instruction
\* no process may execute: no port of the BIOS and no signal makes it fail.
THEOREM FailsOnlyOfHltHolds == Spec => []FailsOnlyOfHlt
<1>1. Init => HInv
  BY DEF Init, HInv, FailsOnlyOfHlt, Calling, Returned
<1>2. HInv => FailsOnlyOfHlt
  BY DEF HInv
<1>3. QED
  BY <1>1, <1>2, HltStep, PTL DEF Spec

-----------------------------------------------------------------------------
(***************************************************************************)
(* The stack and the buffers are chunks of the arena.  The theory of the   *)
(* allocator says what becomes of chunks; what is added here is whose they *)
(* are, and that nobody frees the stack.                                   *)
(***************************************************************************)
P == INSTANCE RealMemProofs WITH Requests <- Requests \cup {DEFAULT_STACK_SIZE}, Strays <- {}

Starting == {"real", "ivt", "vram", "rom", "stack", "failed"}
StackChunk == [addr |-> context.stack, size |-> DEFAULT_STACK_SIZE]

\* Every address that is held is that of a chunk, and so is the stack's, which
\* is not held.
MemInv ==
  /\ P!IInv
  /\ pc \in Starting => ~ context.ready
  /\ ~ context.ready => held = {}
  /\ pc \in Calling \cup {"idle", "perm"} => context.ready
  /\ context.ready =>
       /\ StackChunk \in P!Live
       /\ \A m \in held : m # context.stack /\ \E c \in P!Live : c.addr = m

\* What the allocator assumes is assumed here.
LEMMA HeapAssumptions ==
  /\ P!ArenaAssumption /\ P!TableAssumption
  /\ P!RequestsAssumption /\ P!StraysAssumption
BY MemoryAssumption
   DEF P!ArenaAssumption, P!TableAssumption, P!RequestsAssumption, P!StraysAssumption,
       P!FieldRange, DEFAULT_STACK_SIZE

\* The operations of the backend are those of the theory.
LEMMA SameOperations ==
  /\ M!real_mem_init <=> P!real_mem_init
  /\ \A size : (M!v86_mem_alloc(size) <=> P!v86_mem_alloc(size))
  /\ \A size : (M!AllocTake(size) <=> P!AllocTake(size))
  /\ \A m : (M!v86_mem_free(m) <=> P!v86_mem_free(m))
<1>1. M!real_mem_init <=> P!real_mem_init
  BY DEF M!real_mem_init, P!real_mem_init, M!Bits20, P!Bits20, M!FieldRange, P!FieldRange
<1>2. \A size : (M!AllocTake(size) <=> P!AllocTake(size))
  BY DEF M!AllocTake, P!AllocTake, M!TableFull, P!TableFull, M!FirstFit, P!FirstFit,
     M!Fits, P!Fits, M!Split, P!Split, M!insert_block, P!insert_block, M!Slots, P!Slots,
     M!RoundUp, P!RoundUp, M!Bits20, P!Bits20, M!FieldRange, P!FieldRange
<1>3. \A size : (M!AllocFail(size) <=> P!AllocFail(size))
  BY DEF M!AllocFail, P!AllocFail, M!TableFull, P!TableFull, M!Fits, P!Fits,
     M!RoundUp, P!RoundUp
<1>4. \A m : (M!FreeHit(m) <=> P!FreeHit(m))
  BY DEF M!FreeHit, P!FreeHit, M!StartsAt, P!StartsAt, M!MarkFree, P!MarkFree,
     M!MergeNext, P!MergeNext, M!MergePrev, P!MergePrev, M!Absorb, P!Absorb,
     M!Table, P!Table, M!delete_block, P!delete_block, M!Slots, P!Slots,
     M!Bits20, P!Bits20, M!FieldRange, P!FieldRange
<1>5. \A m : (M!FreeMiss(m) <=> P!FreeMiss(m))
  BY DEF M!FreeMiss, P!FreeMiss, M!vars, P!vars
<1>6. QED
  BY <1>1, <1>2, <1>3, <1>4, <1>5
     DEF M!v86_mem_alloc, P!v86_mem_alloc, M!v86_mem_free, P!v86_mem_free

\* A table that is not ready needs no more than its types.
LEMMA HeapDown == ASSUME P!IInv, ready' = FALSE, UNCHANGED <<count, blocks, ret>> PROVE P!IInv'
<1>1. P!TypeOK'
  BY DEF P!IInv, P!TypeOK
<1>2. QED
  BY <1>1 DEF P!IInv

\* Nothing is held before the stack is there, and the stack is a chunk of its
\* own: 4096 bytes are a whole number of paragraphs.
LEMMA StartKeeps == ASSUME MemInv, LRMI_init PROVE MemInv'
<1>1. ~ context.ready /\ held = {} /\ P!IInv
  BY DEF MemInv, LRMI_init, real_mem_init, map_ivt, map_vram, map_rom, Starting
<1>2. CASE pc = "stack" /\ M!AllocTake(DEFAULT_STACK_SIZE)
           /\ context' = [ready |-> TRUE, stack |-> ret'] /\ pc' = "perm" /\ held' = held
  <2>1. P!v86_mem_alloc(DEFAULT_STACK_SIZE) /\ P!AllocTake(DEFAULT_STACK_SIZE)
    BY <1>2, SameOperations DEF P!v86_mem_alloc
  <2>2. /\ P!IInv'
        /\ ret' # 0 => P!Live' = P!Live \cup {[addr |-> ret', size |-> P!RoundUp(DEFAULT_STACK_SIZE)]}
    BY <1>1, <2>1, P!AllocAdds, HeapAssumptions
  <2>3. ret' # 0
    <3>1. P!H!Grant(DEFAULT_STACK_SIZE)
      BY <1>1, <2>1, P!AllocIsGrant, HeapAssumptions
    <3>2. ret' >= REAL_MEM_BASE
      BY <3>1 DEF P!H!Grant
    <3>3. QED
      BY <3>2, MemoryAssumption
  <2>4. P!RoundUp(DEFAULT_STACK_SIZE) = DEFAULT_STACK_SIZE
    BY SMT DEF P!RoundUp, DEFAULT_STACK_SIZE
  <2>5. context'.ready /\ context'.stack = ret'
    BY <1>2
  <2>6. StackChunk' = [addr |-> ret', size |-> DEFAULT_STACK_SIZE]
    BY <2>5 DEF StackChunk, DEFAULT_STACK_SIZE
  <2>7. StackChunk' \in P!Live'
    BY <2>2, <2>3, <2>4, <2>6
  <2>8. held' = {} /\ pc' = "perm"
    BY <1>1, <1>2
  <2>9. QED
    BY <2>2, <2>5, <2>7, <2>8 DEF MemInv, Starting, Calling
<1>3. CASE pc' \in Starting /\ UNCHANGED <<held, context>> /\ P!IInv'
  BY <1>1, <1>3 DEF MemInv, Starting, Calling
<1>4. ASSUME NEW m, real_mem_deinit(m) PROVE MemInv'
  BY <1>1, <1>3, <1>4, HeapDown DEF real_mem_deinit, Starting
<1>5. ASSUME NEW s, NEW len, NEW next \in {"vram", "rom", "stack"},
             Mapped(s, len, next), UNCHANGED arena
      PROVE  MemInv'
  <2>1. P!IInv'
    BY <1>1, <1>5, P!IInvStep, HeapAssumptions DEF arena, P!vars
  <2>2. QED
    BY <1>3, <1>5, <2>1 DEF Mapped, Starting
<1>6. CASE real_mem_init
  <2>1. CASE pc' = "failed" /\ UNCHANGED world
    <3>1. P!IInv'
      BY <1>1, <2>1, P!IInvStep, HeapAssumptions DEF world, arena, P!vars
    <3>2. QED
      BY <1>3, <2>1, <3>1 DEF world, Starting
  <2>2. CASE Mapped("real", REAL_MEM_SIZE, "ivt") /\ M!real_mem_init
    <3>1. P!Next
      BY <2>2, SameOperations DEF P!Next
    <3>2. P!IInv'
      BY <1>1, <3>1, P!IInvStep, HeapAssumptions
    <3>3. QED
      BY <1>3, <2>2, <3>2 DEF Mapped, Starting
  <2>3. QED
    BY <1>6, <2>1, <2>2 DEF real_mem_init
<1>7. CASE map_ivt
  <2>1. CASE real_mem_deinit(maps)
    BY <1>4, <2>1
  <2>2. CASE Mapped("ivt", 1282, "vram") /\ UNCHANGED arena
    BY <1>5, <2>2
  <2>3. QED
    BY <1>7, <2>1, <2>2 DEF map_ivt
<1>8. CASE map_vram
  <2> DEFINE m == munmap(maps, "ivt", 1282)
  <2>1. CASE real_mem_deinit(m)
    BY <1>4, <2>1
  <2>2. CASE Mapped("vram", 131072, "rom") /\ UNCHANGED arena
    BY <1>5, <2>2
  <2>3. QED
    BY <1>8, <2>1, <2>2 DEF map_vram
<1>9. CASE map_rom
  <2> DEFINE m == munmap(munmap(maps, "ivt", 1282), "vram", 131072)
  <2>1. CASE real_mem_deinit(m)
    BY <1>4, <2>1
  <2>2. CASE Mapped("rom", 262144, "stack") /\ UNCHANGED arena
    BY <1>5, <2>2
  <2>3. QED
    BY <1>9, <2>1, <2>2 DEF map_rom
<1>10. QED
  BY <1>2, <1>6, <1>7, <1>8, <1>9 DEF LRMI_init

\* A task's buffer is another chunk than the stack.
LEMMA BufferKeeps ==
  ASSUME MemInv, NEW size \in Requests, v86_mem_alloc(size)
  PROVE  MemInv'
<1>1. /\ pc = "idle" /\ context.ready /\ P!IInv /\ StackChunk \in P!Live
      /\ \A m \in held : m # context.stack /\ \E c \in P!Live : c.addr = m
  BY DEF MemInv, v86_mem_alloc
<1>2. /\ P!v86_mem_alloc(size) /\ pc' = pc /\ context' = context
      /\ held' = IF ret' = 0 THEN held ELSE held \cup {ret'}
  BY SameOperations DEF v86_mem_alloc, call
<1>3. /\ P!IInv'
      /\ ret' = 0 => P!Live' = P!Live
      /\ ret' # 0 =>
           /\ P!Live' = P!Live \cup {[addr |-> ret', size |-> P!RoundUp(size)]}
           /\ \A c \in P!Live : c.addr # ret'
  BY <1>1, <1>2, P!AllocAdds, HeapAssumptions
<1>4. StackChunk' = StackChunk /\ StackChunk.addr = context.stack
  BY <1>2 DEF StackChunk
<1>5. StackChunk \in P!Live' /\ P!Live \subseteq P!Live'
  BY <1>1, <1>3
<1>6. \A m \in held' : m # context.stack /\ \E c \in P!Live' : c.addr = m
  <2> SUFFICES ASSUME NEW m \in held' PROVE m # context.stack /\ \E c \in P!Live' : c.addr = m
    OBVIOUS
  <2>1. CASE m \in held
    BY <1>1, <1>5, <2>1
  <2>2. CASE m = ret' /\ ret' # 0
    <3>1. ret' # context.stack
      BY <1>1, <1>3, <1>4, <2>2
    <3>2. [addr |-> ret', size |-> P!RoundUp(size)] \in P!Live'
      BY <1>3, <2>2
    <3>3. [addr |-> ret', size |-> P!RoundUp(size)].addr = ret'
      OBVIOUS
    <3>4. QED
      BY <2>2, <3>1, <3>2, <3>3
  <2>3. QED
    BY <1>2, <2>1, <2>2
<1>7. QED
  BY <1>1, <1>2, <1>3, <1>4, <1>5, <1>6 DEF MemInv, Starting, Calling

\* A free takes the chunk at its address: never the stack's, since that is not
\* held and 0 is no address of a chunk, and no one's that is still held.
LEMMA FreeKeeps ==
  ASSUME MemInv, NEW m \in held \cup {0}, v86_mem_free(m)
  PROVE  MemInv'
<1>1. /\ pc = "idle" /\ context.ready /\ P!IInv /\ StackChunk \in P!Live
      /\ \A h \in held : h # context.stack /\ \E c \in P!Live : c.addr = h
  BY DEF MemInv, v86_mem_free
<1>2. P!v86_mem_free(m) /\ pc' = pc /\ context' = context /\ held' = held \ {m}
  BY SameOperations DEF v86_mem_free, call
<1>3. P!IInv' /\ P!Live' = {c \in P!Live : c.addr # m}
  BY <1>1, <1>2, P!FreeRemoves, HeapAssumptions
<1>4. StackChunk' = StackChunk /\ StackChunk.addr = context.stack
  BY <1>2 DEF StackChunk
<1>5. context.stack # 0
  <2>1. StackChunk.addr >= REAL_MEM_BASE
    BY <1>1, P!ChunkInArena, HeapAssumptions
  <2>2. QED
    BY <1>4, <2>1, MemoryAssumption
<1>6. StackChunk \in P!Live'
  BY <1>1, <1>3, <1>4, <1>5
<1>7. \A h \in held' : h # context.stack /\ \E c \in P!Live' : c.addr = h
  BY <1>1, <1>2, <1>3
<1>8. QED
  BY <1>1, <1>2, <1>3, <1>4, <1>6, <1>7 DEF MemInv, Starting, Calling

\* The invariant is inductive; the calls leave the arena alone.
LEMMA HeldStep == MemInv /\ [Next]_vars => MemInv'
<1> SUFFICES ASSUME MemInv, [Next]_vars PROVE MemInv'
  OBVIOUS
<1>1. ASSUME UNCHANGED world, pc' \notin Starting \/ pc' = pc,
             pc' \in Calling \cup {"idle", "perm"} => pc \in Calling \cup {"idle", "perm"}
      PROVE  MemInv'
  <2>1. P!IInv'
    BY <1>1, P!IInvStep, HeapAssumptions DEF MemInv, world, arena, P!vars
  <2>2. P!Live' = P!Live
    BY <1>1 DEF world, arena, P!Live
  <2>3. StackChunk' = StackChunk /\ context' = context /\ held' = held
    BY <1>1 DEF world, StackChunk
  <2>4. QED
    BY <1>1, <2>1, <2>2, <2>3, Zenon DEF MemInv
<1>2. CASE LRMI_init
  BY <1>2, StartKeeps
<1>3. CASE pc = "perm" /\ pc' = "idle" /\ UNCHANGED <<arena, held, maps, context>>
  <2>1. P!IInv'
    BY <1>3, P!IInvStep, HeapAssumptions DEF MemInv, arena, P!vars
  <2>2. P!Live' = P!Live
    BY <1>3 DEF arena, P!Live
  <2>3. StackChunk' = StackChunk /\ context' = context /\ held' = held
    BY <1>3 DEF StackChunk
  <2>4. QED
    BY <1>3, <2>1, <2>2, <2>3 DEF MemInv, Starting, Calling
<1>4. ASSUME NEW size \in Requests, v86_mem_alloc(size) PROVE MemInv'
  BY <1>4, BufferKeeps
<1>5. ASSUME NEW m \in held \cup {0}, v86_mem_free(m) PROVE MemInv'
  BY <1>5, FreeKeeps
<1>6. ASSUME NEW v \in DOMAIN Vector, LRMI_int(v) PROVE MemInv'
  BY <1>1, <1>6 DEF LRMI_int, Starting, Calling
<1>7. CASE run_vm86
  BY <1>1, <1>7 DEF run_vm86, run_vm86_enter, run_vm86_leave, run_vm86_look,
     Succeeded, Reflected, Emulated, Failed, Ended, Starting, Calling
<1>8. CASE Kernel
  BY <1>1, <1>8 DEF Kernel, BiosReturned, BiosIret, BiosHalt, BiosLost, BiosInt,
     BiosPort, Back, OnWithin, InHandler, Inside, Starting, Calling
<1>9. ASSUME NEW s \in {"term", "stop"}, Signal(s) PROVE MemInv'
  BY <1>1, <1>9 DEF Signal, Starting, Calling
<1>10. CASE UNCHANGED vars
  BY <1>1, <1>10, Zenon DEF vars, call
<1>11. QED
  BY <1>2, <1>3, <1>4, <1>5, <1>6, <1>7, <1>8, <1>9, <1>10 DEF Next, v86_init

\* Whatever tasks allocate and free, the stack that LRMI_init took stays a
\* block of 4096 bytes of its own, and no buffer begins within it.
THEOREM StackKeptHolds == Spec => []StackKept
<1>1. Init => MemInv
  <2> SUFFICES ASSUME Init PROVE MemInv
    OBVIOUS
  <2>1. P!Init
    BY DEF Init, M!Init, P!Init, M!Slots, P!Slots
  <2>2. P!IInv
    BY <2>1, P!IInvInit, HeapAssumptions
  <2>3. QED
    BY <2>2 DEF Init, MemInv, Starting, Calling
<1>2. MemInv => StackKept
  <2> SUFFICES ASSUME MemInv, context.ready PROVE StackKept
    BY DEF StackKept
  <2>1. /\ P!IInv /\ StackChunk \in P!Live
        /\ StackChunk.addr = context.stack /\ StackChunk.size = DEFAULT_STACK_SIZE
    BY DEF MemInv, StackChunk
  <2>2. \E i \in 0 .. count - 1 :
          ~ blocks[i].free /\ blocks[i].addr = context.stack /\ blocks[i].size = DEFAULT_STACK_SIZE
    <3>1. PICK i \in 0 .. count - 1 :
            ~ blocks[i].free /\ StackChunk = [addr |-> blocks[i].addr, size |-> blocks[i].size]
      BY <2>1 DEF P!Live
    <3>2. QED
      BY <2>1, <3>1
  <2>3. ASSUME NEW m \in held
        PROVE  m >= context.stack + DEFAULT_STACK_SIZE \/ m < context.stack
    <3>1. PICK c \in P!Live : c.addr = m /\ m # context.stack
      BY DEF MemInv
    <3>2. c.addr >= StackChunk.addr + StackChunk.size \/ StackChunk.addr >= c.addr + c.size
      BY <2>1, <3>1, P!ChunksApart, HeapAssumptions
    <3>3. /\ c.addr \in Nat /\ c.size \in Nat /\ c.size > 0
          /\ StackChunk.addr \in Nat
      BY <2>1, P!ChunkInArena, HeapAssumptions
    <3>4. QED
      BY <2>1, <3>1, <3>2, <3>3
  <2>4. QED
    BY <2>2, <2>3 DEF StackKept
<1>3. QED
  BY <1>1, <1>2, HeldStep, PTL DEF Spec
=============================================================================
