---------------------------- MODULE V86dProofs ----------------------------
(***************************************************************************)
(* Proofs about the daemon, for every set of messages, socket, arena and   *)
(* number of lives: what it holds in memory between tasks, that it listens *)
(* when it says so, and that it is the service of module Service.          *)
(***************************************************************************)
EXTENDS V86d, TLAPS

Sizes == {DEFAULT_STACK_SIZE, HALT_SIZE} \cup ({m.buf_len : m \in Messages} \ {0})

\* The theory of the allocator, about the allocator of the daemon.
P == INSTANCE RealMemProofs WITH Requests <- Sizes, Strays <- {}

-----------------------------------------------------------------------------
\* The sizes the daemon asks for are positive.
LEMMA SizesPositive == Sizes \subseteq Nat \ {0}
BY MessagesAssumption DEF Sizes, Body, DEFAULT_STACK_SIZE, HALT_SIZE

\* What the allocator assumes is assumed here.
LEMMA HeapAssumptions ==
  /\ P!ArenaAssumption /\ P!TableAssumption
  /\ P!RequestsAssumption /\ P!StraysAssumption
BY MemoryAssumption, SizesPositive
   DEF P!ArenaAssumption, P!TableAssumption, P!RequestsAssumption, P!StraysAssumption,
       P!FieldRange

\* Its operations are those of the theory.
LEMMA SameOperations ==
  /\ RM!real_mem_init <=> P!real_mem_init
  /\ RM!real_mem_deinit <=> P!real_mem_deinit
  /\ \A size : (RM!v86_mem_alloc(size) <=> P!v86_mem_alloc(size))
  /\ \A m : (RM!v86_mem_free(m) <=> P!v86_mem_free(m))
<1>1. RM!real_mem_init <=> P!real_mem_init
    BY DEF RM!real_mem_init, P!real_mem_init, RM!Bits20, P!Bits20, RM!FieldRange, P!FieldRange
<1>2. RM!real_mem_deinit <=> P!real_mem_deinit
    BY DEF RM!real_mem_deinit, P!real_mem_deinit
<1>3. \A size : (RM!AllocTake(size) <=> P!AllocTake(size))
    BY DEF RM!AllocTake, P!AllocTake, RM!TableFull, P!TableFull, RM!FirstFit, P!FirstFit,
       RM!Fits, P!Fits, RM!Split, P!Split, RM!insert_block, P!insert_block, RM!Slots, P!Slots,
       RM!RoundUp, P!RoundUp, RM!Bits20, P!Bits20, RM!FieldRange, P!FieldRange
<1>4. \A size : (RM!AllocFail(size) <=> P!AllocFail(size))
    BY DEF RM!AllocFail, P!AllocFail, RM!TableFull, P!TableFull, RM!Fits, P!Fits,
       RM!RoundUp, P!RoundUp
<1>5. \A m : (RM!FreeHit(m) <=> P!FreeHit(m))
    BY DEF RM!FreeHit, P!FreeHit, RM!StartsAt, P!StartsAt, RM!MarkFree, P!MarkFree,
       RM!MergeNext, P!MergeNext, RM!MergePrev, P!MergePrev, RM!Absorb, P!Absorb,
       RM!Table, P!Table, RM!delete_block, P!delete_block, RM!Slots, P!Slots,
       RM!Bits20, P!Bits20, RM!FieldRange, P!FieldRange
<1>6. \A m : (RM!FreeMiss(m) <=> P!FreeMiss(m))
    BY DEF RM!FreeMiss, P!FreeMiss, RM!vars, P!vars
<1> QED BY <1>1, <1>2, <1>3, <1>4, <1>5, <1>6
        DEF RM!v86_mem_alloc, P!v86_mem_alloc, RM!v86_mem_free, P!v86_mem_free

\* What the daemon calls live is what the theory does.
LEMMA SameLive == RM!Live = P!Live /\ RM!Live' = P!Live'
BY DEF RM!Live, P!Live

\* A step of the allocator keeps its invariant.
LEMMA HeapKept ==
  ASSUME P!IInv, P!Next \/ UNCHANGED heap
  PROVE  P!IInv'
<1>1. [P!Next]_(P!vars)
    BY DEF heap, P!vars
<1> QED BY <1>1, P!IInvStep, HeapAssumptions

\* Mapping the arena leaves nothing allocated in it.
LEMMA ArenaStarts ==
  ASSUME P!IInv, RM!real_mem_init
  PROVE  P!IInv' /\ ready' /\ RM!Live' = {}
<1>1. P!real_mem_init
    BY SameOperations
<1>2. P!IInv'
    BY <1>1, HeapKept DEF P!Next
<1>3. ready' /\ count' = 1
    BY <1>1 DEF P!real_mem_init
<1>4. P!TypeOK
    BY DEF P!IInv
<1>5. P!Sound(blocks', count')
    BY <1>1, <1>4, P!InitSound, HeapAssumptions
<1>6. blocks'[0].free
    BY <1>3, <1>5 DEF P!Sound, P!Layout
<1>7. RM!Live' = {}
    BY <1>3, <1>6 DEF RM!Live
<1> QED BY <1>2, <1>3, <1>7

\* An allocation adds one chunk, at an address where none was, or returns 0.
LEMMA AllocGives ==
  ASSUME P!IInv, NEW size \in Sizes, RM!v86_mem_alloc(size)
  PROVE  /\ P!IInv' /\ ready' = ready
         /\ ret' # 0 =>
              /\ RM!Live' = RM!Live \cup {[addr |-> ret', size |-> RM!RoundUp(size)]}
              /\ \A c \in RM!Live : c.addr # ret'
<1>1. P!v86_mem_alloc(size)
    BY SameOperations
<1>2. /\ P!IInv' /\ ready' = ready
      /\ ret' # 0 =>
           /\ P!Live' = P!Live \cup {[addr |-> ret', size |-> P!RoundUp(size)]}
           /\ \A c \in P!Live : c.addr # ret'
    BY <1>1, P!AllocAdds, HeapAssumptions
<1> QED BY <1>2, SameLive DEF P!RoundUp, RM!RoundUp

\* Freeing a chunk takes it and no other.
LEMMA FreeGives ==
  ASSUME P!IInv, NEW c \in RM!Live, RM!v86_mem_free(c.addr)
  PROVE  /\ P!IInv' /\ ready' = ready /\ ret' = ret
         /\ RM!Live' = {d \in RM!Live : d.addr # c.addr}
<1>1. P!v86_mem_free(c.addr)
    BY SameOperations
<1>2. P!IInv' /\ P!Live' = {d \in P!Live : d.addr # c.addr} /\ ready' = ready /\ ret' = ret
    BY <1>1, P!FreeRemoves, HeapAssumptions
<1> QED BY <1>2, SameLive

-----------------------------------------------------------------------------
(***************************************************************************)
(* Types.  That the heap is well-formed needs that a task asks for memory  *)
(* only when its message is one of the kernel's (Asked): the others may    *)
(* have a buffer of length 0, for which the allocator is not made.         *)
(***************************************************************************)
Asked == pc \in InTask => msg.body \in Messages /\ Answerable(msg)

\* What is in the message on the way through v86_task, and what goes back.
Honest ==
  /\ pc \in {"task", "int", "finish"} => data = "request"
  /\ pc = "finish" /\ good => low = "bios"
  /\ pc = "send" => [good |-> good, data |-> data] \in Results(msg)

\* The allocator's type invariant is a part of its theory's invariant.
LEMMA HeapTyped == (P!IInv => RM!TypeOK) /\ (P!IInv' => RM!TypeOK')
<1>1. RM!Slots = P!Slots
    BY DEF RM!Slots, P!Slots
<1>2. RM!FieldRange = P!FieldRange
    BY SMT DEF RM!FieldRange, P!FieldRange
<1>3. RM!Block = P!Block
    BY <1>2 DEF RM!Block, P!Block
<1> QED BY <1>1, <1>3 DEF P!IInv, RM!TypeOK, P!TypeOK

\* A task asks for a positive number of bytes.
LEMMA BufferSize ==
  ASSUME Asked, pc = "task", HasBuffer(msg)
  PROVE  msg.body.buf_len \in Sizes
<1>1. msg.body \in Messages /\ msg.body.pid = 0
    BY DEF Asked, InTask, Answerable
<1>2. msg.body.buf_len \in Nat /\ msg.body.buf_len > 0
    BY <1>1, MessagesAssumption, BlockAssumption DEF HasBuffer, Body
<1> QED BY <1>1, <1>2 DEF Sizes

\* Another life starts with a table of nothing.
LEMMA StartKeeps == ASSUME P!IInv, Start PROVE P!IInv'
<1>1. /\ ready' = FALSE /\ count' = 0 /\ ret' = 0
      /\ blocks' = [j \in P!Slots |-> [addr |-> 0, size |-> 0, free |-> FALSE]]
    BY DEF Start, P!IInv, P!TypeOK
<1>2. [addr |-> 0, size |-> 0, free |-> FALSE] \in P!Block
    BY HeapAssumptions, P!FieldRangeType DEF P!Block
<1>3. blocks' \in [P!Slots -> P!Block]
    BY <1>1, <1>2
<1>4. count' \in 0 .. REAL_MEM_BLOCKS
    BY <1>1, SMT, HeapAssumptions DEF P!TableAssumption
<1>5. P!TypeOK'
    BY <1>1, <1>3, <1>4 DEF P!TypeOK
<1> QED BY <1>1, <1>5 DEF P!IInv

\* Every step keeps the heap well-formed.
LEMMA HeapStep == P!IInv /\ Asked /\ [Next]_vars => P!IInv'
<1> SUFFICES ASSUME P!IInv, Asked, [Next]_vars PROVE P!IInv'
    OBVIOUS
<1>1. CASE UNCHANGED heap
    BY <1>1, HeapKept
<1>2. CASE Start
    BY <1>2, StartKeeps
<1>3. CASE MemInit
    BY <1>1, <1>3, ArenaStarts DEF MemInit
<1>4. ASSUME NEW size \in Sizes, RM!v86_mem_alloc(size) PROVE P!IInv'
    BY <1>4, AllocGives
<1>5. CASE InitStack \/ InitHalt
    BY <1>4, <1>5 DEF InitStack, InitHalt, Sizes
<1>6. CASE TaskAlloc
    BY <1>4, <1>6, BufferSize DEF TaskAlloc
<1>7. ASSUME NEW m, RM!v86_mem_free(m) PROVE P!IInv'
  <2>1. P!v86_mem_free(m)
      BY <1>7, SameOperations
  <2> QED BY <2>1, P!FreeRemoves, HeapAssumptions
<1>8. CASE TaskFinish
    BY <1>1, <1>7, <1>8 DEF TaskFinish
<1>9. CASE Leave
  <2>1. P!real_mem_deinit
      BY <1>9, SameOperations DEF Leave
  <2> QED BY <2>1, HeapKept DEF P!Next
<1> QED BY <1>1, <1>2, <1>3, <1>5, <1>6, <1>8, <1>9
        DEF Next, Environment, Progress, Failure, vars, Post, Bind, Fork, PollIn, Recv,
            RecvOverrun, TaskNoBuffer, BiosReturns, Send, PollFail, RecvFail, BiosCrashes,
            BiosHangs, heap

\* What a post leaves in the socket are messages.
LEMMA InboxPost ==
  ASSUME TypeOK, NEW body \in Messages, Post(body)
  PROVE  inbox' \in Seq(Message)
<1> DEFINE m == [id |-> posts + 1, body |-> body]
<1>1. m \in Message
    BY BoundsAssumption DEF TypeOK, Post, Message
<1>2. inbox' = Append(inbox, m) \/ inbox' = inbox
    BY DEF Post
<1> HIDE DEF m
<1> QED BY <1>1, <1>2 DEF TypeOK

\* Of a message received, the rest of the socket.
LEMMA InboxRecv ==
  ASSUME TypeOK, inbox # <<>>
  PROVE  /\ Head(inbox) \in Message
         /\ Tail(inbox) \in Seq(Message)
BY DEF TypeOK

\* Every step keeps the types; that the data sent back has one needs Honest.
LEMMA TypeStep == TypeOK /\ Honest /\ P!IInv' /\ [Next]_vars => TypeOK'
<1> SUFFICES ASSUME TypeOK, Honest, P!IInv', [Next]_vars PROVE TypeOK'
    OBVIOUS
<1>1. RM!TypeOK'
    BY HeapTyped
<1> DEFINE Rest == /\ pc' \in {"none", "socket", "fork", "mem_init", "stack", "halt", "poll",
                                "recv", "task", "int", "finish", "send", "out", "hung"}
                   /\ bound' \in BOOLEAN /\ overrun' \in BOOLEAN /\ need_exit' \in BOOLEAN
                   /\ inbox' \in Seq(Message)
                   /\ msg' \in Message
                   /\ data' \in {"request", "bios"} /\ low' \in {"stale", "request", "bios"}
                   /\ good' \in BOOLEAN
                   /\ stack' \in Nat /\ halt' \in Nat /\ lbuf' \in Nat
                   /\ posts' \in 0 .. MaxPosts /\ starts' \in 0 .. MaxStarts
                   /\ forked' \in BOOLEAN /\ told' \in BOOLEAN
<1>2. SUFFICES Rest
    BY <1>1 DEF TypeOK
<1>3. ret' \in Nat
    BY <1>1 DEF RM!TypeOK
<1>4. <<>> \in Seq(Message) /\ NoMessage \in Message
    BY BoundsAssumption DEF Message, NoMessage
<1> USE DEF task, places, kernel, history
<1>5. CASE UNCHANGED vars
    BY <1>5 DEF vars, TypeOK
<1>6. CASE Start
  <2>1. /\ pc' = "socket" /\ starts < MaxStarts /\ starts' = starts + 1
        /\ need_exit' = FALSE /\ msg' = NoMessage /\ data' = "request" /\ low' = "stale"
        /\ good' = FALSE /\ stack' = 0 /\ halt' = 0 /\ lbuf' = 0
        /\ forked' = FALSE /\ told' = FALSE
        /\ UNCHANGED <<bound, inbox, overrun, posts>>
      BY <1>6 DEF Start
  <2>2. posts' \in 0 .. MaxPosts /\ starts' \in 0 .. MaxStarts
      BY <2>1, BoundsAssumption DEF TypeOK
  <2>3. need_exit' \in BOOLEAN /\ good' \in BOOLEAN /\ forked' \in BOOLEAN /\ told' \in BOOLEAN
      BY <2>1, Zenon
  <2>4. bound' \in BOOLEAN /\ overrun' \in BOOLEAN
      BY <2>1 DEF TypeOK
  <2>5. inbox' \in Seq(Message)
      BY <2>1 DEF TypeOK
  <2>6. stack' \in Nat /\ halt' \in Nat /\ lbuf' \in Nat
      BY <2>1
  <2>7. msg' \in Message
      BY <1>4, <2>1, Zenon
  <2> QED BY <2>1, <2>2, <2>3, <2>4, <2>5, <2>6, <2>7
<1>7. ASSUME NEW body \in Messages, Post(body) PROVE Rest
  <2>1. inbox' \in Seq(Message)
      BY <1>7, InboxPost
  <2>2. posts < MaxPosts /\ posts' = posts + 1 /\ overrun' \in BOOLEAN
      BY <1>7 DEF Post, TypeOK
  <2>3. UNCHANGED <<pc, bound, need_exit, msg, data, low, good, stack, halt, lbuf, starts,
                    forked, told>>
      BY <1>7 DEF Post
  <2>4. posts' \in 0 .. MaxPosts
      BY <2>2, BoundsAssumption DEF TypeOK
  <2> QED BY <2>1, <2>2, <2>3, <2>4 DEF TypeOK
<1>8. CASE Bind
    BY <1>4, <1>8 DEF Bind, Gone, TypeOK
<1>9. CASE Fork
    BY <1>4, <1>9 DEF Fork, Gone, TypeOK
<1>10. CASE MemInit
    BY <1>4, <1>10 DEF MemInit, Gone, TypeOK
<1>11. CASE InitStack
    BY <1>3, <1>4, <1>11 DEF InitStack, Gone, TypeOK
<1>12. CASE InitHalt
    BY <1>3, <1>4, <1>12 DEF InitHalt, Gone, TypeOK
<1>13. CASE PollIn \/ PollFail \/ RecvOverrun \/ RecvFail
    BY <1>13 DEF PollIn, PollFail, RecvOverrun, RecvFail, TypeOK
<1>14. CASE Recv
    BY <1>14, InboxRecv DEF Recv, Again, TypeOK
<1>15. CASE TaskAlloc
    BY <1>3, <1>15 DEF TaskAlloc, TypeOK
<1>16. CASE TaskNoBuffer
    BY <1>16 DEF TaskNoBuffer, TypeOK
<1>17. CASE BiosReturns
    BY <1>17 DEF BiosReturns, TypeOK
<1>18. CASE BiosCrashes \/ Leave
    BY <1>4, <1>18 DEF BiosCrashes, Leave, Gone, TypeOK
<1>19. CASE BiosHangs
    BY <1>19 DEF BiosHangs, TypeOK
<1>20. CASE TaskFinish
  <2>1. data' \in {"request", "bios"}
      BY <1>20 DEF TaskFinish, CopyBack, Honest, TypeOK
  <2> QED BY <1>20, <2>1 DEF TaskFinish, TypeOK
<1>21. CASE Send
    BY <1>21 DEF Send, Again, TypeOK
<1> QED BY <1>5, <1>6, <1>7, <1>8, <1>9, <1>10, <1>11, <1>12, <1>13, <1>14, <1>15, <1>16,
           <1>17, <1>18, <1>19, <1>20, <1>21 DEF Next, Environment, Progress, Failure

\* A message becomes a task only when it is a request of the kernel.
LEMMA AskedStep == TypeOK /\ Asked /\ [Next]_vars => Asked'
<1> SUFFICES ASSUME TypeOK, Asked, [Next]_vars, pc' \in InTask
             PROVE  msg'.body \in Messages /\ Answerable(msg')
    BY DEF Asked, Answerable
<1>1. CASE Recv
  <2>1. FromKernel(msg') /\ msg'.body.type = "NLMSG_DONE" /\ ~ WantsExit(msg')
      BY <1>1 DEF Recv, Again, InTask
  <2>2. msg' \in Message
      BY <1>1, InboxRecv DEF Recv
  <2>3. msg'.body \in Messages
      BY <2>1, <2>2 DEF Message, NoBody
  <2> QED BY <2>1, <2>3 DEF Answerable, FromKernel, WantsExit
<1>2. CASE ~ Recv
  <2>1. pc \in InTask /\ msg' = msg
      BY <1>2 DEF Next, Environment, Progress, Failure, vars, task, places, kernel, history,
         InTask, Start, Post, Gone, Bind, Fork, MemInit, InitStack, InitHalt, PollIn,
         RecvOverrun, TaskAlloc, TaskNoBuffer, BiosReturns, TaskFinish, Send, Again, Leave,
         PollFail, RecvFail, BiosCrashes, BiosHangs
  <2> QED BY <2>1 DEF Asked
<1> QED BY <1>1, <1>2

\* A failed call leaves the request in the message, a successful one what the
\* request allows.
LEMMA HonestStep == TypeOK /\ Honest /\ [Next]_vars => Honest'
<1> SUFFICES ASSUME TypeOK, Honest, [Next]_vars PROVE Honest'
    OBVIOUS
<1> USE DEF task, places, kernel, history
<1>1. CASE TaskFinish
  <2>1. /\ pc' = "send" /\ good' = good /\ msg' = msg
        /\ data' = IF CopyBack(msg) THEN "bios" ELSE "request"
      BY <1>1 DEF TaskFinish, CopyBack, Honest
  <2>2. [good |-> good', data |-> data'] \in Results(msg)
    <3>1. CASE good
      <4>1. CopyBack(msg) <=> Returns(msg)
          BY <3>1 DEF CopyBack, Returns
      <4> QED BY <2>1, <3>1, <4>1 DEF Results, TypeOK
    <3>2. CASE ~ good
        BY <2>1, <3>2 DEF Results, CopyBack, TypeOK
    <3> QED BY <3>1, <3>2
  <2>3. Results(msg') = Results(msg)
      BY <2>1
  <2> QED BY <2>1, <2>2, <2>3 DEF Honest
<1>2. CASE BiosReturns
    BY <1>2 DEF BiosReturns, Honest, TypeOK
<1>3. CASE Recv \/ TaskAlloc \/ TaskNoBuffer
    BY <1>3 DEF Recv, Again, TaskAlloc, TaskNoBuffer, Honest
<1>4. CASE UNCHANGED <<pc, data, low, good, msg>>
    BY <1>4 DEF Honest, Results, Returns
<1>5. CASE pc' \notin {"task", "int", "finish", "send"}
    BY <1>5 DEF Honest
<1> QED BY <1>1, <1>2, <1>3, <1>4, <1>5 DEF Next, Environment, Progress, Failure, vars,
       Start, Post, Gone, Bind, Fork, MemInit, InitStack, InitHalt, PollIn,
       RecvOverrun, Send, Again, Leave, PollFail, RecvFail, BiosCrashes, BiosHangs

-----------------------------------------------------------------------------
\* The inductive invariant: the types need the heap's and Honest, the heap
\* needs Asked.
IInv == TypeOK /\ P!IInv /\ Asked /\ Honest

\* It holds at the start,
LEMMA IInvInit == Init => IInv
<1> SUFFICES ASSUME Init PROVE IInv
    OBVIOUS
<1>1. P!IInv
  <2>1. P!Init
      BY DEF Init, RM!Init, P!Init, RM!Slots, P!Slots
  <2> QED BY <2>1, P!IInvInit, HeapAssumptions
<1>2. Asked /\ Honest
    BY DEF Init, Asked, Honest, InTask
<1>3. <<>> \in Seq(Message) /\ NoMessage \in Message
    BY BoundsAssumption DEF Message, NoMessage
<1>4. TypeOK
  <2>1. RM!TypeOK
      BY <1>1, HeapTyped
  <2>2. posts \in 0 .. MaxPosts /\ starts \in 0 .. MaxStarts
      BY BoundsAssumption DEF Init
  <2>3. /\ bound \in BOOLEAN /\ overrun \in BOOLEAN /\ need_exit \in BOOLEAN
        /\ good \in BOOLEAN /\ forked \in BOOLEAN /\ told \in BOOLEAN
      BY Zenon DEF Init
  <2>4. inbox \in Seq(Message) /\ msg \in Message
      BY <1>3, Zenon DEF Init
  <2>5. stack \in Nat /\ halt \in Nat /\ lbuf \in Nat
      BY DEF Init
  <2>6. pc = "none" /\ data = "request" /\ low = "stale"
      BY DEF Init
  <2> QED BY <2>1, <2>2, <2>3, <2>4, <2>5, <2>6 DEF TypeOK
<1> QED BY <1>1, <1>2, <1>4 DEF IInv

\* is kept by every step,
LEMMA IInvStep == IInv /\ [Next]_vars => IInv'
BY HeapStep, TypeStep, AskedStep, HonestStep DEF IInv

\* and so always holds.
LEMMA Invariant == Spec => []IInv
BY IInvInit, IInvStep, PTL DEF Spec

\* The allocator's table is well-formed through all tasks and lives of the
\* daemon, whatever is posted and however calls of the BIOS end.
THEOREM TypeCorrect == Spec => []TypeOK
<1>1. IInv => TypeOK
    BY DEF IInv
<1> QED BY <1>1, Invariant, PTL

-----------------------------------------------------------------------------
(***************************************************************************)
(* Memory.  Between tasks the live chunks are the two of v86_init; during  *)
(* one there is the task's buffer as well, at an address of its own, so    *)
(* that freeing it takes it and nothing else.                              *)
(***************************************************************************)
StackChunk == [addr |-> stack, size |-> DEFAULT_STACK_SIZE]
HaltChunk == [addr |-> halt, size |-> HALT_SIZE]
Kept == {StackChunk, HaltChunk}
Lent(c) == RM!Live = Kept \cup {c} /\ c.addr = lbuf /\ lbuf # stack /\ lbuf # halt

Held ==
  /\ pc = "stack" => RM!Live = {}
  /\ pc = "halt" => RM!Live = {StackChunk}
  /\ pc \in {"poll", "recv", "task", "send"} => RM!Live = Kept
  /\ pc \in {"int", "finish"} =>
       IF HasBuffer(msg) THEN \E c \in RM!Live : Lent(c) ELSE RM!Live = Kept

\* Live memory depends on the table only.
LEMMA LiveSame == UNCHANGED heap => RM!Live' = RM!Live
BY DEF heap, RM!Live

\* The sizes of v86_init are whole paragraphs.
LEMMA InitSizes ==
  /\ DEFAULT_STACK_SIZE \in Sizes /\ RM!RoundUp(DEFAULT_STACK_SIZE) = DEFAULT_STACK_SIZE
  /\ HALT_SIZE \in Sizes /\ RM!RoundUp(HALT_SIZE) = HALT_SIZE
BY SMT DEF Sizes, RM!RoundUp, DEFAULT_STACK_SIZE, HALT_SIZE

\* v86_init takes its two chunks.
LEMMA HeldInit ==
  ASSUME IInv, Held, InitStack \/ InitHalt
  PROVE  Held'
<1> USE DEF task, places
<1>1. CASE InitStack /\ pc' = "halt"
  <2>1. /\ pc = "stack" /\ ret' # 0 /\ stack' = ret'
        /\ RM!v86_mem_alloc(DEFAULT_STACK_SIZE)
      BY <1>1 DEF InitStack, Gone
  <2>2. RM!Live' = RM!Live \cup {[addr |-> ret', size |-> DEFAULT_STACK_SIZE]}
      BY <2>1, AllocGives, InitSizes DEF IInv
  <2>3. RM!Live' = {StackChunk}'
      BY <2>1, <2>2 DEF Held, StackChunk
  <2> QED BY <1>1, <2>3 DEF Held
<1>2. CASE InitHalt /\ pc' = "poll"
  <2>1. /\ pc = "halt" /\ ret' # 0 /\ halt' = ret' /\ stack' = stack
        /\ RM!v86_mem_alloc(HALT_SIZE)
      BY <1>2 DEF InitHalt, Gone
  <2>2. RM!Live' = RM!Live \cup {[addr |-> ret', size |-> HALT_SIZE]}
      BY <2>1, AllocGives, InitSizes DEF IInv
  <2>3. RM!Live' = Kept'
      BY <2>1, <2>2 DEF Held, StackChunk, HaltChunk, Kept
  <2> QED BY <1>2, <2>3 DEF Held
<1>3. CASE pc' = "none"
    BY <1>3 DEF Held
<1> QED BY <1>1, <1>2, <1>3 DEF InitStack, InitHalt, Gone

\* v86_task takes a buffer apart from them,
LEMMA HeldAlloc ==
  ASSUME IInv, Held, TaskAlloc
  PROVE  Held'
<1>1. CASE ret' # 0
  <2> DEFINE c == [addr |-> ret', size |-> RM!RoundUp(msg.body.buf_len)]
  <2>1. /\ pc = "task" /\ HasBuffer(msg) /\ RM!v86_mem_alloc(msg.body.buf_len)
        /\ pc' = "int" /\ lbuf' = ret' /\ stack' = stack /\ halt' = halt /\ msg' = msg
      BY <1>1 DEF TaskAlloc
  <2>2. msg.body.buf_len \in Sizes
      BY <2>1, BufferSize DEF IInv
  <2>3. RM!Live = Kept
      BY <2>1 DEF Held
  <2>4. /\ RM!Live' = Kept \cup {c}
        /\ \A d \in Kept : d.addr # ret'
      BY <1>1, <2>1, <2>2, <2>3, AllocGives DEF IInv
  <2>5. stack # ret' /\ halt # ret'
      BY <2>4 DEF Kept, StackChunk, HaltChunk
  <2>6. c.addr = ret' /\ c \in RM!Live'
      BY <2>4
  <2>7. Kept' = Kept
      BY <2>1 DEF Kept, StackChunk, HaltChunk
  <2>8. HasBuffer(msg')
      BY <2>1
  <2>9. \E b \in RM!Live' : RM!Live' = Kept' \cup {b} /\ b.addr = lbuf' /\ lbuf' # stack' /\ lbuf' # halt'
    <3> HIDE DEF c
    <3>1. RM!Live' = Kept' \cup {c} /\ c.addr = lbuf' /\ lbuf' # stack' /\ lbuf' # halt'
        BY <2>1, <2>4, <2>5, <2>6, <2>7
    <3> QED BY <2>6, <3>1
  <2>10. (\E b \in RM!Live : Lent(b))'
      BY <2>9 DEF Lent
  <2> QED BY <2>1, <2>8, <2>10 DEF Held
<1>2. CASE ret' = 0
    BY <1>2 DEF TaskAlloc, Held
<1> QED BY <1>1, <1>2

\* and gives back that buffer and no other.
LEMMA HeldFree ==
  ASSUME IInv, Held, TaskFinish
  PROVE  Held'
<1>1. /\ pc = "finish" /\ pc' = "send" /\ stack' = stack /\ halt' = halt
    BY DEF TaskFinish, places
<1>2. Kept' = Kept
    BY <1>1 DEF Kept, StackChunk, HaltChunk
<1>3. CASE HasBuffer(msg)
  <2>1. PICK c \in RM!Live : Lent(c)
      BY <1>1, <1>3 DEF Held
  <2>2. RM!v86_mem_free(c.addr)
      BY <1>3, <2>1 DEF TaskFinish, Frees, Lent
  <2>3. RM!Live' = {d \in RM!Live : d.addr # c.addr}
      BY <2>2, FreeGives DEF IInv
  <2>4. RM!Live' = Kept
      BY <2>1, <2>3 DEF Lent, Kept, StackChunk, HaltChunk
  <2> QED BY <1>1, <1>2, <2>4 DEF Held
<1>4. CASE ~ HasBuffer(msg)
  <2>1. RM!Live' = RM!Live
      BY <1>4, LiveSame DEF TaskFinish, Frees
  <2> QED BY <1>1, <1>2, <1>4, <2>1 DEF Held
<1> QED BY <1>3, <1>4

\* Every other step leaves memory as it is, or is none of a daemon at work.
LEMMA HeldStep == IInv /\ Held /\ [Next]_vars => Held'
<1> SUFFICES ASSUME IInv, Held, [Next]_vars PROVE Held'
    OBVIOUS
<1> USE DEF task, places, kernel, history
<1>1. CASE InitStack \/ InitHalt
    BY <1>1, HeldInit
<1>2. CASE TaskAlloc
    BY <1>2, HeldAlloc
<1>3. CASE TaskFinish
    BY <1>3, HeldFree
<1>4. CASE MemInit
    BY <1>4, ArenaStarts DEF MemInit, Gone, Held, IInv
<1>5. CASE pc' \notin {"stack", "halt", "poll", "recv", "task", "send", "int", "finish"}
    BY <1>5 DEF Held
<1>6. ASSUME UNCHANGED <<heap, stack, halt>>
      PROVE  RM!Live' = RM!Live /\ Kept' = Kept /\ StackChunk' = StackChunk
    BY <1>6, LiveSame DEF Kept, StackChunk, HaltChunk
<1>7. CASE PollIn \/ PollFail \/ Recv \/ Send
    BY <1>6, <1>7 DEF PollIn, PollFail, Recv, Send, Again, Held
<1>8. CASE TaskNoBuffer
    BY <1>6, <1>8 DEF TaskNoBuffer, Held
<1>9. CASE UNCHANGED <<pc, msg, places, heap>>
    BY <1>6, <1>9 DEF Held, Lent
<1>10. CASE BiosReturns
  <2>1. pc = "int" /\ pc' = "finish" /\ UNCHANGED <<msg, places, heap>>
      BY <1>10 DEF BiosReturns
  <2> QED BY <1>6, <2>1 DEF Held, Lent
<1> QED BY <1>1, <1>2, <1>3, <1>4, <1>5, <1>7, <1>8, <1>9, <1>10 DEF Next, Environment,
       Progress, Failure, vars, Start, Post, Gone, Bind, Fork, RecvOverrun, Leave, RecvFail,
       BiosCrashes, BiosHangs

\* Whatever the tasks were and however their calls ended, between two of them
\* only the stack and the halt stub are allocated: no history of the daemon, of
\* any length, leaks memory.
THEOREM HeapAtRestHolds == Spec => []HeapAtRest
<1>1. Init => Held
    BY DEF Init, Held
<1>2. Held => HeapAtRest
    BY DEF Held, HeapAtRest, Kept, StackChunk, HaltChunk
<1> QED BY <1>1, <1>2, HeldStep, Invariant, PTL DEF Spec

-----------------------------------------------------------------------------
(***************************************************************************)
(* Room.  The chunks of v86_init are the first blocks of the table, so     *)
(* that between tasks all other memory is one free block, and a task needs *)
(* only an entry of the table and that much memory, whatever ran before.   *)
(***************************************************************************)
Placed ==
  /\ pc \in {"stack", "halt", "poll", "recv", "task", "int", "finish", "send"} => ready
  /\ pc \in {"halt", "poll", "recv", "task", "int", "finish", "send"} =>
       stack = REAL_MEM_BASE
  /\ pc \in {"poll", "recv", "task", "int", "finish", "send"} =>
       halt = REAL_MEM_BASE + DEFAULT_STACK_SIZE

\* The stack is cut from an empty arena,
LEMMA StackPlaced ==
  ASSUME IInv, ready, RM!Live = {}, RM!v86_mem_alloc(DEFAULT_STACK_SIZE), ret' # 0
  PROVE  ret' = REAL_MEM_BASE
<1>1. P!IInv /\ P!Live = {} /\ P!v86_mem_alloc(DEFAULT_STACK_SIZE)
    BY SameLive, SameOperations DEF IInv
<1>2. 0 \in 0 .. count - 1 /\ blocks[0].addr = REAL_MEM_BASE
    BY <1>1, P!FirstBlock, HeapAssumptions
<1>3. count = 0 + 1 /\ blocks[0].free
    BY <1>1, <1>2, P!RestIsBlock, HeapAssumptions
<1>4. DEFAULT_STACK_SIZE \in Nat \ {0} /\ \A j \in 0 .. 0 - 1 : ~ blocks[j].free
    BY DEF DEFAULT_STACK_SIZE
<1> QED BY <1>1, <1>2, <1>3, <1>4, P!AllocFromRest, HeapAssumptions

\* the halt stub from what is left.
LEMMA HaltPlaced ==
  ASSUME IInv, ready, stack = REAL_MEM_BASE, RM!Live = {StackChunk},
         RM!v86_mem_alloc(HALT_SIZE), ret' # 0
  PROVE  ret' = REAL_MEM_BASE + DEFAULT_STACK_SIZE
<1>1. P!IInv /\ P!Live = {StackChunk} /\ P!v86_mem_alloc(HALT_SIZE)
    BY SameLive, SameOperations DEF IInv
<1>2. 0 \in 0 .. count - 1 /\ blocks[0].addr = REAL_MEM_BASE
    BY <1>1, P!FirstBlock, HeapAssumptions
<1>3. StackChunk \in P!Live /\ StackChunk.addr = REAL_MEM_BASE
      /\ StackChunk.size = DEFAULT_STACK_SIZE
    BY <1>1 DEF StackChunk
<1>4. /\ ~ blocks[0].free /\ 0 + 1 \in 0 .. count - 1
      /\ blocks[0 + 1].addr = REAL_MEM_BASE + DEFAULT_STACK_SIZE
    BY <1>1, <1>2, <1>3, P!ChunkIsBlock, HeapAssumptions
<1>5. \A c \in P!Live : c.addr < blocks[1].addr
    BY <1>1, <1>3, <1>4, MemoryAssumption DEF DEFAULT_STACK_SIZE
<1>6. 1 \in 0 .. count - 1 /\ count = 1 + 1 /\ blocks[1].free
    BY <1>1, <1>4, <1>5, P!RestIsBlock, HeapAssumptions
<1>7. HALT_SIZE \in Nat \ {0} /\ \A j \in 0 .. 1 - 1 : ~ blocks[j].free
    BY <1>4 DEF HALT_SIZE
<1>8. ret' = blocks[1].addr
    BY <1>1, <1>6, <1>7, P!AllocFromRest, HeapAssumptions
<1> QED BY <1>4, <1>8

\* Between tasks a chunk that fits in the rest of the arena is always given.
LEMMA BufferGiven ==
  ASSUME IInv, ready, stack = REAL_MEM_BASE, halt = REAL_MEM_BASE + DEFAULT_STACK_SIZE,
         RM!Live = Kept, NEW size \in Nat \ {0}, RM!v86_mem_alloc(size),
         DEFAULT_STACK_SIZE + HALT_SIZE + size + 16 <= REAL_MEM_SIZE
  PROVE  ret' # 0
<1>1. P!IInv /\ P!Live = Kept /\ P!v86_mem_alloc(size)
    BY SameLive, SameOperations DEF IInv
<1>2. 0 \in 0 .. count - 1 /\ blocks[0].addr = REAL_MEM_BASE
    BY <1>1, P!FirstBlock, HeapAssumptions
<1>3. /\ StackChunk \in P!Live /\ StackChunk.addr = REAL_MEM_BASE
      /\ StackChunk.size = DEFAULT_STACK_SIZE
      /\ HaltChunk \in P!Live /\ HaltChunk.addr = REAL_MEM_BASE + DEFAULT_STACK_SIZE
      /\ HaltChunk.size = HALT_SIZE
    BY <1>1 DEF Kept, StackChunk, HaltChunk
<1>4. /\ ~ blocks[0].free /\ 0 + 1 \in 0 .. count - 1
      /\ blocks[0 + 1].addr = REAL_MEM_BASE + DEFAULT_STACK_SIZE
    BY <1>1, <1>2, <1>3, P!ChunkIsBlock, HeapAssumptions
<1>5. 1 \in 0 .. count - 1 /\ HaltChunk.addr = blocks[1].addr
    BY <1>3, <1>4
<1>6. /\ ~ blocks[1].free /\ 1 + 1 \in 0 .. count - 1
      /\ blocks[1 + 1].addr = REAL_MEM_BASE + DEFAULT_STACK_SIZE + HALT_SIZE
    BY <1>1, <1>3, <1>5, P!ChunkIsBlock, HeapAssumptions
<1>7. \A c \in P!Live : c.addr < blocks[2].addr
  <2>1. \A c \in P!Live : c.addr = REAL_MEM_BASE \/ c.addr = REAL_MEM_BASE + DEFAULT_STACK_SIZE
      BY <1>1, <1>3 DEF Kept
  <2> QED BY <1>6, <2>1, MemoryAssumption DEF DEFAULT_STACK_SIZE, HALT_SIZE
<1>8. 2 \in 0 .. count - 1
    BY <1>6
<1>9. /\ count = 2 + 1 /\ blocks[2].free /\ blocks[2].size \in Nat
      /\ blocks[2].addr + blocks[2].size = REAL_MEM_BASE + REAL_MEM_SIZE
    BY <1>1, <1>7, <1>8, P!RestIsBlock, HeapAssumptions
<1>10. P!RoundUp(size) < blocks[2].size
  <2>1. 16 * ((size + 15) \div 16) < size + 16
      OBVIOUS
  <2> QED BY <1>6, <1>9, <2>1, MemoryAssumption DEF P!RoundUp, DEFAULT_STACK_SIZE, HALT_SIZE
<1>11. \A j \in 0 .. 2 - 1 : ~ blocks[j].free
    BY <1>4, <1>6
<1> QED BY <1>1, <1>8, <1>9, <1>10, <1>11, P!AllocFromRest, HeapAssumptions, RoomAssumption

\* The places of the stack and the halt stub are the same in every life of the
\* daemon and never change.
LEMMA PlacedStep == IInv /\ Held /\ Placed /\ [Next]_vars => Placed'
<1> SUFFICES ASSUME IInv, Held, Placed, [Next]_vars PROVE Placed'
    OBVIOUS
<1> USE DEF task, places, kernel, history
<1>1. CASE InitStack /\ pc' = "halt"
  <2>1. /\ pc = "stack" /\ ret' # 0 /\ stack' = ret'
        /\ RM!v86_mem_alloc(DEFAULT_STACK_SIZE)
      BY <1>1 DEF InitStack, Gone
  <2>2. ready /\ RM!Live = {}
      BY <2>1 DEF Placed, Held
  <2>3. ready' = ready /\ stack' = REAL_MEM_BASE
      BY <2>1, <2>2, StackPlaced, AllocGives, InitSizes DEF IInv
  <2> QED BY <1>1, <2>2, <2>3 DEF Placed
<1>2. CASE InitHalt /\ pc' = "poll"
  <2>1. /\ pc = "halt" /\ ret' # 0 /\ halt' = ret' /\ stack' = stack
        /\ RM!v86_mem_alloc(HALT_SIZE)
      BY <1>2 DEF InitHalt, Gone
  <2>2. ready /\ stack = REAL_MEM_BASE /\ RM!Live = {StackChunk}
      BY <2>1 DEF Placed, Held
  <2>3. ready' = ready
      BY <2>1, AllocGives, InitSizes DEF IInv
  <2>4. halt' = REAL_MEM_BASE + DEFAULT_STACK_SIZE
      BY <2>1, <2>2, HaltPlaced
  <2> QED BY <1>2, <2>1, <2>2, <2>3, <2>4 DEF Placed
<1>3. CASE TaskAlloc
  <2>1. /\ pc = "task" /\ HasBuffer(msg) /\ RM!v86_mem_alloc(msg.body.buf_len)
        /\ stack' = stack /\ halt' = halt
      BY <1>3 DEF TaskAlloc
  <2>2. ready' = ready
      BY <2>1, BufferSize, AllocGives DEF IInv
  <2> QED BY <2>1, <2>2 DEF Placed
<1>4. CASE TaskFinish
  <2>1. pc = "finish" /\ pc' = "send" /\ stack' = stack /\ halt' = halt
      BY <1>4 DEF TaskFinish
  <2>2. ready' = ready
    <3>1. CASE UNCHANGED heap
        BY <3>1 DEF heap
    <3>2. CASE RM!v86_mem_free(lbuf)
        BY <3>2, SameOperations, P!FreeRemoves, HeapAssumptions DEF IInv
    <3> QED BY <1>4, <3>1, <3>2 DEF TaskFinish
  <2> QED BY <2>1, <2>2 DEF Placed
<1>5. CASE MemInit
    BY <1>5, ArenaStarts DEF MemInit, Gone, Placed, IInv
<1>6. CASE pc' \notin {"stack", "halt", "poll", "recv", "task", "int", "finish", "send"}
    BY <1>6 DEF Placed
<1>7. CASE /\ UNCHANGED <<heap, stack, halt>>
           /\ \/ pc' = pc
              \/ pc \in {"poll", "recv", "task", "int", "finish", "send"}
    BY <1>7 DEF heap, Placed
<1>8. CASE PollIn \/ PollFail \/ Recv \/ Send \/ TaskNoBuffer \/ BiosReturns
    BY <1>7, <1>8 DEF PollIn, PollFail, Recv, Send, TaskNoBuffer, BiosReturns
<1> QED BY <1>1, <1>2, <1>3, <1>4, <1>5, <1>6, <1>7, <1>8 DEF Next, Environment,
       Progress, Failure, vars, Start, Post, Gone, Bind, Fork, InitStack, InitHalt,
       RecvOverrun, Leave, RecvFail, BiosCrashes, BiosHangs

\* A task that needs a buffer gets one.
LEMMA GetsBuffer ==
  ASSUME IInv, Held, Placed, TaskAlloc
  PROVE  pc' = "int"
<1>1. /\ pc = "task" /\ HasBuffer(msg) /\ RM!v86_mem_alloc(msg.body.buf_len)
      /\ (ret' # 0 => pc' = "int")
    BY DEF TaskAlloc
<1>2. msg.body \in Messages /\ msg.body.pid = 0
    BY <1>1 DEF IInv, Asked, InTask, Answerable
<1>3. msg.body.buf_len \in Nat \ {0}
    BY <1>1, BufferSize, SizesPositive DEF IInv
<1>4. /\ ready /\ stack = REAL_MEM_BASE /\ halt = REAL_MEM_BASE + DEFAULT_STACK_SIZE
      /\ RM!Live = Kept
    BY <1>1 DEF Placed, Held
<1>5. DEFAULT_STACK_SIZE + HALT_SIZE + msg.body.buf_len + 16 <= REAL_MEM_SIZE
    BY <1>2, RoomAssumption
<1> QED BY <1>1, <1>3, <1>4, <1>5, BufferGiven

\* However long the daemon has run, whatever its tasks were and however their
\* calls ended, the next task finds the memory it needs: v86_task does not fail
\* for want of it, and req_exec does not end the daemon.
THEOREM TaskGetsBufferHolds == Spec => TaskGetsBuffer
<1>1. Init => Held /\ Placed
    BY DEF Init, Held, Placed
<1>2. IInv /\ Held /\ Placed /\ [Next]_vars => [TaskAlloc => pc' = "int"]_vars
    BY GetsBuffer
<1> QED BY <1>1, <1>2, HeldStep, PlacedStep, Invariant, PTL DEF Spec, TaskGetsBuffer

-----------------------------------------------------------------------------
(***************************************************************************)
(* The start.  The socket is bound before the parent exits, and is bound   *)
(* until the process is gone.                                              *)
(***************************************************************************)
Bound ==
  /\ pc \notin {"none", "socket"} => bound
  /\ forked /\ pc # "none" => pc \notin {"socket", "fork"}

\* No step of the daemon gives the socket up, and none but Fork ends the parent.
LEMMA BoundStep == Bound /\ [Next]_vars => Bound'
<1> SUFFICES ASSUME Bound, [Next]_vars PROVE Bound'
    OBVIOUS
<1> USE DEF Bound, task, places, kernel, history
<1>1. CASE Gone
    BY <1>1 DEF Gone
<1>2. CASE Start
    BY <1>2 DEF Start
<1>3. CASE Bind \/ Fork
    BY <1>3 DEF Bind, Fork, ForkAt, Gone
<1>4. ASSUME UNCHANGED <<bound, forked>>, pc \notin {"none", "socket", "fork"},
             pc' \notin {"socket", "fork"}
      PROVE  Bound'
    BY <1>4
<1>5. CASE UNCHANGED <<pc, bound, forked>>
    BY <1>5
<1> QED BY <1>1, <1>2, <1>3, <1>4, <1>5 DEF Next, Environment, Progress, Failure, vars,
       Post, MemInit, InitStack, InitHalt, PollIn, Recv, Again, RecvOverrun, TaskAlloc,
       TaskNoBuffer, BiosReturns, TaskFinish, Send, Leave, PollFail, RecvFail, BiosCrashes,
       BiosHangs

\* When the parent has told the kernel that the daemon runs, the socket is
\* bound for as long as the daemon lives, in every one of its lives.
THEOREM ListensWhenForkedHolds == Spec => []ListensWhenForked
<1>1. Init => Bound
    BY Zenon DEF Init, Bound
<1>2. Bound => ListensWhenForked
    BY DEF Bound, ListensWhenForked
<1> QED BY <1>1, <1>2, BoundStep, PTL DEF Spec

-----------------------------------------------------------------------------
(***************************************************************************)
(* The service.  What waits is the message of the task, if there is one,   *)
(* before what is in the socket, as long as the service is open.           *)
(***************************************************************************)

\* Without a process or a socket nothing waits, and a daemon does not poll once
\* it has to leave.
Idle ==
  /\ pc \in {"none", "socket"} => ~ bound /\ ~ overrun /\ inbox = <<>>
  /\ pc \in {"socket", "fork", "mem_init", "stack", "halt", "poll"} => ~ need_exit

LEMMA IdleStep == Idle /\ [Next]_vars => Idle'
<1> SUFFICES ASSUME Idle, [Next]_vars PROVE Idle'
    OBVIOUS
<1> USE DEF Idle, task, places, kernel, history
<1>1. CASE Gone
    BY <1>1 DEF Gone
<1>2. CASE Start \/ Bind \/ Fork
    BY <1>2 DEF Start, Bind, Fork, ForkAt, Gone
<1>3. CASE MemInit \/ InitStack \/ InitHalt
    BY <1>3 DEF MemInit, InitStack, InitHalt, Gone
<1>4. CASE PollIn \/ PollFail \/ Recv \/ Send
    BY <1>4 DEF PollIn, PollFail, Recv, Send, Again
<1>5. CASE UNCHANGED <<pc, bound, need_exit>> /\ bound
    BY <1>5
<1>6. CASE pc' \in InTask \cup {"out"}
    BY <1>6 DEF InTask
<1>7. CASE UNCHANGED vars
    BY <1>7 DEF vars
<1> QED BY <1>1, <1>2, <1>3, <1>4, <1>5, <1>6, <1>7 DEF Next, Environment, Progress, Failure,
       Post, RecvOverrun, RecvFail, TaskAlloc, TaskNoBuffer, BiosReturns, TaskFinish, Leave,
       BiosCrashes, BiosHangs, InTask

\* A message before others.
LEMMA OneBefore ==
  ASSUME NEW m \in Message, NEW q \in Seq(Message)
  PROVE  /\ <<m>> \o q # <<>> /\ Head(<<m>> \o q) = m /\ Tail(<<m>> \o q) = q
         /\ <<m>> \o <<>> = <<m>>
         /\ \A r \in Message : Append(<<m>> \o q, r) = <<m>> \o Append(q, r)
OBVIOUS

\* What waits first is the message of the task.
LEMMA InHand ==
  ASSUME TypeOK, pc \in InTask
  PROVE  /\ Waiting # <<>> /\ Head(Waiting) = msg /\ Tail(Waiting) = Queue
         /\ ~ Open => Waiting = <<msg>>
<1>1. Queue \in Seq(Message) /\ msg \in Message
    BY DEF Queue, TypeOK
<1>2. Waiting = <<msg>> \o Queue
    BY DEF Waiting
<1>3. ~ Open => Queue = <<>>
    BY DEF Queue
<1> QED BY <1>1, <1>2, <1>3, OneBefore

\* The service is open or not.
LEMMA OpenType == Open \in BOOLEAN /\ Open' \in BOOLEAN
BY DEF Open

\* To close with nothing left waiting is a step of the service, or none.
LEMMA GivesUp ==
  ASSUME ~ Open', pc' \notin InTask, UNCHANGED answers
  PROVE  [S!Next]_(S!vars)
<1>1. Waiting' = <<>> /\ Open' = FALSE
    BY OpenType DEF Waiting, Queue
<1>2. CASE Open
    BY <1>1, <1>2 DEF S!Next, S!Close
<1>3. CASE ~ Open /\ Waiting # <<>>
    BY <1>1, <1>3, OpenType DEF S!Next, S!Drop
<1>4. CASE ~ Open /\ Waiting = <<>>
    BY <1>1, <1>4, OpenType DEF S!vars
<1> QED BY <1>2, <1>3, <1>4

\* A posted message waits last.  If it is dropped, the service closes, and the
\* task goes on.
LEMMA PostServes ==
  ASSUME TypeOK, Asked, NEW body \in Messages, Post(body)
  PROVE  [S!Next]_(S!vars)
<1> DEFINE r == [id |-> posts + 1, body |-> body]
<1>1. /\ r \in [id : 1 .. MaxPosts, body : Messages]
      /\ r \in Message
    BY BoundsAssumption DEF TypeOK, Post, Message
<1>2. /\ UNCHANGED <<pc, bound, need_exit, msg, answers>>
      /\ \/ inbox' = Append(inbox, r) /\ overrun' = overrun
         \/ inbox' = inbox /\ overrun' = TRUE
    BY DEF Post, history
<1> HIDE DEF r
<1>3. CASE inbox' = Append(inbox, r) /\ overrun' = overrun
  <2>1. Open' = Open
      BY <1>2, <1>3 DEF Open
  <2>2. CASE Open
    <3>1. Queue = inbox /\ Queue' = Append(inbox, r)
        BY <1>3, <2>1, <2>2 DEF Queue
    <3>2. Waiting' = Append(Waiting, r)
      <4>1. CASE pc \in InTask
        <5>1. Waiting = <<msg>> \o inbox /\ Waiting' = <<msg>> \o Append(inbox, r)
            BY <1>2, <3>1, <4>1 DEF Waiting
        <5> QED BY <1>1, <5>1, OneBefore DEF TypeOK
      <4>2. CASE pc \notin InTask
          BY <1>2, <3>1, <4>2 DEF Waiting
      <4> QED BY <4>1, <4>2
    <3> QED BY <1>1, <1>2, <2>1, <2>2, <3>2 DEF S!Next, S!Post
  <2>3. CASE ~ Open
      BY <1>2, <2>1, <2>3 DEF Waiting, Queue, S!vars
  <2> QED BY <2>2, <2>3
<1>4. CASE inbox' = inbox /\ overrun' = TRUE
  <2>1. Open' = FALSE
      BY <1>4 DEF Open
  <2>2. CASE pc \notin InTask
      BY <1>2, <2>1, <2>2, GivesUp
  <2>3. CASE pc \in InTask
    <3>1. Waiting' = <<msg>>
      <4>1. Waiting' = <<msg>> \o <<>>
          BY <1>2, <2>1, <2>3 DEF Waiting, Queue
      <4> QED BY <4>1, OneBefore DEF TypeOK
    <3>2. /\ Waiting # <<>> /\ Head(Waiting) = msg /\ Answerable(msg)
          /\ ~ Open => Waiting = <<msg>>
        BY <2>3, InHand DEF Asked
    <3>3. CASE Open
        BY <1>2, <2>1, <3>1, <3>2, <3>3 DEF S!Next, S!Close
    <3>4. CASE ~ Open
        BY <1>2, <2>1, <3>1, <3>2, <3>4, OpenType DEF S!vars
    <3> QED BY <3>3, <3>4
  <2> QED BY <2>2, <2>3
<1> QED BY <1>2, <1>3, <1>4

\* A received message becomes the task's, is passed over, or ends the service;
\* after a failure of poll the service ends with the message.
LEMMA RecvServes ==
  ASSUME TypeOK, Asked', Bound, Recv
  PROVE  [S!Next]_(S!vars)
<1>1. /\ pc = "recv" /\ inbox # <<>> /\ msg' = Head(inbox) /\ inbox' = Tail(inbox)
      /\ UNCHANGED <<bound, overrun, need_exit, answers>>
      /\ ~ overrun /\ bound
    BY DEF Recv, Bound
<1>2. Open /\ Waiting = inbox
    BY <1>1 DEF Open, Waiting, Queue, InTask
<1>3. Head(inbox) \in Message /\ Tail(inbox) \in Seq(Message)
      /\ <<Head(inbox)>> \o Tail(inbox) = inbox
    BY <1>1 DEF TypeOK
<1>4. CASE pc' = "task"
  <2>1. pc' \in InTask /\ Open' = ~ need_exit
      BY <1>1, <1>4 DEF Open, InTask
  <2>2. CASE ~ need_exit
    <3>1. Waiting' = <<Head(inbox)>> \o Tail(inbox)
        BY <1>1, <2>1, <2>2 DEF Waiting, Queue
    <3> QED BY <1>1, <1>2, <1>3, <2>1, <2>2, <3>1, OpenType DEF S!vars
  <2>3. CASE need_exit
    <3>1. Waiting' = <<Head(inbox)>> \o <<>>
        BY <1>1, <2>1, <2>3 DEF Waiting, Queue
    <3>2. Waiting' = <<Head(Waiting)>>
        BY <1>2, <1>3, <3>1, OneBefore
    <3>3. Answerable(Head(Waiting))
        BY <1>1, <1>2, <2>1 DEF Asked
    <3>4. Open' = FALSE
        BY <2>1, <2>3, OpenType
    <3> QED BY <1>1, <1>2, <3>2, <3>3, <3>4 DEF S!Next, S!Close
  <2> QED BY <2>2, <2>3
<1>5. CASE pc' = "out"
  <2>1. ~ Open' /\ pc' \notin InTask
      BY <1>5 DEF Open, InTask
  <2> QED BY <1>1, <2>1, GivesUp
<1>6. CASE pc' = "poll"
  <2>1. ~ need_exit /\ Ignored(Head(inbox))
      BY <1>1, <1>6 DEF Recv, Again, FromKernel, Ignored
  <2>2. Open' /\ Waiting' = Tail(inbox)
      BY <1>1, <1>6, <2>1 DEF Open, Waiting, Queue, InTask
  <2>3. Open' = Open
      BY <1>2, <2>2, OpenType
  <2> QED BY <1>1, <1>2, <2>1, <2>2, <2>3 DEF S!Next, S!PassOver
<1> QED BY <1>4, <1>5, <1>6 DEF Recv, Again

\* The reply answers the request, whether it can be sent or not.
LEMMA SendServes ==
  ASSUME IInv, Send
  PROVE  [S!Next]_(S!vars)
<1> DEFINE result == [good |-> good, data |-> data]
<1>1. /\ pc = "send" /\ pc' = (IF need_exit THEN "out" ELSE "poll")
      /\ UNCHANGED <<bound, overrun, need_exit, inbox>>
    BY DEF Send, Again
<1>2. PICK sent \in BOOLEAN :
        answers' = Append(answers, [request |-> msg, sent |-> sent, result |-> result])
    BY DEF Send
<1>3. Answerable(msg) /\ result \in Results(msg)
    BY <1>1 DEF IInv, Asked, Honest, InTask
<1>4. Open' = Open
    BY <1>1 DEF Open
<1>5. Waiting' = Queue
    BY <1>1, <1>4 DEF Waiting, Queue, InTask
<1>6. Waiting # <<>> /\ Head(Waiting) = msg /\ Waiting' = Tail(Waiting)
    BY <1>1, <1>5, InHand DEF IInv, InTask
<1> HIDE DEF result
<1>7. S!Answer(result, sent)
    BY <1>2, <1>3, <1>4, <1>6 DEF S!Answer
<1> QED BY <1>3, <1>6, <1>7 DEF S!Next

\* Every step is a step of the service or none.
LEMMA ServiceStep == IInv /\ IInv' /\ Bound /\ Idle /\ [Next]_vars => [S!Next]_(S!vars)
<1> SUFFICES ASSUME IInv, IInv', Bound, Idle, [Next]_vars PROVE [S!Next]_(S!vars)
    OBVIOUS
<1>0. TypeOK /\ Asked /\ Asked'
    BY DEF IInv
<1> USE DEF task, places, kernel, history
<1>1. CASE Gone /\ UNCHANGED answers
  <2>1. ~ Open' /\ pc' \notin InTask
      BY <1>1 DEF Gone, Open, InTask
  <2> QED BY <1>1, <2>1, GivesUp
<1>2. CASE pc' = "out" /\ UNCHANGED answers
  <2>1. ~ Open' /\ pc' \notin InTask
      BY <1>2 DEF Open, InTask
  <2> QED BY <1>2, <2>1, GivesUp
<1>3. CASE UNCHANGED <<inbox, msg, answers>> /\ (pc \in InTask <=> pc' \in InTask) /\ Open' = Open
    BY <1>3 DEF Waiting, Queue, S!vars
<1>4. CASE Start
  <2>1. ~ Open' /\ pc' \notin InTask /\ UNCHANGED answers
      BY <1>4 DEF Start, Idle, Open, InTask
  <2> QED BY <2>1, GivesUp
<1>5. CASE Bind /\ pc' = "fork"
  <2>1. /\ pc = "socket" /\ bound' = TRUE /\ UNCHANGED <<inbox, overrun, need_exit, answers>>
        /\ ~ bound /\ ~ overrun /\ ~ need_exit /\ inbox = <<>>
      BY <1>5 DEF Bind, Gone, Idle
  <2>2. ~ Open /\ Open' = TRUE /\ Waiting = <<>> /\ Waiting' = <<>>
      BY <1>5, <2>1 DEF Open, Waiting, Queue, InTask
  <2> QED BY <2>1, <2>2 DEF S!Next, S!Open
<1>6. CASE \E body \in Messages : Post(body)
    BY <1>0, <1>6, PostServes
<1>7. CASE Recv
    BY <1>0, <1>7, RecvServes
<1>8. CASE Send
    BY <1>8, SendServes
\* On the way to the loop and through a task, the service stays as it is,
<1>9. ASSUME UNCHANGED <<bound, overrun, need_exit, inbox, msg, answers>>,
             pc \in InTask <=> pc' \in InTask,
             pc \notin {"recv", "out"}, pc' \notin {"recv", "out"}
      PROVE  [S!Next]_(S!vars)
  <2>1. Open' = Open
      BY <1>9 DEF Open
  <2> QED BY <1>3, <1>9, <2>1
<1>10. CASE Fork \/ MemInit \/ InitStack \/ InitHalt
    BY <1>1, <1>9, <1>10 DEF Fork, ForkAt, MemInit, InitStack, InitHalt, Gone, InTask
<1>11. CASE TaskNoBuffer \/ BiosReturns \/ BiosHangs \/ TaskFinish
    BY <1>9, <1>11 DEF TaskNoBuffer, BiosReturns, BiosHangs, TaskFinish, InTask
<1>12. CASE TaskAlloc
    BY <1>2, <1>9, <1>12 DEF TaskAlloc, InTask
\* and so it does when poll returns, in whatever way.
<1>13. CASE PollIn \/ PollFail
  <2>1. /\ pc = "poll" /\ pc' = "recv" /\ ~ need_exit
        /\ UNCHANGED <<bound, overrun, inbox, msg, answers>>
      BY <1>13 DEF PollIn, PollFail, Idle
  <2>2. Open' = Open
      BY <2>1 DEF Open
  <2> QED BY <1>3, <2>1, <2>2 DEF InTask
<1>14. CASE RecvOverrun \/ RecvFail
    BY <1>2, <1>14 DEF RecvOverrun, RecvFail
<1>15. CASE BiosCrashes \/ Leave \/ (Bind /\ pc' # "fork")
    BY <1>1, <1>15 DEF BiosCrashes, Leave, Bind, Gone
<1>16. CASE UNCHANGED vars
  <2>1. UNCHANGED <<pc, inbox, msg, answers>> /\ Open' = Open
      BY <1>16 DEF vars, Open
  <2> QED BY <1>3, <2>1
<1> QED BY <1>4, <1>5, <1>6, <1>7, <1>8, <1>10, <1>11, <1>12, <1>13, <1>14, <1>15, <1>16
        DEF Next, Environment, Progress, Failure

\* The daemon is the service the kernel may expect: requests are dealt with in
\* the order they were posted, each answered once and only with its own data or
\* the result of its own successful call, and lost only when the daemon leaves.
THEOREM ImplementsService == Spec => ServiceSpec
<1>1. Init => Bound /\ Idle
    BY Zenon DEF Init, Bound, Idle
<1>2. Init => S!Init
    BY DEF Init, S!Init, Open, Waiting, Queue, InTask
<1> QED BY <1>1, <1>2, Invariant, BoundStep, IdleStep, ServiceStep, PTL DEF Spec, ServiceSpec, S!Spec
=============================================================================
