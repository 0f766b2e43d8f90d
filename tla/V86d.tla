-------------------------------- MODULE V86d --------------------------------
(***************************************************************************)
(* The daemon: main, req_exec and netlink_send (v86.c), v86_init and       *)
(* v86_cleanup as far as memory goes (v86_x86emu.c lines 44-109), and the  *)
(* way v86_task takes (v86_common.c lines 33-154), with the allocator of   *)
(* RealMem.  The kernel is external: it starts the daemon when nobody      *)
(* listens, posts messages into the daemon's socket, and collects replies. *)
(*                                                                         *)
(* What a buffer holds is the request's data ("request") or what the BIOS  *)
(* wrote ("bios").  A call of the BIOS succeeds or fails, kills the daemon *)
(* (an access vptr has no memory for) or never comes back.                 *)
(***************************************************************************)
EXTENDS Integers, Sequences

CONSTANTS
  REAL_MEM_BASE, REAL_MEM_SIZE, REAL_MEM_BLOCKS,   \* see RealMem
  Messages,      \* what is posted: [pid, type, flags, buf_len]
  SocketSize,    \* how many messages the socket buffer holds
  MaxPosts,      \* bound: messages posted in all
  MaxStarts      \* bound: how often the daemon is started

Flags == {"TF_VBEIB", "TF_BUF_ESDI", "TF_BUF_ESBX", "TF_BUF_RET", "TF_EXIT"}
Types == {"NLMSG_DONE", "NLMSG_ERROR", "NLMSG_NOOP"}
Body == [pid : Nat, type : Types, flags : SUBSET Flags, buf_len : Nat]

ASSUME MessagesAssumption == Messages \subseteq Body
ASSUME BoundsAssumption ==
  SocketSize \in Nat \ {0} /\ MaxPosts \in Nat /\ MaxStarts \in Nat

\* The kernel sends the whole VBE info block when it asks for it.
ASSUME BlockAssumption ==
  \A m \in Messages : m.pid = 0 /\ "TF_VBEIB" \in m.flags => m.buf_len > 0

\* The arena, as RealMem assumes it.
ASSUME MemoryAssumption ==
  /\ REAL_MEM_BASE \in Nat /\ REAL_MEM_BASE > 0
  /\ REAL_MEM_SIZE \in Nat /\ REAL_MEM_SIZE > 0
  /\ REAL_MEM_SIZE < 1048576 /\ REAL_MEM_SIZE % 16 = 0
  /\ REAL_MEM_BLOCKS \in Nat /\ REAL_MEM_BLOCKS > 1

DEFAULT_STACK_SIZE == 8192
HALT_SIZE          == 256

\* What a task may need fits next to these two, with a paragraph left over (no
\* block is given away whole), and the table has an entry for it.
ASSUME RoomAssumption ==
  /\ REAL_MEM_BLOCKS > 3
  /\ \A m \in Messages :
       m.pid = 0 => DEFAULT_STACK_SIZE + HALT_SIZE + m.buf_len + 16 <= REAL_MEM_SIZE
NoBody == [pid |-> 0, type |-> "NLMSG_NOOP", flags |-> {}, buf_len |-> 0]
NoMessage == [id |-> 0, body |-> NoBody]

VARIABLES
  pc,            \* where the process is, "none" when there is no process
  bound,         \* the socket is bound to the group of v86d
  inbox,         \* messages in the socket buffer
  overrun,       \* a message was dropped: the next recv fails with ENOBUFS
  need_exit,
  msg,           \* buf in main: the message being handled
  data,          \* what the message's task buffer holds
  low,           \* what the buffer in real-mode memory holds
  good,          \* the BIOS call succeeded: v86_int = 0 and AX = 0x004f
  stack, halt, lbuf,                \* addresses in real-mode memory
  ready, count, blocks, ret,        \* the allocator, see RealMem
  answers,       \* replies, sent or not: [request, result, sent]
  \* What happened, for the bounds and the properties:
  posts, starts, \* messages posted, daemons started
  forked,        \* the parent has exited with 0
  told           \* a request to exit was read

RM == INSTANCE RealMem WITH
        Requests <- {DEFAULT_STACK_SIZE, HALT_SIZE}
                      \cup ({m.buf_len : m \in Messages} \ {0}),
        Strays <- {}

heap    == <<ready, count, blocks, ret>>
kernel  == <<posts, starts>>
places  == <<stack, halt, lbuf>>
task    == <<data, low, good>>
history == <<answers, forked, told>>
vars == <<pc, bound, inbox, overrun, need_exit, msg, task, places, heap,
          kernel, history>>

Init ==
  /\ pc = "none" /\ bound = FALSE /\ inbox = <<>> /\ overrun = FALSE
  /\ need_exit = FALSE /\ msg = NoMessage
  /\ data = "request" /\ low = "stale" /\ good = FALSE
  /\ stack = 0 /\ halt = 0 /\ lbuf = 0
  /\ RM!Init
  /\ answers = <<>> /\ posts = 0 /\ starts = 0
  /\ forked = FALSE /\ told = FALSE

-----------------------------------------------------------------------------
(* The kernel. *)

\* Nobody listens: the kernel starts the daemon, a process with fresh memory.
Start ==
  /\ pc = "none" /\ starts < MaxStarts
  /\ starts' = starts + 1 /\ pc' = "socket"
  /\ need_exit' = FALSE /\ msg' = NoMessage
  /\ data' = "request" /\ low' = "stale" /\ good' = FALSE
  /\ stack' = 0 /\ halt' = 0 /\ lbuf' = 0
  /\ ready' = FALSE /\ count' = 0 /\ ret' = 0
  /\ blocks' = [j \in DOMAIN blocks |-> [addr |-> 0, size |-> 0, free |-> FALSE]]
  /\ forked' = FALSE /\ told' = FALSE
  /\ UNCHANGED <<bound, inbox, overrun, answers, posts>>

\* The kernel, or another process, sends to the group of v86d.  A message that
\* the socket, or the kernel, has no room for is dropped.
Post(body) ==
  /\ bound /\ posts < MaxPosts
  /\ posts' = posts + 1
  /\ \/ /\ Len(inbox) < SocketSize
        /\ inbox' = Append(inbox, [id |-> posts + 1, body |-> body])
        /\ UNCHANGED overrun
     \/ overrun' = TRUE /\ UNCHANGED inbox
  /\ UNCHANGED <<pc, bound, need_exit, msg, task, places, heap, starts, history>>

\* The process ends: its socket and what is queued in it go with it.
Gone ==
  /\ pc' = "none" /\ bound' = FALSE /\ inbox' = <<>> /\ overrun' = FALSE
  /\ UNCHANGED <<need_exit, msg, task, places, kernel, history>>

-----------------------------------------------------------------------------
(* main up to its loop. *)

\* socket and bind, in the foreground.
Bind ==
  /\ pc = "socket"
  /\ \/ /\ pc' = "fork" /\ bound' = TRUE
        /\ UNCHANGED <<inbox, overrun, need_exit, msg, task, places, kernel, history>>
     \/ Gone
  /\ UNCHANGED heap

\* Mutant of ForkAt: the daemon goes to the background before it listens.
ForkAtOnce == "socket"

ForkAt == "fork"

\* The parent exits with 0, which tells the kernel to post again; it does so too
\* when fork fails and there is no child.
Fork ==
  /\ pc = ForkAt
  /\ \/ /\ pc' = "mem_init" /\ forked' = TRUE
        /\ UNCHANGED <<bound, inbox, overrun, need_exit, msg, task, places, kernel,
                       answers, told>>
     \/ Gone
  /\ UNCHANGED heap

\* v86_mem_init, of which only the arena matters here; main returns -1 if it
\* fails, at whatever point.
MemInit ==
  /\ pc = "mem_init"
  /\ \/ /\ RM!real_mem_init /\ pc' = "stack"
        /\ UNCHANGED <<bound, inbox, overrun, need_exit, msg, task, places, kernel, history>>
     \/ UNCHANGED heap /\ Gone

\* The two allocations of v86_init, which nobody ever frees.
InitStack ==
  /\ pc = "stack"
  /\ RM!v86_mem_alloc(DEFAULT_STACK_SIZE)
  /\ \/ /\ ret' # 0 /\ pc' = "halt" /\ stack' = ret'
        /\ UNCHANGED <<bound, inbox, overrun, need_exit, msg, task, halt, lbuf, kernel, history>>
     \/ ret' = 0 /\ Gone

InitHalt ==
  /\ pc = "halt"
  /\ RM!v86_mem_alloc(HALT_SIZE)
  /\ \/ /\ ret' # 0 /\ pc' = "poll" /\ halt' = ret'
        /\ UNCHANGED <<bound, inbox, overrun, need_exit, msg, task, stack, lbuf, kernel, history>>
     \/ ret' = 0 /\ Gone

-----------------------------------------------------------------------------
(* The loop of main. *)

\* Mutant of Readable: a message that is alone in the socket is not noticed.
ReadableLate == Len(inbox) > 1 \/ overrun

Readable == inbox # <<>> \/ overrun

PollIn ==
  /\ pc = "poll" /\ Readable /\ pc' = "recv"
  /\ UNCHANGED <<bound, inbox, overrun, need_exit, msg, task, places, heap,
                 kernel, history>>

\* When poll fails, the switch is left and recv is called all the same.  (EINTR
\* only polls again, and without a timeout poll never returns 0.)
PollFail ==
  /\ pc = "poll" /\ pc' = "recv" /\ need_exit' = TRUE
  /\ UNCHANGED <<bound, inbox, overrun, msg, task, places, heap, kernel, history>>

\* while (!need_exit)
Again == IF need_exit THEN "out" ELSE "poll"

FromKernel(m) == m.body.pid = 0

\* Mutant of WantsExit: the flag is not looked at.
WantsNoExit(m) == FALSE

WantsExit(m) == "TF_EXIT" \in m.body.flags

\* recv takes a message; main and req_exec decide what becomes of it.
Recv ==
  /\ pc = "recv" /\ ~ overrun /\ inbox # <<>>
  /\ msg' = Head(inbox) /\ inbox' = Tail(inbox)
  /\ data' = "request"
  /\ IF FromKernel(msg') /\ msg'.body.type = "NLMSG_DONE"
       THEN /\ pc' = IF WantsExit(msg') THEN "out" ELSE "task"
            /\ told' = (told \/ "TF_EXIT" \in msg'.body.flags)
       ELSE pc' = Again /\ UNCHANGED told
  /\ UNCHANGED <<bound, overrun, need_exit, low, good, places, heap, kernel,
                 answers, forked>>

\* Mutant of RecvOverrun: the daemon reads on when recv fails.
RecvOverrun_again ==
  /\ pc = "recv" /\ overrun /\ pc' = Again /\ overrun' = FALSE
  /\ UNCHANGED <<bound, inbox, need_exit, msg, task, places, heap, kernel, history>>

\* recv fails, because the socket was overrun (ENOBUFS) or for another reason.
RecvOverrun ==
  /\ pc = "recv" /\ overrun /\ pc' = "out" /\ overrun' = FALSE
  /\ UNCHANGED <<bound, inbox, need_exit, msg, task, places, heap, kernel, history>>

RecvFail ==
  /\ pc = "recv" /\ ~ overrun /\ pc' = "out"
  /\ UNCHANGED <<bound, inbox, overrun, need_exit, msg, task, places, heap,
                 kernel, history>>

-----------------------------------------------------------------------------
(* v86_task. *)

HasBuffer(m) == "TF_VBEIB" \in m.body.flags \/ m.body.buf_len > 0

\* The buffer in real-mode memory; v86_task returns -1 if there is none, and
\* the daemon leaves without an answer.
TaskAlloc ==
  /\ pc = "task" /\ HasBuffer(msg)
  /\ RM!v86_mem_alloc(msg.body.buf_len)
  /\ lbuf' = ret'
  /\ \/ ret' # 0 /\ pc' = "int" /\ low' = "request"
     \/ ret' = 0 /\ pc' = "out" /\ UNCHANGED low
  /\ UNCHANGED <<bound, inbox, overrun, need_exit, msg, data, good, stack, halt,
                 kernel, history>>

TaskNoBuffer ==
  /\ pc = "task" /\ ~ HasBuffer(msg)
  /\ pc' = "int" /\ lbuf' = 0
  /\ UNCHANGED <<bound, inbox, overrun, need_exit, msg, task, stack, halt, heap,
                 kernel, history>>

\* v86_int(0x10): the BIOS comes back, well or badly, with the buffer written
\* or not when it failed.
BiosReturns ==
  /\ pc = "int" /\ pc' = "finish"
  /\ good' \in BOOLEAN
  /\ low' \in IF good' THEN {"bios"} ELSE {"bios", low}
  /\ UNCHANGED <<bound, inbox, overrun, need_exit, msg, data, places, heap,
                 kernel, history>>

\* The BIOS touches memory that vptr has no region for, or has left a pointer in
\* the VBE info block that leads v86_task astray (see VbeTask).
BiosCrashes ==
  /\ \/ pc = "int"
     \/ pc = "finish" /\ good /\ "TF_VBEIB" \in msg.body.flags
  /\ Gone
  /\ UNCHANGED heap

\* The BIOS runs forever.
BiosHangs ==
  /\ pc = "int" /\ pc' = "hung"
  /\ UNCHANGED <<bound, inbox, overrun, need_exit, msg, task, places, heap,
                 kernel, history>>

\* Mutant of CopyBack: a buffer is copied back after a failed call too.
CopyBackAlways(m) ==
  \/ "TF_VBEIB" \in m.body.flags
  \/ m.body.buf_len > 0 /\ "TF_BUF_RET" \in m.body.flags

\* The buffer is copied back into the message.
CopyBack(m) ==
  /\ good
  /\ \/ "TF_VBEIB" \in m.body.flags
     \/ m.body.buf_len > 0 /\ "TF_BUF_RET" \in m.body.flags

\* Mutant of Frees: a failed call jumps past the end of the buffer's life.
FreesIfGood(m) == HasBuffer(m) /\ good

Frees(m) == HasBuffer(m)

\* After the call, on every way out: the buffer is freed.
TaskFinish ==
  /\ pc = "finish" /\ pc' = "send"
  /\ data' = IF CopyBack(msg) THEN low ELSE data
  /\ IF Frees(msg) THEN RM!v86_mem_free(lbuf) ELSE UNCHANGED heap
  /\ UNCHANGED <<bound, inbox, overrun, need_exit, msg, low, good, places, kernel, history>>

\* netlink_send: the reply is the message itself; a failure is only logged.
Send ==
  /\ pc = "send" /\ pc' = Again
  /\ \E sent \in BOOLEAN :
       answers' = Append(answers, [request |-> msg, sent |-> sent,
                                   result |-> [good |-> good, data |-> data]])
  /\ UNCHANGED <<bound, inbox, overrun, need_exit, msg, task, places, heap,
                 kernel, forked, told>>

\* v86_cleanup, and the end of main.
Leave ==
  /\ pc = "out" /\ Gone /\ RM!real_mem_deinit

-----------------------------------------------------------------------------
Environment == Start \/ \E body \in Messages : Post(body)

\* The steps the daemon takes of itself, and what may go wrong instead.
Progress ==
  \/ Bind \/ Fork \/ MemInit \/ InitStack \/ InitHalt
  \/ PollIn \/ Recv \/ RecvOverrun
  \/ TaskAlloc \/ TaskNoBuffer \/ BiosReturns \/ TaskFinish \/ Send \/ Leave
Failure == PollFail \/ RecvFail \/ BiosCrashes \/ BiosHangs

Next == Environment \/ Progress \/ Failure

\* The daemon is one process that the system keeps scheduling; nothing is
\* assumed of the kernel, and nothing need ever fail.
Spec == Init /\ [][Next]_vars /\ WF_vars(Progress)

-----------------------------------------------------------------------------
Message == [id : 0 .. MaxPosts, body : Messages \cup {NoBody}]

TypeOK ==
  /\ pc \in {"none", "socket", "fork", "mem_init", "stack", "halt", "poll",
             "recv", "task", "int", "finish", "send", "out", "hung"}
  /\ bound \in BOOLEAN /\ overrun \in BOOLEAN /\ need_exit \in BOOLEAN
  /\ inbox \in Seq(Message)
  /\ msg \in Message
  /\ data \in {"request", "bios"} /\ low \in {"stale", "request", "bios"}
  /\ good \in BOOLEAN
  /\ stack \in Nat /\ halt \in Nat /\ lbuf \in Nat
  /\ RM!TypeOK
  /\ posts \in 0 .. MaxPosts /\ starts \in 0 .. MaxStarts
  /\ forked \in BOOLEAN /\ told \in BOOLEAN

\* Between two tasks nothing is allocated but the stack and the halt stub of
\* v86_init: whatever the tasks were and however their calls ended, each has
\* given back exactly what it took.
HeapAtRest ==
  pc \in {"poll", "recv"} =>
    RM!Live = {[addr |-> stack, size |-> DEFAULT_STACK_SIZE],
               [addr |-> halt, size |-> HALT_SIZE]}

\* A task that needs a buffer gets one, so v86_task never fails and req_exec
\* never ends the daemon without an answer (v86.c lines 57-58), however long
\* the daemon has been running.
TaskGetsBuffer == [][TaskAlloc => pc' = "int"]_vars

\* The parent exits only when the socket is bound: as long as the daemon lives,
\* a message posted after that reaches it.
ListensWhenForked == forked /\ pc # "none" => bound

\* The daemon is the service that the kernel may expect: every request that
\* req_exec gets is answered, in order and once, with its own data or the result
\* of its own successful call, and no other message is.  Requests are lost only
\* when the daemon gives up: after a failure of poll it handles one message at
\* most, after one that was dropped or a request to exit none but that of the
\* task it is in, and the next daemon starts without them.
Answerable(m) ==
  m.body.pid = 0 /\ m.body.type = "NLMSG_DONE" /\ "TF_EXIT" \notin m.body.flags
Ignored(m) == m.body.pid # 0 \/ m.body.type # "NLMSG_DONE"
Returns(m) ==
  \/ "TF_VBEIB" \in m.body.flags
  \/ "TF_BUF_RET" \in m.body.flags /\ m.body.buf_len > 0
Results(m) ==
  {[good |-> FALSE, data |-> "request"],
   [good |-> TRUE, data |-> IF Returns(m) THEN "bios" ELSE "request"]}
InTask == {"task", "int", "finish", "send", "hung"}
Open == bound /\ ~ overrun /\ pc # "out" /\ (need_exit => pc = "recv")
Queue == IF Open THEN inbox ELSE <<>>
Waiting == IF pc \in InTask THEN <<msg>> \o Queue ELSE Queue
S == INSTANCE Service WITH
       Requests <- [id : 1 .. MaxPosts, body : Messages], open <- Open, pending <- Waiting
ServiceSpec == S!Spec

\* When a message was dropped, the daemon goes away, unless the BIOS never
\* returns: the kernel that waits for the answer can start another one.
DropEnds == overrun ~> pc \in {"none", "hung"}

\* Messages do not stay in the socket: the daemon keeps reading, or is gone,
\* unless the BIOS never returns from a call.
KeepsReading == []<>(inbox = <<>> \/ pc = "hung")

\* A request to exit is obeyed.
Leaves == told ~> pc = "none"
=============================================================================
