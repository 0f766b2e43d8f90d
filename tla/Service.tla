------------------------------ MODULE Service ------------------------------
(***************************************************************************)
(* What the kernel may expect of the daemon, with no process, socket or    *)
(* memory.  While the service is open, requests are taken in the order     *)
(* they were posted, and none is left out: each is answered, once and with *)
(* an answer that it allows, unless it is one to be ignored.  Requests are *)
(* only lost when the service closes.  It then deals with at most the one  *)
(* it has in hand, and opens again as a service to which nothing was       *)
(* posted.                                                                 *)
(***************************************************************************)
EXTENDS Sequences

CONSTANTS
  Requests,      \* what may be posted
  Answerable(_), \* the requests that are answered
  Ignored(_),    \* those that are passed over; any other closes the service
  Results(_)     \* the answers a request allows

VARIABLES
  open,          \* whether requests are taken
  pending,       \* requests posted and not yet dealt with, oldest first
  answers        \* what was answered so far, and whether it could be sent

vars == <<open, pending, answers>>

Init == ~ open /\ pending = <<>> /\ answers = <<>>

Open ==
  /\ ~ open /\ pending = <<>> /\ open' = TRUE
  /\ UNCHANGED <<pending, answers>>

\* What is posted to a closed service is lost: no step.
Post(r) ==
  /\ open /\ pending' = Append(pending, r)
  /\ UNCHANGED <<open, answers>>

Answer(result, sent) ==
  /\ pending # <<>>
  /\ Answerable(Head(pending)) /\ result \in Results(Head(pending))
  /\ answers' = Append(answers, [request |-> Head(pending), result |-> result, sent |-> sent])
  /\ pending' = Tail(pending)
  /\ UNCHANGED open

PassOver ==
  /\ open /\ pending # <<>> /\ Ignored(Head(pending))
  /\ pending' = Tail(pending)
  /\ UNCHANGED <<open, answers>>

\* Nothing but the request in hand, if there is one, may still be answered.
Close ==
  /\ open /\ open' = FALSE
  /\ \/ pending' = <<>>
     \/ pending # <<>> /\ Answerable(Head(pending)) /\ pending' = <<Head(pending)>>
  /\ UNCHANGED answers

\* Nor need that be.
Drop ==
  /\ ~ open /\ pending # <<>> /\ pending' = <<>>
  /\ UNCHANGED <<open, answers>>

Next ==
  \/ Open \/ PassOver \/ Close \/ Drop
  \/ \E r \in Requests : Post(r)
  \/ \E sent \in BOOLEAN :
       pending # <<>> /\ \E result \in Results(Head(pending)) : Answer(result, sent)

Spec == Init /\ [][Next]_vars
=============================================================================
