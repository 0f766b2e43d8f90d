------------------------------- MODULE MCV86d -------------------------------
(***************************************************************************)
(* V86d with the arena of v86.h, a table of five blocks (so that two leaks *)
(* fill it), a socket for two messages, three messages in all, and two     *)
(* lives of the daemon.  The messages: the requests of uvesafb for the VBE *)
(* info block, for a mode's, to set a mode, and to save its state; one to  *)
(* exit; one from a process; and an error message.                         *)
(***************************************************************************)
EXTENDS V86d

Request(flags, len) ==
  [pid |-> 0, type |-> "NLMSG_DONE", flags |-> flags, buf_len |-> len]

MCMessages ==
  {Request({"TF_VBEIB"}, 1024), Request({"TF_BUF_RET", "TF_BUF_ESDI"}, 256),
   Request({}, 0), Request({"TF_BUF_ESBX"}, 256), Request({"TF_EXIT"}, 0),
   [Request({}, 0) EXCEPT !.pid = 100],
   [Request({}, 0) EXCEPT !.type = "NLMSG_ERROR"]}
=============================================================================
