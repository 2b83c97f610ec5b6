--------------------------- MODULE ForkJoinProgram ---------------------------
(***************************************************************************)
(* How the fib.cpp and skynet.cpp programs differ.                         *)
(*   last   the last of the calls: a task like the others ("forked"), or a *)
(*          function that the caller runs itself ("called")                *)
(*   start  "hot": a task may run as soon as it is made; "held": when all  *)
(*          have been made                                                 *)
(*   wait   a call that waits is "suspended" and leaves its thread; or it  *)
(*          stays on the thread's "stack", with other calls above it       *)
(***************************************************************************)
Program(last, start, wait) == [last |-> last, start |-> start, wait |-> wait]
=============================================================================
