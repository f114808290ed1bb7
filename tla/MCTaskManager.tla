--------------------------- MODULE MCTaskManager ---------------------------
(***************************************************************************)
(* TaskManager on small instances, and what the repository's comments say  *)
(* of it, stated as properties.                                            *)
(***************************************************************************)
EXTENDS TaskManager

(* task_manager.h:42: Stop "Asynchronously stops all threads. ... Can be   *)
(* called from any thread."                                                *)
StopHonoured == (stopper = N + 1) ~> \A w \in Threads : pc[w] = "done"

(* task_context.h:51: WaitEvent suspends the task "until the event is      *)
(* thrown", and task_context.cc:23 orders AddEvent after Suspend so that   *)
(* no race is left: no task waits for an event that nothing watches.       *)
NothingUnarmed == unarmed = {}
=============================================================================
