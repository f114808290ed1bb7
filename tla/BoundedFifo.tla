---------------------------- MODULE BoundedFifo ----------------------------
(***************************************************************************)
(* What a worker expects of its local_task_queue_: a queue of bounded      *)
(* length whose Push and Pop say whether they did anything. The queues of  *)
(* WorkerThread are of this kind; MRSWRing implements it.                  *)
(***************************************************************************)
EXTENDS Naturals, Sequences

CONSTANTS Values, Capacity

VARIABLES
    items,      \* what was pushed and not popped yet, oldest first
    result      \* the operation that returned last, and its result

vars == <<items, result>>

Init ==
    /\ items = <<>>
    /\ result = <<"none">>

Push(v) ==
    IF Len(items) < Capacity
    THEN /\ items' = Append(items, v)
         /\ result' = <<"push", TRUE>>
    ELSE /\ result' = <<"push", FALSE>>
         /\ UNCHANGED items

Pop ==
    IF items # <<>>
    THEN /\ items' = Tail(items)
         /\ result' = <<"pop", TRUE, Head(items)>>
    ELSE /\ result' = <<"pop", FALSE>>
         /\ UNCHANGED items

Next == (\E v \in Values : Push(v)) \/ Pop

Spec == Init /\ [][Next]_vars
=============================================================================
