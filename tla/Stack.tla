-------------------------------- MODULE Stack -------------------------------
(* What LinkedStack promises its users: a stack whose Push and Pop take    *)
(* effect at once, for any number of threads.                              *)
EXTENDS Sequences

CONSTANTS Threads, Nodes

VARIABLES
    items,      \* the stack, its top first
    owned       \* per thread: the nodes it may push

Init ==
    /\ items = <<>>
    /\ owned \in [Threads -> SUBSET Nodes]

Push(t) ==
    \E n \in owned[t] :
        /\ items' = <<n>> \o items
        /\ owned' = [owned EXCEPT ![t] = @ \ {n}]

Pop(t) ==
    /\ items # <<>>
    /\ items' = Tail(items)
    /\ owned' = [owned EXCEPT ![t] = @ \cup {Head(items)}]

Next == \E t \in Threads : Push(t) \/ Pop(t)

Spec == Init /\ [][Next]_<<items, owned>>
=============================================================================
