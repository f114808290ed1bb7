---------------------------- MODULE MCStructures ----------------------------
(***************************************************************************)
(* The data structures and conversions, for TLC: the ring, the lock-free   *)
(* stack, the list, the semaphore, the string builder, numbers and the     *)
(* layout of objects. They share no state, so each behaviour is about one  *)
(* of them, the subject; the others stay in an initial state.              *)
(***************************************************************************)
EXTENDS Values, MRSWRing, LinkedStack, List, TaskSemaphore, StrBuilder, SchemaLayout

VARIABLE subject

vars == <<subject, ringVars, stackVars, listVars, semaphoreVars, builderVars,
          valuesVars, layoutVars>>

Init ==
    /\ subject \in {"ring", "stack", "list", "semaphore", "builder", "values", "layout"}
    /\ RingInit /\ StackInit /\ ListInit /\ SemaphoreInit /\ BuilderInit
    /\ ValuesInit /\ LayoutInit
    /\ subject = "stack" \/ owned[1] = StackNodes
    /\ subject = "list" \/ next = [n \in Nodes |-> Null]

Next ==
    /\ \/ /\ subject = "ring" /\ RingNext
          /\ UNCHANGED <<stackVars, listVars, semaphoreVars, builderVars, valuesVars, layoutVars>>
       \/ /\ subject = "stack" /\ StackNext
          /\ UNCHANGED <<ringVars, listVars, semaphoreVars, builderVars, valuesVars, layoutVars>>
       \/ /\ subject = "list" /\ ListNext
          /\ UNCHANGED <<ringVars, stackVars, semaphoreVars, builderVars, valuesVars, layoutVars>>
       \/ /\ subject = "semaphore" /\ SemaphoreNext
          /\ UNCHANGED <<ringVars, stackVars, listVars, builderVars, valuesVars, layoutVars>>
       \/ /\ subject = "builder" /\ BuilderNext
          /\ UNCHANGED <<ringVars, stackVars, listVars, semaphoreVars, valuesVars, layoutVars>>
       \/ /\ subject = "values" /\ ValuesNext
          /\ UNCHANGED <<ringVars, stackVars, listVars, semaphoreVars, builderVars, layoutVars>>
       \/ /\ subject = "layout" /\ LayoutNext
          /\ UNCHANGED <<ringVars, stackVars, listVars, semaphoreVars, builderVars, valuesVars>>
    /\ UNCHANGED subject

(* The fairness of SemaphoreSpec, in the behaviours about the semaphore.   *)
Spec ==
    /\ Init /\ [][Next]_vars
    /\ \A t \in Tasks :
          /\ WF_semaphoreVars(subject = "semaphore" /\ TaskStep(t))
          /\ SF_semaphoreVars(subject = "semaphore" /\ WaitReturns(t))
    /\ WF_semaphoreVars(subject = "semaphore" /\ RootDone)

(* Every task of a tree gets through, from the leaves up to the root:      *)
(* Wait returns once all children have signalled, however the weak         *)
(* exchange fails in between.                                              *)
TreeReturns == subject = "semaphore" => AllReturn

-----------------------------------------------------------------------------
(* Eight-bit integers and up to three digits after the point, in a buffer  *)
(* that a few appended values fill.                                        *)
MCFractions == [1 .. 3 -> {0, 5}] \cup {<<0>>, <<7>>}

MCInts == {-128, -10, -1, 0, 7, 10, 100, 127, 255}

MCExponents == {-8, 12}

(* A root with two children, which have two and one of their own.          *)
MCParent == <<1, 1, 1, 2, 2, 3>>

(* int64 has five bits, int16 three.                                       *)
MCBits == [name \in Names |-> CASE name = "8" -> 2 [] name = "16" -> 3
                                [] name = "32" -> 4 [] name = "64" -> 5]

MCIntArgs == {-16, -3, 15}

MCDoubleArgs == {<<1, 2>>, <<0, 1>>, <<1, 0>>}
=============================================================================
