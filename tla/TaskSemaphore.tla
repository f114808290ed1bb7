--------------------------- MODULE TaskSemaphore ----------------------------
(***************************************************************************)
(* TaskSemaphore (task/task_semaphore), used as the repository's tests use *)
(* it: a task keeps one on its stack, starts its children with a pointer   *)
(* to it, waits and returns, and each child signals when it is done. The   *)
(* children may have children of their own.                                *)
(***************************************************************************)
EXTENDS Naturals, FiniteSets

CONSTANTS
    Tasks,
    Parent,     \* the task that starts a task; the root is its own
    Unsigned       \* number of values of an unsigned, 2^32

ASSUME SemaphoreAssumption ==
    /\ Parent \in [Tasks -> Tasks]
    /\ \E t \in Tasks : Parent[t] = t
    /\ IsFiniteSet(Tasks)
    /\ Unsigned \in Nat /\ Cardinality(Tasks) < Unsigned

VARIABLES
    taskPc,         \* per task: where it is
    count,      \* per task: count_ of the semaphore on its stack
    onStack,    \* the tasks whose semaphore exists
    signalled   \* the tasks that have signalled

semaphoreVars == <<taskPc, count, onStack, signalled>>

Root == CHOOSE t \in Tasks : Parent[t] = t

Children(t) == {c \in Tasks \ {Root} : Parent[c] = t}

SemaphoreInit ==
    /\ taskPc = [t \in Tasks |-> IF t = Root THEN "ready" ELSE "unborn"]
    /\ count = [t \in Tasks |-> 0]
    /\ onStack = {}
    /\ signalled = {}

Goes(t, label) == taskPc' = [taskPc EXCEPT ![t] = label]

-----------------------------------------------------------------------------
(* A task without children is done at once.                                *)
Leaf(t) ==
    /\ taskPc[t] = "ready" /\ Children(t) = {}
    /\ Goes(t, "returning")
    /\ UNCHANGED <<count, onStack, signalled>>

(* TaskSemaphore complete{n}.                                              *)
ConstructSemaphore(t) ==
    /\ taskPc[t] = "ready" /\ Children(t) # {}
    /\ onStack' = onStack \cup {t}
    /\ count' = [count EXCEPT ![t] = Cardinality(Children(t))]
    /\ Goes(t, "starting")
    /\ UNCHANGED signalled

(* PerformAsync, one child after the other; they run at once.              *)
Start(t) ==
    /\ taskPc[t] = "starting"
    /\ \E c \in Children(t) :
          /\ taskPc[c] = "unborn"
          /\ taskPc' = [taskPc EXCEPT ![c] = "ready",
                              ![t] = IF \A d \in Children(t) \ {c} : taskPc[d] # "unborn"
                                     THEN "waiting" ELSE "starting"]
    /\ UNCHANGED <<count, onStack, signalled>>

MayPass(t) == count[t] = 0

(* compare_exchange_weak(0, 0) succeeds: Wait returns, the semaphore goes  *)
(* with the task's frame.                                                  *)
WaitReturns(t) ==
    /\ taskPc[t] = "waiting" /\ MayPass(t)
    /\ onStack' = onStack \ {t}
    /\ Goes(t, "returning")
    /\ UNCHANGED <<count, signalled>>

(* It fails, when the count is 0 as well: the weak form may.               *)
WaitYields(t) ==
    /\ taskPc[t] = "waiting"
    /\ Goes(t, "yielded")
    /\ UNCHANGED <<count, onStack, signalled>>

Resumed(t) ==
    /\ taskPc[t] = "yielded"
    /\ Goes(t, "waiting")
    /\ UNCHANGED <<count, onStack, signalled>>

(* Signal: the assertion's load, and the decrement; nothing comes after.   *)
SignalLoads(t) ==
    /\ taskPc[t] = "returning" /\ t # Root
    /\ Goes(t, IF count[Parent[t]] > 0 THEN "signalling" ELSE "failed")
    /\ UNCHANGED <<count, onStack, signalled>>

(* Fault: the value loaded before is what is decremented.                  *)
DecrementedLost(t) ==
    IF \E c \in Children(Parent[t]) \ {t} : taskPc[c] = "signalling"
    THEN count ELSE [count EXCEPT ![Parent[t]] = @ - 1]

Decremented(t) == [count EXCEPT ![Parent[t]] = (@ + Unsigned - 1) % Unsigned]

(* Fault: the assertion looks at the count once more, afterwards.          *)
SignalDecrementsThenLoads(t) ==
    /\ taskPc[t] = "signalling"
    /\ IF t \in signalled
       THEN Goes(t, "done") /\ UNCHANGED <<count, signalled>>
       ELSE count' = Decremented(t) /\ signalled' = signalled \cup {t} /\ UNCHANGED taskPc
    /\ UNCHANGED onStack

SignalDecrements(t) ==
    /\ taskPc[t] = "signalling"
    /\ count' = Decremented(t)
    /\ signalled' = signalled \cup {t}
    /\ Goes(t, "done")
    /\ UNCHANGED onStack

RootDone ==
    /\ taskPc[Root] = "returning"
    /\ Goes(Root, "done")
    /\ UNCHANGED <<count, onStack, signalled>>

TaskStep(t) ==
    \/ Leaf(t) \/ ConstructSemaphore(t) \/ Start(t)
    \/ WaitYields(t) \/ Resumed(t)
    \/ SignalLoads(t) \/ SignalDecrements(t)

SemaphoreNext ==
    \/ \E t \in Tasks : TaskStep(t) \/ WaitReturns(t)
    \/ RootDone

(* Workers run every task that is queued, and a yielding one is queued     *)
(* behind the others; an exchange that may succeed does not fail forever.  *)
Fairness ==
    /\ \A t \in Tasks : WF_semaphoreVars(TaskStep(t)) /\ SF_semaphoreVars(WaitReturns(t))
    /\ WF_semaphoreVars(RootDone)

SemaphoreSpec == SemaphoreInit /\ [][SemaphoreNext]_semaphoreVars /\ Fairness

-----------------------------------------------------------------------------
(* A task that signals never touches a semaphore whose task has returned,  *)
(* although it is the signal itself that lets that task return.            *)
SemaphoreExists ==
    \A t \in Tasks \ {Root} : taskPc[t] \in {"returning", "signalling"} => Parent[t] \in onStack

(* Wait returns after every child has signalled, and each of them finds    *)
(* the count above 0: it never wraps around.                               *)
WaitsForAll ==
    \A t \in Tasks :
        /\ taskPc[t] # "failed"
        /\ taskPc[t] \in {"returning", "done"} => Children(t) \subseteq signalled

(* A semaphore outlives its last signal, and no one passes it early.       *)
SemaphoreInv == SemaphoreExists /\ WaitsForAll

(* Everyone gets through, from the leaves up to the root.                  *)
AllReturn == <>(\A t \in Tasks : taskPc[t] = "done")
=============================================================================
