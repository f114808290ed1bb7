----------------------------- MODULE EventQueue -----------------------------
(***************************************************************************)
(* EpollEventQueue (event/epoll/event/eventqueue.cc): one epoll instance   *)
(* that every worker thread waits on, and one eventfd that wakes them.     *)
(*                                                                         *)
(* An EventSource lives on the stack of the task that waits on it          *)
(* (TcpStream::event_source_, the accept loop's event_source) and its user *)
(* handle is that task, so a source and its task share one name here.      *)
(* Each operation is an operator on the variables of this module; the      *)
(* threads that call them are in WorkerThread and TaskManager.             *)
(***************************************************************************)
EXTENDS Integers, FiniteSets

CONSTANTS
    Tasks,      \* tasks, and the event source each may own
    MaxEvents   \* thread_max_events_: events one epoll_wait may return

VARIABLES
    wakeup,     \* the eventfd counter is not zero
    interest,   \* kernel state of each source: "none", "armed" or "disarmed"
    isAdded     \* EpollEventSource::is_added_

eventVars == <<wakeup, interest, isAdded>>

InterestStates == {"none", "armed", "disarmed"}

EventTypeOK ==
    /\ wakeup \in BOOLEAN
    /\ interest \in [Tasks -> InterestStates]
    /\ isAdded \in [Tasks -> BOOLEAN]

(* The constructor registers the eventfd, level triggered, with the null   *)
(* handle; no other source is known to epoll yet.                          *)
EventInit ==
    /\ wakeup = FALSE
    /\ interest = [s \in Tasks |-> "none"]
    /\ isAdded = [s \in Tasks |-> FALSE]

-----------------------------------------------------------------------------
(* Interrupt and InterruptAll are the same write to the shared eventfd.    *)
InterruptAll == wakeup' = TRUE

(* The reads after epoll_wait, until the nonblocking eventfd is empty.     *)
DrainWakeup == wakeup' = FALSE

(* epoll_ctl refuses to MOD what it does not know and to ADD what it does. *)
EpollCtlFails(s) == isAdded[s] = (interest[s] = "none")

(* The epoll_ctl call of AddEvent. A failure is logged and nothing else    *)
(* happens. Every WaitEvent caller passes ExactlyOnce (EPOLLONESHOT).      *)
EpollCtlArm(s) ==
    interest' = IF EpollCtlFails(s) THEN interest
                                    ELSE [interest EXCEPT ![s] = "armed"]

(* AddEvent stores is_added_ only after EPOLL_CTL_ADD has returned, when   *)
(* the event can already have been delivered to another thread.            *)
MarkAdded(s) == isAdded' = [isAdded EXCEPT ![s] = TRUE]

(* RemoveEvent; a source that was never added is an error that is logged.  *)
RemoveEvent(s) ==
    /\ interest' = [interest EXCEPT ![s] = "none"]
    /\ isAdded' = IF interest[s] = "none" THEN isAdded
                                          ELSE [isAdded EXCEPT ![s] = FALSE]

(* Fault: EPOLLONESHOT forgotten, a returned source stays armed.           *)
EpollWaitNotOneshot(H) ==
    /\ H \subseteq {s \in Tasks : interest[s] = "armed"}
    /\ H # {} \/ wakeup
    /\ Cardinality(H) <= MaxEvents
    /\ UNCHANGED interest

(* epoll_wait returns with the sources in H, and with the eventfd if it is *)
(* set. Which of the armed sources have fired, and which of the pending    *)
(* events this call returns, is up to the kernel. EPOLLONESHOT disarms     *)
(* what is returned.                                                       *)
EpollWait(H) ==
    /\ H \subseteq {s \in Tasks : interest[s] = "armed"}
    /\ H # {} \/ wakeup
    /\ Cardinality(H) <= MaxEvents
    /\ interest' = [s \in Tasks |->
                       IF s \in H THEN "disarmed" ELSE interest[s]]
=============================================================================
