---------------------------- MODULE WorkerThread ----------------------------
(***************************************************************************)
(* The worker threads of the task manager (task/worker_thread.cc), the     *)
(* tasks they run (task/task.cc) and what a task may ask for while it runs *)
(* (task/task_context.cc): fibers scheduled cooperatively over threads,    *)
(* each thread with a bounded queue of its own from which the others steal.*)
(*                                                                         *)
(* A step is what a thread does between two accesses to state that another *)
(* thread can see. What a task computes is left open: while it executes it *)
(* may queue a task, yield, wait for its event source, exit or return.     *)
(***************************************************************************)
EXTENDS EventQueue, Sequences

CONSTANTS
    N,           \* num_threads_
    QueueSize,   \* capacity of local_task_queue_ (1024 in the constructor)
    NoTask,      \* the null TaskPtr
    EntryTasks,  \* tasks handed to AddEntryPoint before Run
    Waiters,     \* tasks that own an event source
    Spinners,    \* tasks that may yield without end (TaskSemaphore::Wait)
    MaxYields,   \* bound on the yields of every other task
    EarlySignal  \* may a signal arrive before every worker is constructed?

Threads == 0 .. N - 1

ASSUME WorkerAssumption ==
    /\ N \in Nat \ {0}
    /\ QueueSize \in Nat \ {0}
    /\ MaxEvents \in Nat \ {0}
    /\ MaxYields \in Nat
    /\ NoTask \notin Tasks
    /\ EntryTasks \subseteq Tasks
    /\ Waiters \subseteq Tasks
    /\ Spinners \subseteq Tasks
    /\ EarlySignal \in BOOLEAN

VARIABLES
    pc,          \* where each worker thread is
    running,     \* running_
    finished,    \* finished_
    queue,       \* local_task_queue_ (MRSWRing refines this bounded queue)
    cur,         \* exec_.current_task_
    pending,     \* exec_.has_pending_event_
    yield,       \* exec_.yield_
    harvest,     \* events returned by Wait and not queued yet
    scan,        \* how many queues DequeNextTask has found empty
    tstate,      \* Task::state_, with the life of the task around it
    yields,      \* yields of each task so far, up to MaxYields
    dropped,     \* history: tasks whose Push returned false
    unarmed      \* history: tasks whose epoll_ctl failed in AddEvent

workerVars == <<pc, running, finished, queue, cur, pending, yield, harvest,
                scan, tstate, yields, dropped, unarmed>>

PCs == {"raw", "made", "check", "wait", "drain", "events", "deque", "run",
        "spawned", "post", "mark", "stopping", "hook", "done"}

TStates == {"Unborn", "NotStarted", "Executing", "Suspended", "Destroyed"}

WorkerTypeOK ==
    /\ pc \in [Threads -> PCs]
    /\ running \in [Threads -> BOOLEAN]
    /\ finished \in [Threads -> BOOLEAN]
    /\ queue \in [Threads -> Seq(Tasks)]
    /\ cur \in [Threads -> Tasks \cup {NoTask}]
    /\ pending \in [Threads -> BOOLEAN]
    /\ yield \in [Threads -> BOOLEAN]
    /\ harvest \in [Threads -> SUBSET Tasks]
    /\ scan \in [Threads -> 0 .. N + 1]
    /\ tstate \in [Tasks -> TStates]
    /\ yields \in [Tasks -> 0 .. MaxYields]
    /\ dropped \in SUBSET Tasks
    /\ unarmed \in SUBSET Tasks

(* threads_ is allocated and not constructed: running_ and finished_ of    *)
(* every worker hold whatever was in that memory.                          *)
WorkerInit ==
    /\ pc = [w \in Threads |-> "raw"]
    /\ running \in [Threads -> BOOLEAN]
    /\ finished \in [Threads -> BOOLEAN]
    /\ queue = [w \in Threads |-> <<>>]
    /\ cur = [w \in Threads |-> NoTask]
    /\ pending = [w \in Threads |-> FALSE]
    /\ yield = [w \in Threads |-> FALSE]
    /\ harvest = [w \in Threads |-> {}]
    /\ scan = [w \in Threads |-> 0]
    /\ tstate = [t \in Tasks |-> "Unborn"]
    /\ yields = [t \in Tasks |-> 0]
    /\ dropped = {}
    /\ unarmed = {}

AllConstructed == \A w \in Threads : pc[w] # "raw"

Goto(w, label) == pc' = [pc EXCEPT ![w] = label]

(* Task::Execute and Task::Resume.                                         *)
ResumeTask(t) == tstate' = [tstate EXCEPT ![t] = "Executing"]

(* Task::Suspend, called by the task itself.                               *)
Suspend(t) == tstate' = [tstate EXCEPT ![t] = "Suspended"]

-----------------------------------------------------------------------------
(* The thread loop: ThreadProc.                                            *)

(* QueueTask: Push on the thread's own ring, its result ignored.           *)
QueueTask(w, t) ==
    IF Len(queue[w]) < QueueSize
    THEN /\ queue' = [queue EXCEPT ![w] = Append(@, t)]
         /\ UNCHANGED dropped
    ELSE /\ dropped' = dropped \cup {t}
         /\ UNCHANGED queue

(* while (running_.load())                                                 *)
CheckRunning(w) ==
    /\ pc[w] = "check"
    /\ running[w]
    /\ Goto(w, "wait")
    /\ UNCHANGED <<running, finished, queue, cur, pending, yield, harvest,
                   scan, tstate, yields, dropped, unarmed, eventVars>>

(* The loop is left: finished_ = true, then StopInternal.                  *)
LeaveLoop(w) ==
    /\ pc[w] = "check"
    /\ ~running[w]
    /\ finished' = [finished EXCEPT ![w] = TRUE]
    /\ Goto(w, "stopping")
    /\ UNCHANGED <<running, queue, cur, pending, yield, harvest, scan,
                   tstate, yields, dropped, unarmed, eventVars>>

(* events_->Wait(index_, -1) returns from epoll_wait.                      *)
WaitReturns(w, H) ==
    /\ pc[w] = "wait"
    /\ EpollWait(H)
    /\ harvest' = [harvest EXCEPT ![w] = H]
    /\ Goto(w, "drain")
    /\ UNCHANGED <<running, finished, queue, cur, pending, yield, scan,
                   tstate, yields, dropped, unarmed, wakeup, isAdded>>

(* epoll_wait fails with EINTR: no events, and the eventfd is not drained. *)
WaitInterrupted(w) ==
    /\ pc[w] = "wait"
    /\ EarlySignal \/ AllConstructed
    /\ Goto(w, "deque")
    /\ UNCHANGED <<running, finished, queue, cur, pending, yield, harvest,
                   scan, tstate, yields, dropped, unarmed, eventVars>>

(* The drain loop at the end of Wait.                                      *)
WaitDrains(w) ==
    /\ pc[w] = "drain"
    /\ DrainWakeup
    /\ Goto(w, "events")
    /\ UNCHANGED <<running, finished, queue, cur, pending, yield, harvest,
                   scan, tstate, yields, dropped, unarmed, interest, isAdded>>

(* for (const Event &e : triggered_events) QueueTask(task). The kernel may *)
(* return the events in any order.                                         *)
QueueTriggered(w, t) ==
    /\ pc[w] = "events"
    /\ t \in harvest[w]
    /\ harvest' = [harvest EXCEPT ![w] = @ \ {t}]
    /\ QueueTask(w, t)
    /\ UNCHANGED <<pc, running, finished, cur, pending, yield, scan, tstate,
                   yields, unarmed, eventVars>>

(* Fault: only the first event of a wait is queued.                        *)
EventsQueuedEarly(w) ==
    /\ pc[w] = "events"
    /\ harvest' = [harvest EXCEPT ![w] = {}]
    /\ Goto(w, "deque")
    /\ UNCHANGED <<running, finished, queue, cur, pending, yield, scan, tstate,
                   yields, dropped, unarmed, eventVars>>

EventsQueued(w) ==
    /\ pc[w] = "events"
    /\ harvest[w] = {}
    /\ Goto(w, "deque")
    /\ UNCHANGED <<running, finished, queue, cur, pending, yield, harvest,
                   scan, tstate, yields, dropped, unarmed, eventVars>>

(* The queue DequeNextTask looks at next: its own, then all of them in     *)
(* index order, its own first again.                                       *)
Wrap(i) == IF i < N THEN i ELSE i - N     \* i % N, for i < 2N

ScanTarget(w) == IF scan[w] = 0 THEN w ELSE Wrap(w + scan[w] - 1)

(* DequeNextTask pops from the queue it looks at. Execute or Resume, after *)
(* CreateTask and PreTask, touch nothing that another thread can see.      *)
DequeNextTask(w) ==
    /\ pc[w] = "deque"
    /\ scan[w] <= N
    /\ LET v == ScanTarget(w) IN
         IF queue[v] # <<>>
         THEN /\ queue' = [queue EXCEPT ![v] = Tail(@)]
              /\ cur' = [cur EXCEPT ![w] = Head(queue[v])]
              /\ ResumeTask(Head(queue[v]))
              /\ scan' = [scan EXCEPT ![w] = 0]
              /\ Goto(w, "run")
         ELSE /\ scan' = [scan EXCEPT ![w] = @ + 1]
              /\ UNCHANGED <<queue, cur, tstate, pc>>
    /\ UNCHANGED <<running, finished, pending, yield, harvest, yields,
                   dropped, unarmed, eventVars>>

(* Every queue was found empty: back to while (running_).                  *)
NothingToRun(w) ==
    /\ pc[w] = "deque"
    /\ scan[w] = N + 1
    /\ scan' = [scan EXCEPT ![w] = 0]
    /\ Goto(w, "check")
    /\ UNCHANGED <<running, finished, queue, cur, pending, yield, harvest,
                   tstate, yields, dropped, unarmed, eventVars>>

-----------------------------------------------------------------------------
(* What the task executing on w does: TaskContext.                         *)

(* PerformAsync queues a new task ...                                      *)
PerformAsync(w, t) ==
    /\ pc[w] = "run"
    /\ tstate[t] = "Unborn"
    /\ t \notin EntryTasks
    /\ tstate' = [tstate EXCEPT ![t] = "NotStarted"]
    /\ QueueTask(w, t)
    /\ Goto(w, "spawned")
    /\ UNCHANGED <<running, finished, cur, pending, yield, harvest, scan,
                   yields, unarmed, eventVars>>

(* ... and then interrupts the threads that wait.                          *)
PerformAsyncInterrupt(w) ==
    /\ pc[w] = "spawned"
    /\ InterruptAll
    /\ Goto(w, "run")
    /\ UNCHANGED <<running, finished, queue, cur, pending, yield, harvest,
                   scan, tstate, yields, dropped, unarmed, interest, isAdded>>

(* TaskContext::Yield: the flag, then Task::Suspend.                       *)
Yield(w) ==
    /\ pc[w] = "run"
    /\ cur[w] \in Spinners \/ yields[cur[w]] < MaxYields
    /\ yield' = [yield EXCEPT ![w] = TRUE]
    /\ Suspend(cur[w])
    /\ yields' = IF cur[w] \in Spinners THEN yields
                 ELSE [yields EXCEPT ![cur[w]] = @ + 1]
    /\ Goto(w, "post")
    /\ UNCHANGED <<running, finished, queue, cur, pending, harvest, scan,
                   dropped, unarmed, eventVars>>

(* Fault: the event is requested and the task is not suspended.            *)
WaitEventUnsuspended(w) ==
    /\ pc[w] = "run"
    /\ cur[w] \in Waiters
    /\ pending' = [pending EXCEPT ![w] = TRUE]
    /\ Goto(w, "post")
    /\ UNCHANGED <<running, finished, queue, cur, yield, harvest, scan, tstate,
                   yields, dropped, unarmed, eventVars>>

(* TaskContext::WaitEvent: the request, then Task::Suspend. The thread,    *)
(* not the task, registers the event, in PostTask.                         *)
WaitEvent(w) ==
    /\ pc[w] = "run"
    /\ cur[w] \in Waiters
    /\ pending' = [pending EXCEPT ![w] = TRUE]
    /\ Suspend(cur[w])
    /\ Goto(w, "post")
    /\ UNCHANGED <<running, finished, queue, cur, yield, harvest, scan,
                   yields, dropped, unarmed, eventVars>>

(* TaskContext::Exit: DeferredExit of this thread, then Task::Suspend. The *)
(* stack of the task is not unwound: its event source is not removed.      *)
Exit(w) ==
    /\ pc[w] = "run"
    /\ running' = [running EXCEPT ![w] = FALSE]
    /\ Suspend(cur[w])
    /\ Goto(w, "post")
    /\ UNCHANGED <<finished, queue, cur, pending, yield, harvest, scan,
                   yields, dropped, unarmed, eventVars>>

(* The task function returns: ~TcpStream has removed its event source and  *)
(* the socket is closed, Task::Execute or Resume returns to the thread.    *)
Return(w) ==
    /\ pc[w] = "run"
    /\ IF cur[w] \in Waiters THEN RemoveEvent(cur[w])
                             ELSE UNCHANGED <<interest, isAdded>>
    /\ Goto(w, "post")
    /\ UNCHANGED <<running, finished, queue, cur, pending, yield, harvest,
                   scan, tstate, yields, dropped, unarmed, wakeup>>

-----------------------------------------------------------------------------
(* PostTask.                                                               *)

(* The task waits: AddEvent. MOD of a known source is one call; after ADD  *)
(* is_added_ is still to be stored.                                        *)
PostEvent(w) ==
    /\ pc[w] = "post"
    /\ pending[w]
    /\ EpollCtlArm(cur[w])
    /\ unarmed' = IF EpollCtlFails(cur[w]) THEN unarmed \cup {cur[w]}
                                           ELSE unarmed
    /\ pending' = [pending EXCEPT ![w] = FALSE]
    /\ IF isAdded[cur[w]]
       THEN /\ cur' = [cur EXCEPT ![w] = NoTask]
            /\ Goto(w, "deque")
       ELSE /\ Goto(w, "mark")
            /\ UNCHANGED cur
    /\ UNCHANGED <<running, finished, queue, yield, harvest, scan, tstate,
                   yields, dropped, wakeup, isAdded>>

PostMark(w) ==
    /\ pc[w] = "mark"
    /\ MarkAdded(cur[w])
    /\ cur' = [cur EXCEPT ![w] = NoTask]
    /\ Goto(w, "deque")
    /\ UNCHANGED <<running, finished, queue, pending, yield, harvest, scan,
                   tstate, yields, dropped, unarmed, wakeup, interest>>

(* The task yielded: back to the end of the thread's queue.                *)
PostYield(w) ==
    /\ pc[w] = "post"
    /\ ~pending[w]
    /\ yield[w]
    /\ QueueTask(w, cur[w])
    /\ yield' = [yield EXCEPT ![w] = FALSE]
    /\ cur' = [cur EXCEPT ![w] = NoTask]
    /\ Goto(w, "deque")
    /\ UNCHANGED <<running, finished, pending, harvest, scan, tstate, yields,
                   unarmed, eventVars>>

(* The task returned or exited: it is destroyed.                           *)
PostDestroy(w) ==
    /\ pc[w] = "post"
    /\ ~pending[w]
    /\ ~yield[w]
    /\ tstate' = [tstate EXCEPT ![cur[w]] = "Destroyed"]
    /\ cur' = [cur EXCEPT ![w] = NoTask]
    /\ Goto(w, "deque")
    /\ UNCHANGED <<running, finished, queue, pending, yield, harvest, scan,
                   yields, dropped, unarmed, eventVars>>

(* The steps a thread takes by itself. The two ways out of epoll_wait that *)
(* depend on the outside, an event and a signal, are kept apart.           *)
LoopStep(w) ==
    \/ CheckRunning(w)
    \/ LeaveLoop(w)
    \/ WaitDrains(w)
    \/ \E t \in Tasks : QueueTriggered(w, t)
    \/ EventsQueued(w)
    \/ DequeNextTask(w)
    \/ NothingToRun(w)

TaskStep(w) ==
    \/ \E t \in Tasks : PerformAsync(w, t)
    \/ PerformAsyncInterrupt(w)
    \/ Yield(w)
    \/ WaitEvent(w)
    \/ Exit(w)
    \/ Return(w)

PostStep(w) ==
    \/ PostEvent(w)
    \/ PostMark(w)
    \/ PostYield(w)
    \/ PostDestroy(w)
=============================================================================
