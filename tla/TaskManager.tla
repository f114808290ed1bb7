----------------------------- MODULE TaskManager -----------------------------
(***************************************************************************)
(* TaskManager (task/task_manager.cc) over its worker threads and the      *)
(* event queue: AddEntryPoint, Run, Stop, the StopInternal that every      *)
(* worker and the destructor execute, and the destructor itself.           *)
(*                                                                         *)
(* Actors: the workers 0 .. N-1; the thread that calls Run and later       *)
(* destroys the manager (Owner); and whoever calls Stop (the exit handler  *)
(* of main.cc, from a signal).                                             *)
(***************************************************************************)
EXTENDS WorkerThread

CONSTANT Takeover   \* takeover_current_thread_: Run itself runs worker 0

ASSUME TakeoverAssumption == Takeover \in BOOLEAN

Owner  == N
Agents == Threads \cup {Owner}   \* who executes StopInternal

VARIABLES
    mpc,         \* where the owner's thread is
    mnext,       \* the worker Run constructs or starts, or ~TaskManager joins
    entrypoints, \* entrypoints_
    stopIndex,   \* StopInternal: the worker each agent looks at next
    stopSeen,    \* StopInternal: num_running > 0 in this round
    stopper,     \* Stop: -1 not called, the next worker to tell, N + 1 done
    stopOn       \* the thread whose signal handler executes Stop, or -1

managerVars == <<mpc, mnext, entrypoints, stopIndex, stopSeen, stopper,
                 stopOn>>
vars == <<eventVars, workerVars, managerVars>>

MPCs == {"idle", "construct", "start", "push", "interrupt", "running",
         "stopping", "join", "freed"}

ManagerTypeOK ==
    /\ mpc \in MPCs
    /\ mnext \in 0 .. N
    /\ entrypoints \in Seq(Tasks)
    /\ stopIndex \in [Agents -> 0 .. N]
    /\ stopSeen \in [Agents -> BOOLEAN]
    /\ stopper \in -1 .. N + 1
    /\ stopOn \in Agents \cup {-1}

(* The types of all the state of the event queue, the workers and the      *)
(* manager; in particular the indices of DequeNextTask and StopInternal    *)
(* never leave threads_.                                                   *)
TypeOK == EventTypeOK /\ WorkerTypeOK /\ ManagerTypeOK

Init ==
    /\ EventInit
    /\ WorkerInit
    /\ mpc = "idle"
    /\ mnext = 0
    /\ entrypoints = <<>>
    /\ stopIndex = [a \in Agents |-> 0]
    /\ stopSeen = [a \in Agents |-> FALSE]
    /\ stopper = -1
    /\ stopOn = -1

-----------------------------------------------------------------------------
(* Run.                                                                    *)

(* AddEntryPoint, only before Run.                                         *)
AddEntryPoint(t) ==
    /\ mpc = "idle"
    /\ t \in EntryTasks
    /\ tstate[t] = "Unborn"
    /\ tstate' = [tstate EXCEPT ![t] = "NotStarted"]
    /\ entrypoints' = Append(entrypoints, t)
    /\ UNCHANGED <<pc, running, finished, queue, cur, pending, yield, harvest,
                   scan, yields, dropped, unarmed, eventVars, mpc, mnext,
                   stopIndex, stopSeen, stopper, stopOn>>

(* Fault: the index is not brought back to worker 0.                       *)
NextWorkerUnwrapped(i) == i + 1

(* Run constructs workers 1 .. N-1 and then worker 0.                      *)
NextWorker(i) == Wrap(i + 1)

(* before_start hook and the allocation of threads_.                       *)
RunAllocates ==
    /\ mpc = "idle"
    /\ mpc' = "construct"
    /\ mnext' = NextWorker(0)
    /\ UNCHANGED <<eventVars, workerVars, entrypoints, stopIndex, stopSeen,
                   stopper, stopOn>>

(* The constructor of WorkerThread: running_ is set whatever Stop has      *)
(* stored there. Worker 0 goes on to take the entry points.                *)
ConstructWorker ==
    /\ mpc = "construct"
    /\ running' = [running EXCEPT ![mnext] = TRUE]
    /\ finished' = [finished EXCEPT ![mnext] = FALSE]
    /\ Goto(mnext, "made")
    /\ mpc' = IF mnext = 0 /\ entrypoints # <<>> THEN "push" ELSE "start"
    /\ UNCHANGED <<queue, cur, pending, yield, harvest, scan, tstate, yields,
                   dropped, unarmed, eventVars, mnext, entrypoints, stopIndex,
                   stopSeen, stopper, stopOn>>

PushEntryPoint ==
    /\ mpc = "push"
    /\ QueueTask(0, Head(entrypoints))
    /\ entrypoints' = Tail(entrypoints)
    /\ mpc' = IF Tail(entrypoints) = <<>> THEN "interrupt" ELSE "push"
    /\ UNCHANGED <<pc, running, finished, cur, pending, yield, harvest, scan,
                   tstate, yields, unarmed, eventVars, mnext, stopIndex,
                   stopSeen, stopper, stopOn>>

(* Fault: the entry points are queued and nobody is interrupted.           *)
EntryPointsSilent ==
    /\ mpc = "interrupt"
    /\ mpc' = "start"
    /\ UNCHANGED <<eventVars, workerVars, mnext, entrypoints, stopIndex,
                   stopSeen, stopper, stopOn>>

EntryPointsInterrupt ==
    /\ mpc = "interrupt"
    /\ InterruptAll
    /\ mpc' = "start"
    /\ UNCHANGED <<interest, isAdded, workerVars, mnext, entrypoints,
                   stopIndex, stopSeen, stopper, stopOn>>

(* before_thread_start hook and Start. Worker 0 comes last and, when it    *)
(* takes the current thread over, runs inside Run.                         *)
StartWorker ==
    /\ mpc = "start"
    /\ Goto(mnext, "check")
    /\ mpc' = IF mnext = 0 THEN "running" ELSE "construct"
    /\ mnext' = IF mnext = 0 THEN 0 ELSE NextWorker(mnext)
    /\ UNCHANGED <<running, finished, queue, cur, pending, yield, harvest,
                   scan, tstate, yields, dropped, unarmed, eventVars,
                   entrypoints, stopIndex, stopSeen, stopper, stopOn>>

-----------------------------------------------------------------------------
(* Stop.                                                                   *)

(* A thread that can be interrupted by the signal: any that exists, the    *)
(* owner's being that of worker 0 while Run executes it.                   *)
Interruptible(a) ==
    IF a = Owner THEN Takeover /\ mpc = "running" => pc[0] = "done"
    ELSE /\ pc[a] \notin {"raw", "made"}
         /\ pc[a] = "done" => /\ mpc = "join" => mnext <= a
                              /\ Takeover => a # 0

(* Stop asserts IsRunning: threads_ is allocated, though not every worker  *)
(* in it need be constructed, or exist still. The exit handler calls it    *)
(* once; the thread it interrupts does nothing else meanwhile.             *)
StopCalled(a) ==
    /\ stopper = -1
    /\ mpc \notin {"idle", "freed"}
    /\ Interruptible(a)
    /\ EarlySignal \/ AllConstructed
    /\ stopper' = 0
    /\ stopOn' = a
    /\ UNCHANGED <<eventVars, workerVars, mpc, mnext, entrypoints, stopIndex,
                   stopSeen>>

StopTells ==
    /\ stopper \in Threads
    /\ running' = [running EXCEPT ![stopper] = FALSE]
    /\ stopper' = stopper + 1
    /\ UNCHANGED <<pc, finished, queue, cur, pending, yield, harvest, scan,
                   tstate, yields, dropped, unarmed, eventVars, mpc, mnext,
                   entrypoints, stopIndex, stopSeen, stopOn>>

StopInterrupts ==
    /\ stopper = N
    /\ InterruptAll
    /\ stopper' = N + 1
    /\ stopOn' = -1
    /\ UNCHANGED <<interest, isAdded, workerVars, mpc, mnext, entrypoints,
                   stopIndex, stopSeen>>

-----------------------------------------------------------------------------
(* StopInternal, executed by a worker that left its loop and by the owner. *)

InStopInternal(a) == IF a = Owner THEN mpc = "stopping" ELSE pc[a] = "stopping"

(* Fault: a worker told to stop is taken for one that has finished.        *)
StopLookAtRunning(a) ==
    /\ InStopInternal(a)
    /\ stopIndex[a] < N
    /\ running' = [running EXCEPT ![stopIndex[a]] = FALSE]
    /\ stopSeen' = [stopSeen EXCEPT ![a] = @ \/ running[stopIndex[a]]]
    /\ stopIndex' = [stopIndex EXCEPT ![a] = @ + 1]
    /\ UNCHANGED <<pc, finished, queue, cur, pending, yield, harvest, scan,
                   tstate, yields, dropped, unarmed, eventVars, mpc, mnext,
                   entrypoints, stopper, stopOn>>

(* Fault: StopInternal waits for the others and does not tell them.        *)
StopLookOnly(a) ==
    /\ InStopInternal(a)
    /\ stopIndex[a] < N
    /\ stopSeen' = [stopSeen EXCEPT ![a] = @ \/ ~finished[stopIndex[a]]]
    /\ stopIndex' = [stopIndex EXCEPT ![a] = @ + 1]
    /\ UNCHANGED <<eventVars, workerVars, mpc, mnext, entrypoints, stopper,
                   stopOn>>

StopLook(a) ==
    /\ InStopInternal(a)
    /\ stopIndex[a] < N
    /\ LET v == stopIndex[a] IN
         IF finished[v]
         THEN UNCHANGED <<running, stopSeen>>
         ELSE /\ running' = [running EXCEPT ![v] = FALSE]
              /\ stopSeen' = [stopSeen EXCEPT ![a] = TRUE]
    /\ stopIndex' = [stopIndex EXCEPT ![a] = @ + 1]
    /\ UNCHANGED <<pc, finished, queue, cur, pending, yield, harvest, scan,
                   tstate, yields, dropped, unarmed, eventVars, mpc, mnext,
                   entrypoints, stopper, stopOn>>

(* Fault: StopInternal relies on the interrupt Stop has sent.              *)
StopRoundSilent(a) ==
    /\ InStopInternal(a)
    /\ stopIndex[a] = N
    /\ stopIndex' = [stopIndex EXCEPT ![a] = 0]
    /\ stopSeen' = [stopSeen EXCEPT ![a] = FALSE]
    /\ pc' = IF a # Owner /\ ~stopSeen[a]
             THEN [pc EXCEPT ![a] = "hook"] ELSE pc
    /\ mpc' = IF a = Owner /\ ~stopSeen[a] THEN "join" ELSE mpc
    /\ UNCHANGED <<running, finished, queue, cur, pending, yield, harvest,
                   scan, tstate, yields, dropped, unarmed, eventVars, mnext,
                   entrypoints, stopper, stopOn>>

(* The end of a round: InterruptAll, yield, and another round while        *)
(* num_running > 0.                                                        *)
StopRound(a) ==
    /\ InStopInternal(a)
    /\ stopIndex[a] = N
    /\ InterruptAll
    /\ stopIndex' = [stopIndex EXCEPT ![a] = 0]
    /\ stopSeen' = [stopSeen EXCEPT ![a] = FALSE]
    /\ pc' = IF a # Owner /\ ~stopSeen[a]
             THEN [pc EXCEPT ![a] = "hook"] ELSE pc
    /\ mpc' = IF a = Owner /\ ~stopSeen[a] THEN "join" ELSE mpc
    /\ UNCHANGED <<running, finished, queue, cur, pending, yield, harvest,
                   scan, tstate, yields, dropped, unarmed, interest, isAdded,
                   mnext, entrypoints, stopper, stopOn>>

(* after_thread_stop hook; ThreadProc returns.                             *)
ThreadStopped(w) ==
    /\ pc[w] = "hook"
    /\ Goto(w, "done")
    /\ UNCHANGED <<running, finished, queue, cur, pending, yield, harvest,
                   scan, tstate, yields, dropped, unarmed, eventVars,
                   managerVars>>

(* ~TaskManager: StopInternal, then each worker is joined and destroyed,   *)
(* then threads_ is freed. With Takeover Run must first have returned.     *)
Destroy ==
    /\ mpc = "running"
    /\ Takeover => pc[0] = "done"
    /\ mpc' = "stopping"
    /\ UNCHANGED <<eventVars, workerVars, mnext, entrypoints, stopIndex,
                   stopSeen, stopper, stopOn>>

JoinWorker ==
    /\ mpc = "join"
    /\ mnext < N
    /\ pc[mnext] = "done" /\ stopOn # mnext
    /\ mnext' = mnext + 1
    /\ UNCHANGED <<eventVars, workerVars, mpc, entrypoints, stopIndex,
                   stopSeen, stopper, stopOn>>

FreeThreads ==
    /\ mpc = "join"
    /\ mnext = N
    /\ mpc' = "freed"
    /\ UNCHANGED <<eventVars, workerVars, mnext, entrypoints, stopIndex,
                   stopSeen, stopper, stopOn>>

-----------------------------------------------------------------------------
RunStep ==
    /\ stopOn # Owner
    /\ \/ RunAllocates
       \/ ConstructWorker
       \/ PushEntryPoint
       \/ EntryPointsInterrupt
       \/ StartWorker

StopInternalStep(a) == StopLook(a) \/ StopRound(a)

WorkerStep(w) ==
    /\ stopOn # w
    /\ \/ LoopStep(w) /\ UNCHANGED managerVars
       \/ TaskStep(w) /\ UNCHANGED managerVars
       \/ PostStep(w) /\ UNCHANGED managerVars
       \/ StopInternalStep(w)
       \/ ThreadStopped(w)

Wakes(w) ==
    /\ stopOn # w
    /\ \E H \in SUBSET Tasks : WaitReturns(w, H) /\ UNCHANGED managerVars

DestroyStep ==
    /\ stopOn # Owner
    /\ \/ Destroy
       \/ StopInternalStep(Owner)
       \/ JoinWorker
       \/ FreeThreads

Next ==
    \/ \E t \in EntryTasks : AddEntryPoint(t)
    \/ RunStep
    \/ \E a \in Agents : StopCalled(a)
    \/ StopTells
    \/ StopInterrupts
    \/ \E w \in Threads :
          \/ WorkerStep(w)
          \/ Wakes(w)
          \/ stopOn # w /\ WaitInterrupted(w) /\ UNCHANGED managerVars
    \/ DestroyStep

(* Threads run: every thread that can take a step of its own takes it, and *)
(* a Stop that has begun goes on. A thread blocked in epoll_wait is only   *)
(* sure to return while the eventfd is set; nothing makes a socket ready,  *)
(* a signal arrive or anybody call Stop. A manager that takes no thread    *)
(* over is destroyed at a moment of its owner's choosing.                  *)
Fairness ==
    /\ WF_vars(RunStep)
    /\ WF_vars(StopTells \/ StopInterrupts)
    /\ \A w \in Threads : WF_vars(WorkerStep(w)) /\ WF_vars(wakeup /\ Wakes(w))
    /\ WF_vars(DestroyStep /\ (Takeover \/ mpc # "running"))

Spec == Init /\ [][Next]_vars

FairSpec == Spec /\ Fairness

-----------------------------------------------------------------------------
(* Properties.                                                             *)

InSeq(x, s) == \E i \in 1 .. Len(s) : s[i] = x

Injective(s) == \A i, j \in 1 .. Len(s) : s[i] = s[j] => i = j

(* Where a task can be held: by a worker (in its queue, among the events   *)
(* it has harvested, or on its thread, executing or not handed on yet) or  *)
(* by the manager (watched by epoll, or an entry point before Run). After  *)
(* epoll_ctl the task belongs to epoll, although current_task_ still names *)
(* it while is_added_ is stored (pc "mark").                               *)
Kinds == {"queue", "harvest", "thread", "epoll", "entry"}

Holds(kind, a, t) ==
    \/ kind = "queue"   /\ a \in Threads /\ InSeq(t, queue[a])
    \/ kind = "harvest" /\ a \in Threads /\ t \in harvest[a]
    \/ kind = "thread"  /\ a \in Threads /\ cur[a] = t
                        /\ pc[a] \in {"run", "spawned", "post"}
    \/ kind = "epoll"   /\ a = Owner /\ interest[t] = "armed"
    \/ kind = "entry"   /\ a = Owner /\ InSeq(t, entrypoints)

Places(t) == {p \in Kinds \X Agents : Holds(p[1], p[2], t)}

(* No task is ever held twice, in two places or twice by one queue: two    *)
(* threads never resume the same fiber, whatever order events, steals,     *)
(* yields and signals come in.                                             *)
OnePlace ==
    /\ \A t \in Tasks : Cardinality(Places(t)) <= 1
    /\ \A w \in Threads : Injective(queue[w])
    /\ Injective(entrypoints)

(* The assertion of ThreadProc on the task it takes, true wherever a task  *)
(* waits: it is not executing anywhere and has not been destroyed.         *)
HeldIsResumable ==
    \A t \in Tasks : (\E p \in Places(t) : p[1] # "thread") =>
        tstate[t] \in {"NotStarted", "Suspended"}

(* A task that was handed to the manager and is not destroyed is held      *)
(* somewhere, unless a full ring or a failed epoll_ctl lost it.            *)
Accounted ==
    \A t \in Tasks \ (dropped \cup unarmed) :
        tstate[t] \in {"NotStarted", "Executing", "Suspended"} =>
            Places(t) # {}

Awake(w) ==
    pc[w] \in {"drain", "events", "deque", "run", "spawned", "post", "mark"}

(* w looks at the queue of worker 0 before it waits again.                 *)
WillLookAtFirst(w) ==
    /\ Awake(w)
    /\ pc[w] = "deque" => \/ scan[w] = 0
                          \/ w = 0 /\ scan[w] = 1
                          \/ w # 0 /\ w + scan[w] - 1 <= N

(* No lost wakeup. A worker whose queue holds a task is awake. Worker 0,   *)
(* which is given the entry points before it runs, may not be: then the    *)
(* eventfd is set or about to be, or another worker is going to look at    *)
(* that queue, or worker 0 was told to stop before it ever did.            *)
NoStrandedWork ==
    \A v \in Threads : queue[v] # <<>> =>
        \/ Awake(v)
        \/ v = 0 /\ \/ wakeup
                    \/ mpc \in {"push", "interrupt"}
                    \/ \E w \in Threads : WillLookAtFirst(w)
                    \/ ~running[0]

(* No thread looks at the queue, or at the flags, of a worker that is not  *)
(* constructed yet: Run starts worker 1 before worker 0 exists.            *)
NoRawAccess ==
    \A w \in Threads :
        /\ pc[w] = "deque" /\ scan[w] <= N => pc[ScanTarget(w)] # "raw"
        /\ pc[w] = "stopping" => AllConstructed

(* The destructor destroys a worker, its ring included, only when the      *)
(* worker's thread has returned and no other can steal from it any more:   *)
(* what still looks at a destroyed worker is StopInternal, which finds it  *)
(* finished and stores nothing, and a Stop that has begun, which stores    *)
(* running_. threads_ and the event queue go only when no thread executes  *)
(* either any more. (A Stop that begins even later is Main's subject.)     *)
DestroyIsSafe ==
    /\ mpc \in {"join", "freed"} =>
          /\ \A w \in Threads :
                finished[w] /\ pc[w] \in {"stopping", "hook", "done"}
          /\ \A w \in 0 .. mnext - 1 : pc[w] = "done" /\ stopOn # w
    /\ mpc = "freed" => \A a \in Agents : ~InStopInternal(a) /\ stopOn # a

(* A worker that once said it is finished stays finished, and the          *)
(* after_thread_stop hook, which destroys the thread's user data, runs     *)
(* only when no worker can execute a task any more.                        *)
HookAfterAllFinished ==
    \A w \in Threads :
        pc[w] \in {"hook", "done"} => \A v \in Threads : finished[v]

(* Whenever signals come, the destructor destroys a worker only when what  *)
(* its thread or another could do with it is over, but for the accesses    *)
(* that DestroyIsSafe names. If no signal comes before every worker is     *)
(* constructed, nobody uses a worker before it exists either, nor the user *)
(* data of a thread after its hook.                                        *)
StopInv ==
    /\ DestroyIsSafe
    /\ EarlySignal \/ (NoRawAccess /\ HookAfterAllFinished)

(* Once every worker is constructed and none is to run on, they all stop   *)
(* and the manager goes away: one interrupt wakes one thread, and that one *)
(* keeps interrupting the others.                                          *)
StoppedTerminates ==
    (AllConstructed /\ \A w \in Threads : ~running[w]) ~>
        \A w \in Threads : pc[w] = "done"

(* A task that exits its thread stops the whole manager, unless events     *)
(* keep coming for ever: the worker that is to stop may go on stealing the *)
(* tasks the others wake.                                                  *)
ExitTerminates ==
    <>[](\A w \in Threads : harvest[w] = {}) =>
        ((\E w \in Threads : pc[w] # "raw" /\ ~running[w]) ~>
            \A w \in Threads : pc[w] = "done")

(* A queued task leaves its queue, unless worker 0 is stopped first.       *)
QueuedIsTaken ==
    \A t \in Tasks : (\E w \in Threads : InSeq(t, queue[w])) ~>
        (\A w \in Threads : ~InSeq(t, queue[w])) \/ ~running[0]
=============================================================================
