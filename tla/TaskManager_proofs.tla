------------------------- MODULE TaskManager_proofs -------------------------
(***************************************************************************)
(* What holds of TaskManager for every number of workers, tasks and events *)
(* and every ring size. The inductive invariant is built in layers: Ctl    *)
(* (types, and what Run and a thread that runs a task are at), then Sched  *)
(* (the order in which workers start and scan the queues), then the        *)
(* invariants the theorems state.                                          *)
(***************************************************************************)
EXTENDS TaskManager, TLAPS, SequenceTheorems

(* A thread that holds a task has one.                                     *)
CurOK == \A w \in Threads :
    pc[w] \in {"run", "spawned", "post", "mark"} => cur[w] \in Tasks

(* Run constructs and starts the workers in order, worker 0 last.          *)
RunOK ==
    /\ mpc \in {"construct", "start"} => mnext \in Threads
    /\ mpc \in {"push", "interrupt"} => mnext = 0
    /\ mpc = "push" => entrypoints # <<>>

Ctl == TypeOK /\ CurOK /\ RunOK

(* The arithmetic of worker indices the other proofs need: with it they    *)
(* never look inside Threads, Agents or Wrap.                              *)
LEMMA IndexFacts ==
    /\ 0 \in Threads
    /\ 0 \in 0 .. N
    /\ 0 \in 0 .. N + 1
    /\ -1 \in -1 .. N + 1
    /\ 0 \in -1 .. N + 1
    /\ N + 1 \in -1 .. N + 1
    /\ \A i \in Threads : /\ i \in Nat
                           /\ i \in 0 .. N
                           /\ i + 1 \in 0 .. N
                           /\ i + 1 \in -1 .. N + 1
                           /\ Wrap(i + 1) \in Threads
                           /\ Wrap(i + 1) \in 0 .. N
    /\ \A i \in 0 .. N : i < N => i \in Threads /\ i + 1 \in 0 .. N
    /\ Wrap(0 + 1) \in Threads
    /\ Wrap(0 + 1) \in 0 .. N
    /\ \A i \in 0 .. N + 1 : i <= N => i + 1 \in 0 .. N + 1
    /\ \A i \in Threads,
       k \in 0 .. N + 1 : k <= N /\ k # 0 => Wrap(i + k - 1) \in Threads
    /\ Owner \in Agents
    /\ Owner \notin Threads
    /\ \A a \in Agents : a # Owner => a \in Threads
BY WorkerAssumption DEF Threads, Agents, Owner, Wrap

(* QueueTask keeps the rings rings of tasks.                               *)
LEMMA QueueTaskType ==
    ASSUME NEW w \in Threads, NEW t \in Tasks,
           queue \in [Threads -> Seq(Tasks)], dropped \in SUBSET Tasks,
           QueueTask(w, t)
    PROVE  queue' \in [Threads -> Seq(Tasks)] /\ dropped' \in SUBSET Tasks
<1>1. Append(queue[w], t) \in Seq(Tasks)
  BY AppendProperties
<1>2. CASE Len(queue[w]) < QueueSize
  <2>1. queue' = [queue EXCEPT ![w] = Append(queue[w],
        t)] /\ dropped' = dropped
    BY <1>2 DEF QueueTask
  <2>. QED  BY <1>1, <2>1
<1>3. CASE ~(Len(queue[w]) < QueueSize)
  BY <1>3 DEF QueueTask
<1>. QED  BY <1>2, <1>3

(* QueueTask pushes on the ring of its own thread only: the rings are single *)
(* writer.                                                                 *)
LEMMA QueueTaskOthers ==
    ASSUME NEW w \in Threads, NEW t, queue \in [Threads -> Seq(Tasks)],
           QueueTask(w, t)
    PROVE  \A v \in Threads : v # w => queue'[v] = queue[v]
BY DEF QueueTask

(* DequeNextTask finds a task in the queue it looks at, or passes on.      *)
DequeTakes(w) ==
    /\ queue[ScanTarget(w)] # <<>>
    /\ queue' = [queue EXCEPT ![ScanTarget(w)] = Tail(queue[ScanTarget(w)])]
    /\ cur' = [cur EXCEPT ![w] = Head(queue[ScanTarget(w)])]
    /\ tstate' = [tstate EXCEPT ![Head(queue[ScanTarget(w)])] = "Executing"]
    /\ scan' = [scan EXCEPT ![w] = 0]
    /\ pc' = [pc EXCEPT ![w] = "run"]

DequePasses(w) ==
    /\ queue[ScanTarget(w)] = <<>>
    /\ scan' = [scan EXCEPT ![w] = scan[w] + 1]
    /\ UNCHANGED <<queue, cur, tstate, pc>>

(* DequeNextTask takes a task from the queue it looks at, or passes on.    *)
LEMMA DequeCases ==
    ASSUME NEW w \in Threads, DequeNextTask(w)
    PROVE  DequeTakes(w) \/ DequePasses(w)
BY DEF DequeNextTask, DequeTakes, DequePasses, ResumeTask, Goto

(* The index DequeNextTask computes never leaves threads_.                 *)
LEMMA ScanTargetType ==
    ASSUME NEW w \in Threads, scan \in [Threads -> 0 .. N + 1], scan[w] <= N
    PROVE  ScanTarget(w) \in Threads
BY IndexFacts DEF ScanTarget

(* Types, the current task of a thread that runs one, and the order of Run *)
(* are inductive together: entrypoints is not empty when Run pushes, so Head *)
(* and Tail are those of a sequence that has them.                         *)
LEMMA CtlInductive == Spec => []Ctl
<1>1. Init => Ctl
  <2>1. Init => EventTypeOK
    BY DEF Init, EventInit, EventTypeOK, InterestStates
  <2>2. Init => WorkerTypeOK
    <3>1. \A S : <<>> \in Seq(S)
      OBVIOUS
    <3>. QED  BY <3>1, IndexFacts, WorkerAssumption
          DEF Init, WorkerInit, WorkerTypeOK, PCs, TStates
  <2>3. Init => ManagerTypeOK
    BY IndexFacts DEF Init, ManagerTypeOK, MPCs
  <2>4. Init => CurOK /\ RunOK
    BY DEF Init, WorkerInit, CurOK, RunOK
  <2>. QED  BY <2>1, <2>2, <2>3, <2>4 DEF Ctl, TypeOK
<1>2. Ctl /\ [Next]_vars => Ctl'
  <2>. SUFFICES ASSUME Ctl, [Next]_vars PROVE Ctl'
    OBVIOUS
  <2>. USE WorkerAssumption DEF Ctl, CurOK, RunOK, TypeOK, EventTypeOK,
        WorkerTypeOK, ManagerTypeOK, InterestStates, PCs, TStates, MPCs, Goto,
        managerVars, eventVars, workerVars
  <2>1. ASSUME NEW t \in EntryTasks, AddEntryPoint(t)
        PROVE  Ctl'
    BY <2>1 DEF AddEntryPoint
  <2>2. ASSUME RunAllocates
        PROVE  Ctl'
    BY <2>2, IndexFacts DEF RunAllocates, NextWorker
  <2>3. ASSUME ConstructWorker
        PROVE  Ctl'
    BY <2>3, IndexFacts DEF ConstructWorker
  <2>4. ASSUME PushEntryPoint
        PROVE  Ctl'
    <3>1. Head(entrypoints) \in Tasks /\ Tail(entrypoints) \in Seq(Tasks)
      BY <2>4, HeadTailProperties DEF PushEntryPoint
    <3>2. queue' \in [Threads -> Seq(Tasks)] /\ dropped' \in SUBSET Tasks
      BY <2>4, <3>1, IndexFacts, QueueTaskType DEF PushEntryPoint
    <3>. QED  BY <2>4, <3>1, <3>2, IndexFacts DEF PushEntryPoint
  <2>5. ASSUME EntryPointsInterrupt
        PROVE  Ctl'
    BY <2>5, IndexFacts DEF EntryPointsInterrupt, InterruptAll
  <2>6. ASSUME StartWorker
        PROVE  Ctl'
    BY <2>6, IndexFacts DEF StartWorker, NextWorker
  <2>7. ASSUME NEW a \in Agents, StopCalled(a)
        PROVE  Ctl'
    BY <2>7, IndexFacts DEF StopCalled
  <2>8. ASSUME StopTells
        PROVE  Ctl'
    BY <2>8, IndexFacts DEF StopTells
  <2>9. ASSUME StopInterrupts
        PROVE  Ctl'
    BY <2>9, IndexFacts DEF StopInterrupts, InterruptAll
  <2>10. ASSUME NEW w \in Threads, CheckRunning(w), UNCHANGED managerVars
        PROVE  Ctl'
    BY <2>10 DEF CheckRunning
  <2>11. ASSUME NEW w \in Threads, LeaveLoop(w), UNCHANGED managerVars
        PROVE  Ctl'
    BY <2>11 DEF LeaveLoop
  <2>12. ASSUME NEW w \in Threads, WaitDrains(w), UNCHANGED managerVars
        PROVE  Ctl'
    BY <2>12 DEF WaitDrains, DrainWakeup
  <2>13. ASSUME NEW w \in Threads, NEW t \in Tasks, QueueTriggered(w, t),
        UNCHANGED managerVars
        PROVE  Ctl'
    BY <2>13, QueueTaskType DEF QueueTriggered
  <2>14. ASSUME NEW w \in Threads, EventsQueued(w), UNCHANGED managerVars
        PROVE  Ctl'
    BY <2>14 DEF EventsQueued
  <2>15. ASSUME NEW w \in Threads, DequeNextTask(w), UNCHANGED managerVars
        PROVE  Ctl'
    <3>1. CASE DequeTakes(w)
      <4>1. /\ ScanTarget(w) \in Threads
            /\ Head(queue[ScanTarget(w)]) \in Tasks
            /\ Tail(queue[ScanTarget(w)]) \in Seq(Tasks)
        BY <2>15, <3>1, ScanTargetType, HeadTailProperties
           DEF DequeTakes, DequeNextTask
      <4>. QED  BY <2>15, <3>1, <4>1, IndexFacts DEF DequeTakes, DequeNextTask
    <3>2. CASE DequePasses(w)
      <4>1. scan[w] + 1 \in 0 .. N + 1
        BY <2>15, IndexFacts DEF DequeNextTask
      <4>. QED  BY <2>15, <3>2, <4>1 DEF DequePasses, DequeNextTask
    <3>. QED  BY <2>15, <3>1, <3>2, DequeCases
  <2>16. ASSUME NEW w \in Threads, NothingToRun(w), UNCHANGED managerVars
        PROVE  Ctl'
    BY <2>16 DEF NothingToRun
  <2>17. ASSUME NEW w \in Threads, NEW t \in Tasks, PerformAsync(w, t),
        UNCHANGED managerVars
        PROVE  Ctl'
    BY <2>17, QueueTaskType DEF PerformAsync
  <2>18. ASSUME NEW w \in Threads, PerformAsyncInterrupt(w),
        UNCHANGED managerVars
        PROVE  Ctl'
    BY <2>18 DEF PerformAsyncInterrupt, InterruptAll
  <2>19. ASSUME NEW w \in Threads, Yield(w), UNCHANGED managerVars
        PROVE  Ctl'
    BY <2>19 DEF Yield, Suspend
  <2>20. ASSUME NEW w \in Threads, WaitEvent(w), UNCHANGED managerVars
        PROVE  Ctl'
    BY <2>20 DEF WaitEvent, Suspend
  <2>21. ASSUME NEW w \in Threads, Exit(w), UNCHANGED managerVars
        PROVE  Ctl'
    BY <2>21 DEF Exit, Suspend
  <2>22. ASSUME NEW w \in Threads, Return(w), UNCHANGED managerVars
        PROVE  Ctl'
    <3>1. /\ interest' \in [Tasks -> InterestStates]
          /\ isAdded' \in [Tasks -> BOOLEAN]
      BY <2>22 DEF Return, RemoveEvent
    <3>2. UNCHANGED <<running, finished, queue, cur, pending, yield, harvest,
                      scan, tstate, yields, dropped, unarmed, wakeup,
                      managerVars>>
      BY <2>22 DEF Return
    <3>3. pc[w] = "run" /\ pc' = [pc EXCEPT ![w] = "post"]
      BY <2>22 DEF Return
    <3>. QED  BY <3>1, <3>2, <3>3
  <2>23. ASSUME NEW w \in Threads, PostEvent(w), UNCHANGED managerVars
        PROVE  Ctl'
    <3>1. cur[w] \in Tasks
      BY <2>23 DEF PostEvent
    <3>2. interest' \in [Tasks -> InterestStates]
      BY <2>23, <3>1 DEF PostEvent, EpollCtlArm
    <3>3. unarmed' \in SUBSET Tasks
      BY <2>23, <3>1 DEF PostEvent
    <3>4. \/ /\ cur' = [cur EXCEPT ![w] = NoTask]
             /\ pc' = [pc EXCEPT ![w] = "deque"]
          \/ /\ cur' = cur
             /\ pc' = [pc EXCEPT ![w] = "mark"]
      BY <2>23 DEF PostEvent
    <3>5. pending' \in [Threads -> BOOLEAN]
      BY <2>23 DEF PostEvent
    <3>6. /\ cur' \in [Threads -> Tasks \cup {NoTask}]
          /\ pc' \in [Threads -> PCs]
          /\ CurOK'
      <4>1. CASE /\ cur' = [cur EXCEPT ![w] = NoTask]
                 /\ pc' = [pc EXCEPT ![w] = "deque"]
        BY <4>1
      <4>2. CASE cur' = cur /\ pc' = [pc EXCEPT ![w] = "mark"]
        BY <3>1, <4>2
      <4>. QED  BY <3>4, <4>1, <4>2
    <3>7. UNCHANGED <<running, finished, queue, yield, harvest, scan, tstate,
                      yields, dropped, wakeup, isAdded, managerVars>>
      BY <2>23 DEF PostEvent
    <3>. HIDE DEF CurOK
    <3>. QED  BY <3>2, <3>3, <3>5, <3>6, <3>7
  <2>24. ASSUME NEW w \in Threads, PostMark(w), UNCHANGED managerVars
        PROVE  Ctl'
    BY <2>24 DEF PostMark, MarkAdded
  <2>25. ASSUME NEW w \in Threads, PostYield(w), UNCHANGED managerVars
        PROVE  Ctl'
    BY <2>25, QueueTaskType DEF PostYield
  <2>26. ASSUME NEW w \in Threads, PostDestroy(w), UNCHANGED managerVars
        PROVE  Ctl'
    BY <2>26 DEF PostDestroy
  <2>27. ASSUME NEW a \in Agents, StopLook(a)
        PROVE  Ctl'
    <3>1. stopIndex[a] \in Threads /\ stopIndex[a] + 1 \in 0 .. N
      BY <2>27, IndexFacts DEF StopLook
    <3>2. stopIndex' \in [Agents -> 0 .. N]
      BY <2>27, <3>1 DEF StopLook
    <3>3. /\ running' \in [Threads -> BOOLEAN]
          /\ stopSeen' \in [Agents -> BOOLEAN]
      <4>1. \/ UNCHANGED <<running, stopSeen>>
            \/ /\ running' = [running EXCEPT ![stopIndex[a]] = FALSE]
               /\ stopSeen' = [stopSeen EXCEPT ![a] = TRUE]
        BY <2>27 DEF StopLook
      <4>. QED  BY <4>1
    <3>4. UNCHANGED <<pc, finished, queue, cur, pending, yield, harvest, scan,
                      tstate, yields, dropped, unarmed, eventVars, mpc, mnext,
                      entrypoints, stopper, stopOn>>
      BY <2>27 DEF StopLook
    <3>. QED  BY <3>2, <3>3, <3>4
  <2>28. ASSUME NEW a \in Agents, StopRound(a)
        PROVE  Ctl'
    BY <2>28, IndexFacts DEF StopRound, InterruptAll, InStopInternal
  <2>29. ASSUME NEW w \in Threads, ThreadStopped(w)
        PROVE  Ctl'
    BY <2>29 DEF ThreadStopped
  <2>30. ASSUME NEW w \in Threads, NEW H \in SUBSET Tasks, WaitReturns(w, H),
        UNCHANGED managerVars
        PROVE  Ctl'
    BY <2>30 DEF WaitReturns, EpollWait
  <2>31. ASSUME NEW w \in Threads, WaitInterrupted(w), UNCHANGED managerVars
        PROVE  Ctl'
    BY <2>31 DEF WaitInterrupted
  <2>32. ASSUME Destroy
        PROVE  Ctl'
    BY <2>32 DEF Destroy
  <2>33. ASSUME JoinWorker
        PROVE  Ctl'
    BY <2>33, IndexFacts DEF JoinWorker
  <2>34. ASSUME FreeThreads
        PROVE  Ctl'
    BY <2>34 DEF FreeThreads
  <2>35. CASE UNCHANGED vars
    BY <2>35 DEF vars
  <2>. HIDE DEF Ctl, managerVars, eventVars, workerVars
  <2>. QED
    BY <2>1, <2>2, <2>3, <2>4, <2>5, <2>6, <2>7, <2>8, <2>9, <2>10, <2>11,
       <2>12, <2>13, <2>14, <2>15, <2>16, <2>17, <2>18, <2>19, <2>20, <2>21,
       <2>22, <2>23, <2>24, <2>25, <2>26, <2>27, <2>28, <2>29, <2>30, <2>31,
       <2>32, <2>33, <2>34, <2>35 DEF Next, RunStep, WorkerStep, LoopStep,
       TaskStep, PostStep, StopInternalStep, Wakes, DestroyStep, Agents
<1>. QED  BY <1>1, <1>2, PTL DEF Spec

(* Every variable keeps its type, for all constants: in particular every   *)
(* index into threads_ that Run, DequeNextTask, Stop and StopInternal      *)
(* compute stays inside it.                                                *)
THEOREM TypeCorrect == Spec => []TypeOK
<1>1. Ctl => TypeOK
  BY DEF Ctl
<1>. QED  BY <1>1, CtlInductive, PTL

-----------------------------------------------------------------------------
(* Workers are constructed and started in order, worker 0 last.            *)
StartOrder ==
    /\ mpc = "idle" => \A w \in Threads : pc[w] = "raw"
    /\ mpc = "construct" => /\ pc[mnext] = "raw"
                            /\ pc[0] = "raw"
                            /\ mnext # 0 => \A v \in Threads : v >= mnext
                               => pc[v] = "raw"
    /\ mpc = "start" => /\ pc[mnext] = "made"
                        /\ mnext # 0 => /\ pc[0] = "raw"
                                        /\ \A v \in Threads : v > mnext
                                           => pc[v] = "raw"
    /\ mpc \in {"push", "interrupt"} => pc[0] = "made"

(* A worker that looks at the other queues has found its own empty, and    *)
(* nobody but itself adds to it.                                           *)
ScanOrder == \A w \in Threads :
    /\ pc[w] # "deque" => scan[w] = 0
    /\ pc[w] = "deque" /\ scan[w] # 0 => queue[w] = <<>>
    /\ pc[w] = "raw" => queue[w] = <<>>

Sched == StartOrder /\ ScanOrder

(* The order in which Run starts the workers and the progress of every     *)
(* scan are invariant; the types and RunOK are needed to know which worker *)
(* Run is at.                                                              *)
LEMMA SchedInductive == Spec => []Sched
<1>1. Init => Sched
  BY DEF Init, WorkerInit, Sched, StartOrder, ScanOrder
<1>2. Ctl /\ Sched /\ [Next]_vars => Sched'
  <2>. SUFFICES ASSUME Ctl, Sched, [Next]_vars PROVE Sched'
    OBVIOUS
  <2>. USE WorkerAssumption DEF Ctl, RunOK, TypeOK, WorkerTypeOK,
        ManagerTypeOK, Sched, StartOrder, ScanOrder, Goto, managerVars,
        eventVars, workerVars
  <2>1. ASSUME NEW t \in EntryTasks, AddEntryPoint(t)
        PROVE  Sched'
    BY <2>1 DEF AddEntryPoint
  <2>2. ASSUME RunAllocates
        PROVE  Sched'
    BY <2>2, IndexFacts DEF RunAllocates, NextWorker, Wrap, Threads
  <2>3. ASSUME ConstructWorker
        PROVE  Sched'
    <3>1. mnext \in Threads /\ pc[mnext] = "raw" /\ queue' = queue
          /\ scan' = scan
      BY <2>3 DEF ConstructWorker
    <3>2. pc' = [pc EXCEPT ![mnext] = "made"] /\ mnext' = mnext
          /\ mpc' \in {"push", "start"}
      BY <2>3 DEF ConstructWorker
    <3>3. mpc' = "push" => mnext = 0
      BY <2>3 DEF ConstructWorker
    <3>4. ScanOrder'
      BY <3>1, <3>2
    <3>5. CASE mnext = 0
      BY <3>1, <3>2, <3>4, <3>5
    <3>6. CASE mnext # 0
      <4>1. mpc' = "start" /\ pc[0] = "raw"
            /\ \A v \in Threads : v >= mnext => pc[v] = "raw"
        BY <2>3, <3>2, <3>3, <3>6 DEF ConstructWorker
      <4>2. \A v \in Threads : v > mnext => v # mnext /\ v >= mnext
        BY <3>1 DEF Threads
      <4>3. 0 \in Threads
        BY IndexFacts
      <4>. QED  BY <3>1, <3>2, <3>4, <3>6, <4>1, <4>2, <4>3
    <3>. QED  BY <3>4, <3>5, <3>6
  <2>4. ASSUME PushEntryPoint
        PROVE  Sched'
    BY <2>4, IndexFacts DEF PushEntryPoint, QueueTask
  <2>5. ASSUME EntryPointsInterrupt
        PROVE  Sched'
    BY <2>5 DEF EntryPointsInterrupt
  <2>6. ASSUME StartWorker
        PROVE  Sched'
    <3>1. mnext \in Threads /\ pc' = [pc EXCEPT ![mnext] = "check"]
          /\ pc[mnext] = "made"
      BY <2>6 DEF StartWorker
    <3>2. ScanOrder'
      BY <2>6, <3>1 DEF StartWorker
    <3>3. CASE mnext = 0
      BY <2>6, <3>1, <3>2, <3>3 DEF StartWorker
    <3>4. CASE mnext # 0
      <4>1. mpc' = "construct" /\ mnext' = Wrap(mnext + 1)
        BY <2>6, <3>4 DEF StartWorker, NextWorker
      <4>2. mnext' = 0 \/ mnext' = mnext + 1
        BY <3>1, <4>1 DEF Wrap, Threads
      <4>3. pc[0] = "raw" /\ \A v \in Threads : v > mnext => pc[v] = "raw"
        BY <2>6, <3>4 DEF StartWorker
      <4>4. mnext' \in Threads
        BY <3>1, <4>1, IndexFacts
      <4>5. 0 \in Threads /\ mnext + 1 > mnext
            /\ \A v \in Threads : v >= mnext + 1 => v > mnext
        BY <3>1, IndexFacts DEF Threads
      <4>6. \A v \in Threads : v # mnext => pc'[v] = pc[v]
        BY <3>1
      <4>7. pc'[0] = "raw"
        BY <3>4, <4>3, <4>5, <4>6
      <4>8. mnext' # 0 => \A v \in Threads : v >= mnext' => pc'[v] = "raw"
        BY <3>1, <4>2, <4>3, <4>5, <4>6 DEF Threads
      <4>9. pc'[mnext'] = "raw"
        BY <4>4, <4>7, <4>8 DEF Threads
      <4>10. StartOrder'
        BY <4>1, <4>7, <4>8, <4>9
      <4>. QED  BY <3>2, <4>10
    <3>. QED  BY <3>3, <3>4
  <2>7. ASSUME NEW a \in Agents, StopCalled(a)
        PROVE  Sched'
    BY <2>7 DEF StopCalled
  <2>8. ASSUME StopTells
        PROVE  Sched'
    BY <2>8 DEF StopTells
  <2>9. ASSUME StopInterrupts
        PROVE  Sched'
    BY <2>9 DEF StopInterrupts
  <2>10. ASSUME NEW w \in Threads, CheckRunning(w), UNCHANGED managerVars
        PROVE  Sched'
    BY <2>10 DEF CheckRunning
  <2>11. ASSUME NEW w \in Threads, LeaveLoop(w), UNCHANGED managerVars
        PROVE  Sched'
    <3>1. /\ pc[w] = "check" /\ pc' = [pc EXCEPT ![w] = "stopping"]
          /\ UNCHANGED <<queue, scan, mpc, mnext>>
      BY <2>11 DEF LeaveLoop
    <3>2. StartOrder'
      BY <3>1
    <3>3. ScanOrder'
      BY <3>1
    <3>. QED  BY <3>2, <3>3
  <2>12. ASSUME NEW w \in Threads, WaitDrains(w), UNCHANGED managerVars
        PROVE  Sched'
    BY <2>12 DEF WaitDrains
  <2>13. ASSUME NEW w \in Threads, NEW t \in Tasks, QueueTriggered(w, t),
        UNCHANGED managerVars
        PROVE  Sched'
    BY <2>13 DEF QueueTriggered, QueueTask
  <2>14. ASSUME NEW w \in Threads, EventsQueued(w), UNCHANGED managerVars
        PROVE  Sched'
    BY <2>14 DEF EventsQueued
  <2>15. ASSUME NEW w \in Threads, DequeNextTask(w), UNCHANGED managerVars
        PROVE  Sched'
    <3>1. ScanTarget(w) \in Threads
      BY <2>15, ScanTargetType DEF DequeNextTask
    <3>2. CASE DequeTakes(w)
      <4>1. /\ pc' = [pc EXCEPT ![w] = "run"]
            /\ scan' = [scan EXCEPT ![w] = 0]
            /\ queue[ScanTarget(w)] # <<>>
            /\ \A v \in Threads : v # ScanTarget(w) => queue'[v] = queue[v]
            /\ pc[w] = "deque"
        BY <2>15, <3>1, <3>2 DEF DequeTakes, DequeNextTask
      <4>2. ScanOrder'
        BY <3>1, <4>1
      <4>3. StartOrder'
        BY <2>15, <4>1
      <4>. QED  BY <4>2, <4>3
    <3>3. CASE DequePasses(w)
      <4>1. scan[w] = 0 => queue[w] = <<>>
        BY <3>3 DEF DequePasses, ScanTarget
      <4>. QED  BY <2>15, <3>3, <4>1 DEF DequePasses, DequeNextTask
    <3>. QED  BY <2>15, <3>2, <3>3, DequeCases
  <2>16. ASSUME NEW w \in Threads, NothingToRun(w), UNCHANGED managerVars
        PROVE  Sched'
    BY <2>16 DEF NothingToRun
  <2>17. ASSUME NEW w \in Threads, NEW t \in Tasks, PerformAsync(w, t),
        UNCHANGED managerVars
        PROVE  Sched'
    <3>1. \A v \in Threads : v # w => queue'[v] = queue[v]
      BY <2>17, QueueTaskOthers DEF PerformAsync
    <3>2. ScanOrder'
      BY <2>17, <3>1 DEF PerformAsync
    <3>3. StartOrder'
      BY <2>17 DEF PerformAsync
    <3>. QED  BY <3>2, <3>3
  <2>18. ASSUME NEW w \in Threads, PerformAsyncInterrupt(w),
        UNCHANGED managerVars
        PROVE  Sched'
    BY <2>18 DEF PerformAsyncInterrupt
  <2>19. ASSUME NEW w \in Threads, Yield(w), UNCHANGED managerVars
        PROVE  Sched'
    BY <2>19 DEF Yield
  <2>20. ASSUME NEW w \in Threads, WaitEvent(w), UNCHANGED managerVars
        PROVE  Sched'
    BY <2>20 DEF WaitEvent
  <2>21. ASSUME NEW w \in Threads, Exit(w), UNCHANGED managerVars
        PROVE  Sched'
    BY <2>21 DEF Exit
  <2>22. ASSUME NEW w \in Threads, Return(w), UNCHANGED managerVars
        PROVE  Sched'
    BY <2>22 DEF Return
  <2>23. ASSUME NEW w \in Threads, PostEvent(w), UNCHANGED managerVars
        PROVE  Sched'
    <3>1. pc' = [pc EXCEPT ![w] = "deque"] \/ pc' = [pc EXCEPT ![w] = "mark"]
      BY <2>23 DEF PostEvent
    <3>2. ScanOrder'
      BY <2>23, <3>1 DEF PostEvent
    <3>3. \A v \in Threads : pc[v] \in {"raw", "made"} => pc'[v] = pc[v]
      BY <2>23, <3>1 DEF PostEvent
    <3>4. StartOrder'
      BY <2>23, <3>3, IndexFacts
    <3>. QED  BY <3>2, <3>4
  <2>24. ASSUME NEW w \in Threads, PostMark(w), UNCHANGED managerVars
        PROVE  Sched'
    BY <2>24 DEF PostMark
  <2>25. ASSUME NEW w \in Threads, PostYield(w), UNCHANGED managerVars
        PROVE  Sched'
    <3>1. \A v \in Threads : v # w => queue'[v] = queue[v]
      BY <2>25, QueueTaskOthers DEF PostYield
    <3>2. ScanOrder'
      BY <2>25, <3>1 DEF PostYield
    <3>3. StartOrder'
      BY <2>25 DEF PostYield
    <3>. QED  BY <3>2, <3>3
  <2>26. ASSUME NEW w \in Threads, PostDestroy(w), UNCHANGED managerVars
        PROVE  Sched'
    BY <2>26 DEF PostDestroy
  <2>27. ASSUME NEW a \in Agents, StopLook(a)
        PROVE  Sched'
    BY <2>27 DEF StopLook
  <2>28. ASSUME NEW a \in Agents, StopRound(a)
        PROVE  Sched'
    <3>1. pc' = pc \/ (a \in Threads /\ pc[a] = "stopping"
          /\ pc' = [pc EXCEPT ![a] = "hook"])
      BY <2>28, IndexFacts DEF StopRound, InStopInternal
    <3>2. mpc' = mpc \/ mpc' = "join"
      BY <2>28 DEF StopRound
    <3>. QED  BY <2>28, <3>1, <3>2 DEF StopRound
  <2>29. ASSUME NEW w \in Threads, ThreadStopped(w)
        PROVE  Sched'
    BY <2>29 DEF ThreadStopped
  <2>30. ASSUME NEW w \in Threads, NEW H \in SUBSET Tasks, WaitReturns(w, H),
        UNCHANGED managerVars
        PROVE  Sched'
    BY <2>30 DEF WaitReturns
  <2>31. ASSUME NEW w \in Threads, WaitInterrupted(w), UNCHANGED managerVars
        PROVE  Sched'
    BY <2>31 DEF WaitInterrupted
  <2>32. ASSUME Destroy
        PROVE  Sched'
    BY <2>32 DEF Destroy
  <2>33. ASSUME JoinWorker
        PROVE  Sched'
    BY <2>33 DEF JoinWorker
  <2>34. ASSUME FreeThreads
        PROVE  Sched'
    BY <2>34 DEF FreeThreads
  <2>35. CASE UNCHANGED vars
    BY <2>35 DEF vars
  <2>. HIDE DEF Sched, managerVars, eventVars, workerVars
  <2>. QED
    BY <2>1, <2>2, <2>3, <2>4, <2>5, <2>6, <2>7, <2>8, <2>9, <2>10, <2>11,
       <2>12, <2>13, <2>14, <2>15, <2>16, <2>17, <2>18, <2>19, <2>20, <2>21,
       <2>22, <2>23, <2>24, <2>25, <2>26, <2>27, <2>28, <2>29, <2>30, <2>31,
       <2>32, <2>33, <2>34, <2>35 DEF Next, RunStep, WorkerStep, LoopStep,
       TaskStep, PostStep, StopInternalStep, Wakes, DestroyStep, Agents
<1>. QED  BY <1>1, <1>2, CtlInductive, PTL DEF Spec

-----------------------------------------------------------------------------
(* A step of worker w that strands no work: nothing but w itself changes,  *)
(* it stays awake while its queue holds a task, it does not pass the queue *)
(* of worker 0 by, and who takes the wakeup looks at that queue.           *)
LocalTo(w) ==
    /\ \A v \in Threads : v # w => /\ pc'[v] = pc[v]
                                   /\ scan'[v] = scan[v]
                                   /\ queue[v] = <<>> => queue'[v] = <<>>
    /\ running'[0] => running[0]
    /\ mpc \in {"push", "interrupt"} => mpc' \in {"push",
       "interrupt"} \/ wakeup'

KeepsWork(w) ==
    /\ LocalTo(w)
    /\ queue'[w] # <<>> => Awake(w)' \/ (queue[w] # <<>> /\ ~Awake(w))
    /\ WillLookAtFirst(w) => WillLookAtFirst(w)' \/ queue'[0] = <<>>
    /\ wakeup => wakeup' \/ WillLookAtFirst(w)'

(* A worker that is awake after its step, and has the queue of worker 0    *)
(* still before it, strands nothing.                                       *)
LEMMA AwakeKeepsWork ==
    ASSUME NEW w \in Threads, LocalTo(w), Awake(w)', WillLookAtFirst(w)'
    PROVE  KeepsWork(w)
<1>1. queue'[w] # <<>> => Awake(w)' \/ (queue[w] # <<>> /\ ~Awake(w))
  <2>1. Awake(w)'
    OBVIOUS
  <2>. QED  BY <2>1, Zenon
<1>. QED  BY <1>1, Zenon DEF KeepsWork

(* A step that keeps the work of its worker preserves NoStrandedWork.      *)
LEMMA KeepsStranded ==
    ASSUME NoStrandedWork, NEW w \in Threads, KeepsWork(w)
    PROVE  NoStrandedWork'
<1>. SUFFICES ASSUME NEW v \in Threads, queue'[v] # <<>>, ~Awake(v)'
              PROVE  v = 0 /\ \/ wakeup'
                              \/ mpc' \in {"push", "interrupt"}
                              \/ \E u \in Threads : WillLookAtFirst(u)'
                              \/ ~running'[0]
  BY DEF NoStrandedWork
<1>1. \A u \in Threads : u # w => /\ Awake(u)' <=> Awake(u)
                                  /\ WillLookAtFirst(u)' <=> WillLookAtFirst(u)
  BY DEF KeepsWork, LocalTo, Awake, WillLookAtFirst
<1>2. queue[v] # <<>> /\ ~Awake(v)
  BY <1>1 DEF KeepsWork, LocalTo
<1>. QED  BY <1>1, <1>2 DEF KeepsWork, LocalTo, NoStrandedWork

(* Given where Run and every scan are, no step strands work: one case for  *)
(* each action.                                                            *)
LEMMA NoStrandedWorkInductive == Ctl /\ Sched /\ NoStrandedWork
   /\ [Next]_vars => NoStrandedWork'
<1>. SUFFICES ASSUME Ctl, Sched, NoStrandedWork,
      [Next]_vars PROVE NoStrandedWork'
  OBVIOUS
<1>1. [Next]_vars => NoStrandedWork'
  <2>. USE DEF Ctl, TypeOK, WorkerTypeOK, Sched, Goto, managerVars, eventVars,
        workerVars
  <2>1. ASSUME NEW t \in EntryTasks, AddEntryPoint(t)
        PROVE  NoStrandedWork'
    <3>1. /\ UNCHANGED <<queue, pc, scan>>
          /\ wakeup => wakeup'
          /\ running'[0] => running[0]
          /\ mpc \in {"push", "interrupt"} => mpc' \in {"push",
             "interrupt"} \/ wakeup'
      BY <2>1 DEF AddEntryPoint
    <3>. QED  BY <3>1 DEF NoStrandedWork, Awake, WillLookAtFirst
  <2>2. ASSUME RunAllocates
        PROVE  NoStrandedWork'
    <3>1. /\ UNCHANGED <<queue, pc, scan>>
          /\ wakeup => wakeup'
          /\ running'[0] => running[0]
          /\ mpc \in {"push", "interrupt"} => mpc' \in {"push",
             "interrupt"} \/ wakeup'
      BY <2>2 DEF RunAllocates
    <3>. QED  BY <3>1 DEF NoStrandedWork, Awake, WillLookAtFirst
  <2>3. ASSUME ConstructWorker
        PROVE  NoStrandedWork'
    <3>1. mnext \in Threads /\ pc[mnext] = "raw" /\ queue[mnext] = <<>>
      BY <2>3 DEF ConstructWorker, RunOK, StartOrder, ScanOrder
    <3>2. pc' = [pc EXCEPT ![mnext] = "made"]
          /\ running' = [running EXCEPT ![mnext] = TRUE]
          /\ UNCHANGED <<queue, scan, wakeup>> /\ mpc = "construct"
      BY <2>3 DEF ConstructWorker
    <3>3. \A v \in Threads : /\ Awake(v) => Awake(v)'
                             /\ WillLookAtFirst(v) => WillLookAtFirst(v)'
      BY <3>1, <3>2 DEF Awake, WillLookAtFirst
    <3>4. \A v \in Threads : queue'[v] # <<>> => queue[v] # <<>> /\ v # mnext
      BY <3>1, <3>2
    <3>5. mnext # 0 => running'[0] = running[0]
      BY <3>1, <3>2, IndexFacts
    <3>. QED  BY <3>2, <3>3, <3>4, <3>5 DEF NoStrandedWork
  <2>4. ASSUME PushEntryPoint
        PROVE  NoStrandedWork'
    <3>1. \A v \in Threads : v # 0 => queue'[v] = queue[v]
      BY <2>4, QueueTaskOthers, IndexFacts DEF PushEntryPoint
    <3>2. mpc' \in {"push", "interrupt"} /\ UNCHANGED <<pc, scan>>
      BY <2>4 DEF PushEntryPoint
    <3>. QED  BY <3>1, <3>2 DEF NoStrandedWork, Awake, WillLookAtFirst
  <2>5. ASSUME EntryPointsInterrupt
        PROVE  NoStrandedWork'
    <3>1. /\ UNCHANGED <<queue, pc, scan>>
          /\ wakeup => wakeup'
          /\ running'[0] => running[0]
          /\ mpc \in {"push", "interrupt"} => mpc' \in {"push",
             "interrupt"} \/ wakeup'
      BY <2>5 DEF EntryPointsInterrupt, InterruptAll
    <3>. QED  BY <3>1 DEF NoStrandedWork, Awake, WillLookAtFirst
  <2>6. ASSUME StartWorker
        PROVE  NoStrandedWork'
    <3>1. mnext \in Threads /\ pc[mnext] = "made"
          /\ pc' = [pc EXCEPT ![mnext] = "check"]
          /\ UNCHANGED <<queue, scan, wakeup, running>> /\ mpc = "start"
      BY <2>6 DEF StartWorker, RunOK, StartOrder
    <3>2. LocalTo(mnext) /\ UNCHANGED <<wakeup, queue>>
      BY <3>1 DEF LocalTo
    <3>3. ~Awake(mnext) /\ ~WillLookAtFirst(mnext)
      BY <3>1 DEF Awake, WillLookAtFirst
    <3>4. KeepsWork(mnext)
      BY <3>2, <3>3, Zenon DEF KeepsWork
    <3>. QED  BY <3>1, <3>4, KeepsStranded
  <2>7. ASSUME NEW a \in Agents, StopCalled(a)
        PROVE  NoStrandedWork'
    <3>1. /\ UNCHANGED <<queue, pc, scan>>
          /\ wakeup => wakeup'
          /\ running'[0] => running[0]
          /\ mpc \in {"push", "interrupt"} => mpc' \in {"push",
             "interrupt"} \/ wakeup'
      BY <2>7 DEF StopCalled
    <3>. QED  BY <3>1 DEF NoStrandedWork, Awake, WillLookAtFirst
  <2>8. ASSUME StopTells
        PROVE  NoStrandedWork'
    <3>1. /\ UNCHANGED <<queue, pc, scan>>
          /\ wakeup => wakeup'
          /\ running'[0] => running[0]
          /\ mpc \in {"push", "interrupt"} => mpc' \in {"push",
             "interrupt"} \/ wakeup'
      BY <2>8, IndexFacts DEF StopTells
    <3>. QED  BY <3>1 DEF NoStrandedWork, Awake, WillLookAtFirst
  <2>9. ASSUME StopInterrupts
        PROVE  NoStrandedWork'
    <3>1. /\ UNCHANGED <<queue, pc, scan>>
          /\ wakeup => wakeup'
          /\ running'[0] => running[0]
          /\ mpc \in {"push", "interrupt"} => mpc' \in {"push",
             "interrupt"} \/ wakeup'
      BY <2>9 DEF StopInterrupts, InterruptAll
    <3>. QED  BY <3>1 DEF NoStrandedWork, Awake, WillLookAtFirst
  <2>10. ASSUME NEW w \in Threads, CheckRunning(w), UNCHANGED managerVars
        PROVE  NoStrandedWork'
    <3>1. LocalTo(w) /\ UNCHANGED <<wakeup, queue>>
      BY <2>10 DEF CheckRunning, LocalTo
    <3>2. ~Awake(w) /\ ~WillLookAtFirst(w)
      BY <2>10 DEF CheckRunning, Awake, WillLookAtFirst
    <3>3. KeepsWork(w)
      BY <3>1, <3>2, Zenon DEF KeepsWork
    <3>. QED  BY <3>3, KeepsStranded
  <2>11. ASSUME NEW w \in Threads, LeaveLoop(w), UNCHANGED managerVars
        PROVE  NoStrandedWork'
    <3>1. LocalTo(w) /\ UNCHANGED <<wakeup, queue>>
      BY <2>11 DEF LeaveLoop, LocalTo
    <3>2. ~Awake(w) /\ ~WillLookAtFirst(w)
      BY <2>11 DEF LeaveLoop, Awake, WillLookAtFirst
    <3>3. KeepsWork(w)
      BY <3>1, <3>2, Zenon DEF KeepsWork
    <3>. QED  BY <3>3, KeepsStranded
  <2>12. ASSUME NEW w \in Threads, WaitDrains(w), UNCHANGED managerVars
        PROVE  NoStrandedWork'
    <3>1. Awake(w)' /\ WillLookAtFirst(w)'
      BY <2>12 DEF WaitDrains, ScanOrder, Awake, WillLookAtFirst
    <3>2. LocalTo(w)
      BY <2>12 DEF WaitDrains, DrainWakeup, LocalTo
    <3>. QED  BY <3>1, <3>2, AwakeKeepsWork, KeepsStranded
  <2>13. ASSUME NEW w \in Threads, NEW t \in Tasks, QueueTriggered(w, t),
        UNCHANGED managerVars
        PROVE  NoStrandedWork'
    <3>1. \A v \in Threads : v # w => queue'[v] = queue[v]
      BY <2>13, QueueTaskOthers DEF QueueTriggered
    <3>2. Awake(w)' /\ WillLookAtFirst(w)'
      BY <2>13 DEF QueueTriggered, ScanOrder, Awake, WillLookAtFirst
    <3>3. LocalTo(w)
      BY <2>13, <3>1 DEF QueueTriggered, LocalTo
    <3>. QED  BY <3>2, <3>3, AwakeKeepsWork, KeepsStranded
  <2>14. ASSUME NEW w \in Threads, EventsQueued(w), UNCHANGED managerVars
        PROVE  NoStrandedWork'
    <3>1. Awake(w)' /\ WillLookAtFirst(w)'
      BY <2>14 DEF EventsQueued, ScanOrder, Awake, WillLookAtFirst
    <3>2. LocalTo(w)
      BY <2>14 DEF EventsQueued, LocalTo
    <3>. QED  BY <3>1, <3>2, AwakeKeepsWork, KeepsStranded
  <2>15. ASSUME NEW w \in Threads, DequeNextTask(w), UNCHANGED managerVars
        PROVE  NoStrandedWork'
    <3>1. ScanTarget(w) \in Threads /\ 0 \in Threads
      BY <2>15, ScanTargetType, IndexFacts DEF DequeNextTask
    <3>2. CASE DequeTakes(w)
      <4>1. \A v \in Threads : queue[v] = <<>> => queue'[v] = <<>>
        BY <3>1, <3>2 DEF DequeTakes
      <4>2. Awake(w)' /\ WillLookAtFirst(w)'
        BY <3>2 DEF DequeTakes, Awake, WillLookAtFirst
      <4>3. LocalTo(w)
        BY <2>15, <3>1, <3>2, <4>1 DEF DequeTakes, DequeNextTask, LocalTo
      <4>. QED  BY <4>2, <4>3, AwakeKeepsWork, KeepsStranded
    <3>3. CASE DequePasses(w)
      <4>1. /\ pc[w] = "deque" /\ pc' = pc /\ queue' = queue
            /\ scan[w] \in 0 .. N /\ scan'[w] = scan[w] + 1
            /\ queue[ScanTarget(w)] = <<>>
        BY <2>15, <3>3 DEF DequePasses, DequeNextTask
      <4>2. ScanTarget(w) # 0 /\ WillLookAtFirst(w) => WillLookAtFirst(w)'
        <5>1. w \in Int /\ N \in Int /\ scan[w] \in Int /\ 0 <= w /\ w < N
          BY <4>1, WorkerAssumption DEF Threads
        <5>2. CASE scan[w] = 0
          BY <4>1, <5>1, <5>2 DEF WillLookAtFirst, Awake, ScanTarget
        <5>3. CASE scan[w] # 0
          <6>1. ScanTarget(w) = Wrap(w + scan[w] - 1)
            BY <5>3 DEF ScanTarget
          <6>2. WillLookAtFirst(w) => \/ w = 0 /\ scan[w] = 1
                                      \/ w # 0 /\ w + scan[w] - 1 <= N
            BY <4>1, <5>3 DEF WillLookAtFirst
          <6>3. ScanTarget(w) # 0 /\ WillLookAtFirst(w) => w # 0
                /\ w + scan'[w] - 1 <= N
            BY <4>1, <5>1, <6>1, <6>2 DEF Wrap
          <6>. QED  BY <4>1, <6>3 DEF WillLookAtFirst, Awake
        <5>. QED  BY <5>2, <5>3
      <4>3. Awake(w) /\ Awake(w)'
        BY <4>1 DEF Awake
      <4>4. LocalTo(w) /\ wakeup' = wakeup
        BY <2>15, <3>3, <4>1 DEF DequePasses, DequeNextTask, LocalTo
      <4>5. WillLookAtFirst(w) => WillLookAtFirst(w)' \/ queue'[0] = <<>>
        BY <4>1, <4>2
      <4>6. queue'[w] # <<>> => Awake(w)' \/ (queue[w] # <<>> /\ ~Awake(w))
        BY <4>3, Zenon
      <4>7. KeepsWork(w)
        BY <4>4, <4>5, <4>6 DEF KeepsWork
      <4>. QED  BY <4>7, KeepsStranded
    <3>. QED  BY <2>15, <3>2, <3>3, DequeCases
  <2>16. ASSUME NEW w \in Threads, NothingToRun(w), UNCHANGED managerVars
        PROVE  NoStrandedWork'
    <3>1. queue[w] = <<>> /\ ~WillLookAtFirst(w)
      BY <2>16, WorkerAssumption DEF NothingToRun, ScanOrder, WillLookAtFirst,
         Threads
    <3>2. LocalTo(w) /\ UNCHANGED <<wakeup, queue>>
      BY <2>16 DEF NothingToRun, LocalTo
    <3>3. KeepsWork(w)
      BY <3>1, <3>2 DEF KeepsWork
    <3>. QED  BY <3>3, KeepsStranded
  <2>17. ASSUME NEW w \in Threads, NEW t \in Tasks, PerformAsync(w, t),
        UNCHANGED managerVars
        PROVE  NoStrandedWork'
    <3>1. \A v \in Threads : v # w => queue'[v] = queue[v]
      BY <2>17, QueueTaskOthers DEF PerformAsync
    <3>2. Awake(w)' /\ WillLookAtFirst(w)'
      BY <2>17 DEF PerformAsync, ScanOrder, Awake, WillLookAtFirst
    <3>3. LocalTo(w)
      BY <2>17, <3>1 DEF PerformAsync, LocalTo
    <3>. QED  BY <3>2, <3>3, AwakeKeepsWork, KeepsStranded
  <2>18. ASSUME NEW w \in Threads, PerformAsyncInterrupt(w),
        UNCHANGED managerVars
        PROVE  NoStrandedWork'
    <3>1. Awake(w)' /\ WillLookAtFirst(w)'
      BY <2>18 DEF PerformAsyncInterrupt, ScanOrder, Awake, WillLookAtFirst
    <3>2. LocalTo(w)
      BY <2>18 DEF PerformAsyncInterrupt, InterruptAll, LocalTo
    <3>. QED  BY <3>1, <3>2, AwakeKeepsWork, KeepsStranded
  <2>19. ASSUME NEW w \in Threads, Yield(w), UNCHANGED managerVars
        PROVE  NoStrandedWork'
    <3>1. Awake(w)' /\ WillLookAtFirst(w)'
      BY <2>19 DEF Yield, ScanOrder, Awake, WillLookAtFirst
    <3>2. LocalTo(w)
      BY <2>19 DEF Yield, LocalTo
    <3>. QED  BY <3>1, <3>2, AwakeKeepsWork, KeepsStranded
  <2>20. ASSUME NEW w \in Threads, WaitEvent(w), UNCHANGED managerVars
        PROVE  NoStrandedWork'
    <3>1. Awake(w)' /\ WillLookAtFirst(w)'
      BY <2>20 DEF WaitEvent, ScanOrder, Awake, WillLookAtFirst
    <3>2. LocalTo(w)
      BY <2>20 DEF WaitEvent, LocalTo
    <3>. QED  BY <3>1, <3>2, AwakeKeepsWork, KeepsStranded
  <2>21. ASSUME NEW w \in Threads, Exit(w), UNCHANGED managerVars
        PROVE  NoStrandedWork'
    <3>1. Awake(w)' /\ WillLookAtFirst(w)'
      BY <2>21 DEF Exit, ScanOrder, Awake, WillLookAtFirst
    <3>2. LocalTo(w)
      BY <2>21, IndexFacts DEF Exit, LocalTo
    <3>. QED  BY <3>1, <3>2, AwakeKeepsWork, KeepsStranded
  <2>22. ASSUME NEW w \in Threads, Return(w), UNCHANGED managerVars
        PROVE  NoStrandedWork'
    <3>1. Awake(w)' /\ WillLookAtFirst(w)'
      BY <2>22 DEF Return, ScanOrder, Awake, WillLookAtFirst
    <3>2. LocalTo(w)
      BY <2>22 DEF Return, LocalTo
    <3>. QED  BY <3>1, <3>2, AwakeKeepsWork, KeepsStranded
  <2>23. ASSUME NEW w \in Threads, PostEvent(w), UNCHANGED managerVars
        PROVE  NoStrandedWork'
    <3>1. pc' = [pc EXCEPT ![w] = "deque"] \/ pc' = [pc EXCEPT ![w] = "mark"]
      BY <2>23 DEF PostEvent
    <3>2. Awake(w)' /\ WillLookAtFirst(w)'
      BY <2>23, <3>1 DEF PostEvent, ScanOrder, Awake, WillLookAtFirst
    <3>3. LocalTo(w)
      BY <2>23, <3>1 DEF PostEvent, LocalTo
    <3>. QED  BY <3>2, <3>3, AwakeKeepsWork, KeepsStranded
  <2>24. ASSUME NEW w \in Threads, PostMark(w), UNCHANGED managerVars
        PROVE  NoStrandedWork'
    <3>1. Awake(w)' /\ WillLookAtFirst(w)'
      BY <2>24 DEF PostMark, ScanOrder, Awake, WillLookAtFirst
    <3>2. LocalTo(w)
      BY <2>24 DEF PostMark, LocalTo
    <3>. QED  BY <3>1, <3>2, AwakeKeepsWork, KeepsStranded
  <2>25. ASSUME NEW w \in Threads, PostYield(w), UNCHANGED managerVars
        PROVE  NoStrandedWork'
    <3>1. \A v \in Threads : v # w => queue'[v] = queue[v]
      BY <2>25, QueueTaskOthers DEF PostYield
    <3>2. Awake(w)' /\ WillLookAtFirst(w)'
      BY <2>25 DEF PostYield, ScanOrder, Awake, WillLookAtFirst
    <3>3. LocalTo(w)
      BY <2>25, <3>1 DEF PostYield, LocalTo
    <3>. QED  BY <3>2, <3>3, AwakeKeepsWork, KeepsStranded
  <2>26. ASSUME NEW w \in Threads, PostDestroy(w), UNCHANGED managerVars
        PROVE  NoStrandedWork'
    <3>1. Awake(w)' /\ WillLookAtFirst(w)'
      BY <2>26 DEF PostDestroy, ScanOrder, Awake, WillLookAtFirst
    <3>2. LocalTo(w)
      BY <2>26 DEF PostDestroy, LocalTo
    <3>. QED  BY <3>1, <3>2, AwakeKeepsWork, KeepsStranded
  <2>27. ASSUME NEW a \in Agents, StopLook(a)
        PROVE  NoStrandedWork'
    <3>1. /\ UNCHANGED <<queue, pc, scan>>
          /\ wakeup => wakeup'
          /\ running'[0] => running[0]
          /\ mpc \in {"push", "interrupt"} => mpc' \in {"push",
             "interrupt"} \/ wakeup'
      BY <2>27, IndexFacts DEF StopLook, InStopInternal
    <3>. QED  BY <3>1 DEF NoStrandedWork, Awake, WillLookAtFirst
  <2>28. ASSUME NEW a \in Agents, StopRound(a)
        PROVE  NoStrandedWork'
    <3>1. pc' = pc \/ (a \in Threads /\ pc[a] = "stopping"
          /\ pc' = [pc EXCEPT ![a] = "hook"])
      BY <2>28, IndexFacts DEF StopRound, InStopInternal
    <3>2. \A v \in Threads : /\ Awake(v) => Awake(v)'
                             /\ WillLookAtFirst(v) => WillLookAtFirst(v)'
      BY <2>28, <3>1 DEF StopRound, Awake, WillLookAtFirst
    <3>3. wakeup' /\ queue' = queue
      BY <2>28 DEF StopRound, InterruptAll
    <3>. QED  BY <3>2, <3>3 DEF NoStrandedWork
  <2>29. ASSUME NEW w \in Threads, ThreadStopped(w)
        PROVE  NoStrandedWork'
    <3>1. LocalTo(w) /\ UNCHANGED <<wakeup, queue>>
      BY <2>29 DEF ThreadStopped, LocalTo
    <3>2. ~Awake(w) /\ ~WillLookAtFirst(w)
      BY <2>29 DEF ThreadStopped, Awake, WillLookAtFirst
    <3>3. KeepsWork(w)
      BY <3>1, <3>2, Zenon DEF KeepsWork
    <3>. QED  BY <3>3, KeepsStranded
  <2>30. ASSUME NEW w \in Threads, NEW H \in SUBSET Tasks, WaitReturns(w, H),
        UNCHANGED managerVars
        PROVE  NoStrandedWork'
    <3>1. Awake(w)' /\ WillLookAtFirst(w)'
      BY <2>30 DEF WaitReturns, ScanOrder, Awake, WillLookAtFirst
    <3>2. LocalTo(w)
      BY <2>30 DEF WaitReturns, EpollWait, LocalTo
    <3>. QED  BY <3>1, <3>2, AwakeKeepsWork, KeepsStranded
  <2>31. ASSUME NEW w \in Threads, WaitInterrupted(w), UNCHANGED managerVars
        PROVE  NoStrandedWork'
    <3>1. Awake(w)' /\ WillLookAtFirst(w)'
      BY <2>31 DEF WaitInterrupted, ScanOrder, Awake, WillLookAtFirst
    <3>2. LocalTo(w)
      BY <2>31 DEF WaitInterrupted, LocalTo
    <3>. QED  BY <3>1, <3>2, AwakeKeepsWork, KeepsStranded
  <2>32. ASSUME Destroy
        PROVE  NoStrandedWork'
    <3>1. /\ UNCHANGED <<queue, pc, scan>>
          /\ wakeup => wakeup'
          /\ running'[0] => running[0]
          /\ mpc \in {"push", "interrupt"} => mpc' \in {"push",
             "interrupt"} \/ wakeup'
      BY <2>32 DEF Destroy
    <3>. QED  BY <3>1 DEF NoStrandedWork, Awake, WillLookAtFirst
  <2>33. ASSUME JoinWorker
        PROVE  NoStrandedWork'
    <3>1. /\ UNCHANGED <<queue, pc, scan>>
          /\ wakeup => wakeup'
          /\ running'[0] => running[0]
          /\ mpc \in {"push", "interrupt"} => mpc' \in {"push",
             "interrupt"} \/ wakeup'
      BY <2>33 DEF JoinWorker
    <3>. QED  BY <3>1 DEF NoStrandedWork, Awake, WillLookAtFirst
  <2>34. ASSUME FreeThreads
        PROVE  NoStrandedWork'
    <3>1. /\ UNCHANGED <<queue, pc, scan>>
          /\ wakeup => wakeup'
          /\ running'[0] => running[0]
          /\ mpc \in {"push", "interrupt"} => mpc' \in {"push",
             "interrupt"} \/ wakeup'
      BY <2>34 DEF FreeThreads
    <3>. QED  BY <3>1 DEF NoStrandedWork, Awake, WillLookAtFirst
  <2>35. CASE UNCHANGED vars
    BY <2>35 DEF vars, NoStrandedWork, Awake, WillLookAtFirst
  <2>. HIDE DEF Ctl, Sched, managerVars, eventVars, workerVars
  <2>. QED
    BY <2>1, <2>2, <2>3, <2>4, <2>5, <2>6, <2>7, <2>8, <2>9, <2>10, <2>11,
       <2>12, <2>13, <2>14, <2>15, <2>16, <2>17, <2>18, <2>19, <2>20, <2>21,
       <2>22, <2>23, <2>24, <2>25, <2>26, <2>27, <2>28, <2>29, <2>30, <2>31,
       <2>32, <2>33, <2>34, <2>35 DEF Next, RunStep, WorkerStep, LoopStep,
       TaskStep, PostStep, StopInternalStep, Wakes, DestroyStep, Agents
<1>. QED  BY <1>1

(* No wakeup is lost, for any number of workers and tasks, any ring size and *)
(* any order of events, steals, signals and interrupts: a queue that holds a *)
(* task has a thread awake for it (ThreadProc, DequeNextTask, Run).        *)
THEOREM WakeupNotLost == Spec => []NoStrandedWork
<1>1. Init => NoStrandedWork
  BY DEF Init, WorkerInit, NoStrandedWork
<1>. QED  BY <1>1, NoStrandedWorkInductive, CtlInductive, SchedInductive,
      PTL DEF Spec
=============================================================================
