------------------------ MODULE TaskLifecycle_proofs ------------------------
(***************************************************************************)
(* What TaskManager promises about the life of its workers and of its      *)
(* tasks, for every number of either: nobody uses a worker before it       *)
(* exists or after it is gone, and a task is in one place, resumable where *)
(* it waits, and not lost.                                                 *)
(***************************************************************************)
EXTENDS TaskManager_proofs, FiniteSetTheorems

(* Run constructs 1 .. N - 1, then 0; once it has started that one, all     *)
(* workers exist.                                                          *)
BuiltInOrder ==
    /\ mpc \in {"construct", "start", "push", "interrupt"} =>
          \A v \in Threads : v # 0 /\ (mnext = 0 \/ v < mnext) => pc[v] # "raw"
    /\ mpc \in {"running", "stopping", "join", "freed"} => AllConstructed

(* finished_ says of a worker that it has left its loop.                   *)
Stopped == {"stopping", "hook", "done"}

FinishedOK ==
    \A w \in Threads : pc[w] # "raw" =>
        /\ finished[w] => pc[w] \in Stopped
        /\ pc[w] \in Stopped => finished[w]

(* A round of StopInternal that has seen nobody running has found the      *)
(* workers it looked at finished; a round begins at worker 0.              *)
RoundOK(a) ==
    /\ InStopInternal(a) /\ ~stopSeen[a] =>
          \A v \in Threads : v < stopIndex[a] => finished[v]
    /\ ~InStopInternal(a) => stopIndex[a] = 0 /\ ~stopSeen[a]

(* What the owner has found out when it joins and frees. A worker that was *)
(* joined has no thread that a signal could interrupt.                     *)
Dismantled ==
    /\ mpc \in {"running", "stopping"} => mnext = 0
    /\ mpc \in {"join", "freed"} =>
          /\ \A v \in Threads : finished[v]
          /\ \A v \in Threads : v < mnext => pc[v] = "done" /\ stopOn # v
    /\ mpc = "freed" => mnext = N /\ stopOn # Owner

(* What holds of the end of the manager, whenever signals arrive.          *)
Teardown == BuiltInOrder /\ FinishedOK /\ RoundOK(Owner) /\ Dismantled

(* While Run constructs workers, no signal has arrived, nothing is watched *)
(* by epoll and nobody has been woken: the workers that were started are   *)
(* at the top of their loop.                                               *)
Boot ==
    ~AllConstructed =>
        /\ stopper = -1
        /\ ~wakeup
        /\ \A t \in Tasks : interest[t] # "armed"
        /\ \A w \in Threads : /\ pc[w] \in {"raw", "made", "check", "wait"}
                              /\ pc[w] # "raw" => running[w]
        /\ mpc \in {"idle", "construct", "start"}

Rounds == \A a \in Agents : RoundOK(a)

(* What holds besides when no signal arrives while Run constructs workers. *)
Lifecycle == Boot /\ Rounds /\ HookAfterAllFinished

-----------------------------------------------------------------------------
(* A step of an awake thread that does not leave the loop: whatever else it *)
(* does, it moves that thread inside the loop, and neither finished_ nor   *)
(* the manager changes.                                                    *)
WorksOn(w) ==
    /\ Awake(w)
    /\ \E l \in {"check", "events", "deque", "run", "spawned", "post",
                 "mark"} : pc' = [pc EXCEPT ![w] = l]
    /\ UNCHANGED <<finished, managerVars>>

(* What a thread does between Wait and the top of its loop, task included, *)
(* is a step inside the loop.                                              *)
LEMMA InsideTheLoop ==
    ASSUME Ctl, NEW w \in Threads, UNCHANGED managerVars,
           \/ WaitDrains(w)
           \/ \E t \in Tasks : QueueTriggered(w, t)
           \/ EventsQueued(w)
           \/ DequeNextTask(w)
           \/ NothingToRun(w)
           \/ TaskStep(w)
           \/ PostStep(w)
    PROVE  WorksOn(w)
<1>1. pc \in [Threads -> PCs]
  BY DEF Ctl, TypeOK, WorkerTypeOK
<1>. USE DEF WorksOn, Awake, Goto
<1>2. CASE WaitDrains(w)
  BY <1>2 DEF WaitDrains
<1>3. ASSUME NEW t \in Tasks, QueueTriggered(w, t) PROVE WorksOn(w)
  <2>1. pc' = [pc EXCEPT ![w] = "events"]
    BY <1>1, <1>3 DEF QueueTriggered
  <2>. QED  BY <1>3, <2>1 DEF QueueTriggered
<1>4. CASE EventsQueued(w)
  BY <1>4 DEF EventsQueued
<1>5. CASE DequeNextTask(w)
  <2>1. pc' = [pc EXCEPT ![w] = "run"] \/ pc' = [pc EXCEPT ![w] = "deque"]
    BY <1>1, <1>5, DequeCases DEF DequeTakes, DequePasses, DequeNextTask
  <2>. QED  BY <1>5, <2>1 DEF DequeNextTask
<1>6. CASE NothingToRun(w)
  BY <1>6 DEF NothingToRun
<1>7. ASSUME NEW t \in Tasks, PerformAsync(w, t) PROVE WorksOn(w)
  BY <1>7 DEF PerformAsync
<1>8. CASE PerformAsyncInterrupt(w)
  BY <1>8 DEF PerformAsyncInterrupt
<1>9. CASE Yield(w)
  BY <1>9 DEF Yield
<1>10. CASE WaitEvent(w)
  BY <1>10 DEF WaitEvent
<1>11. CASE Exit(w)
  BY <1>11 DEF Exit
<1>12. CASE Return(w)
  BY <1>12 DEF Return
<1>13. CASE PostEvent(w)
  <2>1. pc' = [pc EXCEPT ![w] = "mark"] \/ pc' = [pc EXCEPT ![w] = "deque"]
    BY <1>13 DEF PostEvent
  <2>. QED  BY <1>13, <2>1 DEF PostEvent
<1>14. CASE PostMark(w)
  BY <1>14 DEF PostMark
<1>15. CASE PostYield(w)
  BY <1>15 DEF PostYield
<1>16. CASE PostDestroy(w)
  BY <1>16 DEF PostDestroy
<1>. HIDE DEF WorksOn, Awake, Goto
<1>. QED
  BY <1>2, <1>3, <1>4, <1>5, <1>6, <1>7, <1>8, <1>9, <1>10, <1>11, <1>12,
     <1>13, <1>14, <1>15, <1>16
     DEF TaskStep, PostStep

(* A step of a worker that exists, inside its loop or after it.            *)
Progresses(w) ==
    /\ pc[w] \notin {"raw", "done"}
    /\ \E l \in PCs : /\ l # "raw"
                      /\ l \in Stopped <=> pc[w] \in Stopped
                      /\ pc' = [pc EXCEPT ![w] = l]
    /\ stopIndex'[Owner] = stopIndex[Owner]
    /\ stopSeen'[Owner] = stopSeen[Owner]
    /\ UNCHANGED <<finished, mpc, mnext, stopOn>>

(* All steps of a worker but the one that leaves the loop.                 *)
LEMMA WorkerProgresses ==
    ASSUME Ctl, NEW w \in Threads,
           \/ /\ UNCHANGED managerVars
              /\ \/ CheckRunning(w) \/ WaitInterrupted(w) \/ WorksOn(w)
                 \/ \E H \in SUBSET Tasks : WaitReturns(w, H)
           \/ StopLook(w) \/ StopRound(w) \/ ThreadStopped(w)
    PROVE  Progresses(w)
<1>0. /\ pc \in [Threads -> PCs]
      /\ stopIndex \in [Agents -> 0 .. N] /\ stopSeen \in [Agents -> BOOLEAN]
      /\ w # Owner /\ w \in Agents /\ Owner \in Agents
  BY IndexFacts DEF Ctl, TypeOK, WorkerTypeOK, ManagerTypeOK, Agents
<1>. USE DEF Progresses, Stopped, PCs
<1>1. CASE CheckRunning(w) /\ UNCHANGED managerVars
  BY <1>0, <1>1 DEF CheckRunning, managerVars, Goto
<1>2. CASE WaitInterrupted(w) /\ UNCHANGED managerVars
  BY <1>0, <1>2 DEF WaitInterrupted, managerVars, Goto
<1>3. CASE WorksOn(w)
  BY <1>0, <1>3 DEF WorksOn, Awake, managerVars
<1>4. ASSUME NEW H \in SUBSET Tasks, WaitReturns(w, H), UNCHANGED managerVars
      PROVE  Progresses(w)
  BY <1>0, <1>4 DEF WaitReturns, managerVars, Goto
<1>5. CASE StopLook(w)
  <2>1. /\ pc[w] = "stopping" /\ UNCHANGED <<pc, finished, mpc, mnext, stopOn>>
        /\ stopIndex' = [stopIndex EXCEPT ![w] = @ + 1]
        /\ stopSeen' = stopSeen \/ stopSeen' = [stopSeen EXCEPT ![w] = TRUE]
    BY <1>0, <1>5 DEF StopLook, InStopInternal
  <2>2. pc' = [pc EXCEPT ![w] = "stopping"]
    BY <1>0, <2>1
  <2>. QED  BY <1>0, <2>1, <2>2
<1>6. CASE StopRound(w)
  <2>1. /\ pc[w] = "stopping" /\ UNCHANGED <<finished, mpc, mnext, stopOn>>
        /\ stopIndex' = [stopIndex EXCEPT ![w] = 0]
        /\ stopSeen' = [stopSeen EXCEPT ![w] = FALSE]
        /\ pc' = [pc EXCEPT ![w] = "hook"] \/ pc' = pc
    BY <1>0, <1>6 DEF StopRound, InStopInternal
  <2>2. pc' = pc => pc' = [pc EXCEPT ![w] = "stopping"]
    BY <1>0, <2>1
  <2>. QED  BY <1>0, <2>1, <2>2
<1>7. CASE ThreadStopped(w)
  BY <1>0, <1>7 DEF ThreadStopped, managerVars, Goto
<1>. QED  BY <1>1, <1>2, <1>3, <1>4, <1>5, <1>6, <1>7 DEF WorksOn

(* Every step keeps Teardown.                                              *)
LEMMA TeardownStep ==
    ASSUME Ctl, Sched, Teardown, [Next]_vars
    PROVE  Teardown'
<1>0. /\ pc \in [Threads -> PCs]
      /\ finished \in [Threads -> BOOLEAN]
      /\ stopIndex \in [Agents -> 0 .. N]
      /\ stopSeen \in [Agents -> BOOLEAN]
      /\ mnext \in 0 .. N
      /\ Owner \in Agents /\ Owner \notin Threads
      /\ RunOK /\ StartOrder
      /\ BuiltInOrder /\ FinishedOK /\ RoundOK(Owner) /\ Dismantled
  BY IndexFacts DEF Ctl, TypeOK, WorkerTypeOK, ManagerTypeOK, Sched,
     Teardown, Agents
<1>. USE DEF InStopInternal
(* Nobody moves, and Run or the owner is where it was.                     *)
<1>1. ASSUME UNCHANGED <<pc, finished, stopIndex, stopSeen, mpc, mnext, stopOn>>
      PROVE  Teardown'
  BY <1>1 DEF Teardown, BuiltInOrder, AllConstructed, FinishedOK, RoundOK,
     Dismantled
<1>2. ASSUME NEW t \in EntryTasks, AddEntryPoint(t) PROVE Teardown'
  BY <1>1, <1>2 DEF AddEntryPoint
<1>3. ASSUME RunAllocates PROVE Teardown'
  <2>1. BuiltInOrder'
    BY <1>0, <1>3, WorkerAssumption DEF RunAllocates, NextWorker, Wrap,
       BuiltInOrder, Threads, workerVars
  <2>2. FinishedOK' /\ RoundOK(Owner)' /\ Dismantled'
    BY <1>0, <1>3 DEF RunAllocates, FinishedOK, RoundOK, Dismantled, workerVars
  <2>. QED  BY <2>1, <2>2 DEF Teardown
<1>4. ASSUME ConstructWorker PROVE Teardown'
  <2>1. /\ mpc = "construct" /\ mpc' \in {"push", "start"} /\ mnext \in Threads
        /\ mpc' = "push" => mnext = 0
        /\ pc' = [pc EXCEPT ![mnext] = "made"]
        /\ finished' = [finished EXCEPT ![mnext] = FALSE]
        /\ UNCHANGED <<stopIndex, stopSeen, mnext>>
    BY <1>0, <1>4 DEF ConstructWorker, Goto, RunOK
  <2>2. BuiltInOrder'
    BY <1>0, <2>1 DEF BuiltInOrder
  <2>3. FinishedOK'
    BY <1>0, <2>1 DEF FinishedOK, Stopped
  <2>4. RoundOK(Owner)' /\ Dismantled'
    BY <1>0, <2>1 DEF RoundOK, Dismantled
  <2>. QED  BY <2>2, <2>3, <2>4 DEF Teardown
<1>5. ASSUME PushEntryPoint PROVE Teardown'
  <2>1. /\ mpc = "push" /\ mpc' \in {"push", "interrupt"}
        /\ UNCHANGED <<pc, finished, stopIndex, stopSeen, mnext>>
    BY <1>5 DEF PushEntryPoint
  <2>. QED  BY <1>0, <2>1 DEF Teardown, BuiltInOrder, FinishedOK, RoundOK,
           Dismantled
<1>6. ASSUME EntryPointsInterrupt PROVE Teardown'
  <2>1. /\ mpc = "interrupt" /\ mpc' = "start"
        /\ UNCHANGED <<pc, finished, stopIndex, stopSeen, mnext>>
    BY <1>6 DEF EntryPointsInterrupt, workerVars
  <2>. QED  BY <1>0, <2>1 DEF Teardown, BuiltInOrder, FinishedOK, RoundOK,
           Dismantled
<1>7. ASSUME StartWorker PROVE Teardown'
  <2>1. /\ mpc = "start" /\ mnext \in Threads /\ pc[mnext] = "made"
        /\ pc' = [pc EXCEPT ![mnext] = "check"]
        /\ mpc' = IF mnext = 0 THEN "running" ELSE "construct"
        /\ mnext' = IF mnext = 0 THEN 0 ELSE NextWorker(mnext)
        /\ UNCHANGED <<finished, stopIndex, stopSeen>>
    BY <1>0, <1>7 DEF StartWorker, Goto, RunOK, StartOrder
  <2>2. \A v \in Threads : pc[v] # "raw" => pc'[v] # "raw"
    BY <1>0, <2>1
  <2>3. mnext # 0 => \A v \in Threads :
            v # 0 /\ (mnext' = 0 \/ v < mnext') => v < mnext \/ v = mnext
    BY <2>1, WorkerAssumption DEF NextWorker, Wrap, Threads
  <2>4. BuiltInOrder'
    <3>1. CASE mnext = 0
      BY <1>0, <2>1, <2>2, <3>1 DEF BuiltInOrder, AllConstructed
    <3>2. CASE mnext # 0
      BY <1>0, <2>1, <2>2, <2>3, <3>2 DEF BuiltInOrder
    <3>. QED  BY <3>1, <3>2
  <2>5. FinishedOK'
    BY <1>0, <2>1 DEF FinishedOK, Stopped
  <2>6. RoundOK(Owner)' /\ Dismantled'
    BY <1>0, <2>1 DEF RoundOK, Dismantled
  <2>. QED  BY <2>4, <2>5, <2>6 DEF Teardown
<1>8. ASSUME NEW a \in Agents, StopCalled(a) PROVE Teardown'
  <2>1. /\ UNCHANGED <<pc, finished, stopIndex, stopSeen, mpc, mnext>>
        /\ stopOn' = a /\ mpc # "freed" /\ Interruptible(a)
    BY <1>8 DEF StopCalled, workerVars
  <2>2. BuiltInOrder' /\ FinishedOK' /\ RoundOK(Owner)'
    BY <1>0, <2>1 DEF BuiltInOrder, AllConstructed, FinishedOK, RoundOK
  <2>3. ASSUME mpc = "join", NEW v \in Threads, v < mnext PROVE a # v
    <3>1. pc[v] = "done" /\ ~(mnext <= v)
      BY <1>0, <2>3, IndexFacts DEF Dismantled, Threads
    <3>. QED  BY <1>0, <2>1, <2>3, <3>1 DEF Interruptible
  <2>4. Dismantled'
    BY <1>0, <2>1, <2>3 DEF Dismantled
  <2>. QED  BY <2>2, <2>4 DEF Teardown
<1>9. ASSUME StopTells PROVE Teardown'
  BY <1>1, <1>9 DEF StopTells
<1>10. ASSUME StopInterrupts PROVE Teardown'
  <2>1. /\ UNCHANGED <<pc, finished, stopIndex, stopSeen, mpc, mnext>>
        /\ stopOn' = -1
    BY <1>10 DEF StopInterrupts, workerVars
  <2>2. BuiltInOrder' /\ FinishedOK' /\ RoundOK(Owner)'
    BY <1>0, <2>1 DEF BuiltInOrder, AllConstructed, FinishedOK, RoundOK
  <2>3. -1 # Owner /\ \A v \in Threads : -1 # v
    BY WorkerAssumption DEF Owner, Threads
  <2>4. Dismantled'
    BY <1>0, <2>1, <2>3 DEF Dismantled
  <2>. QED  BY <2>2, <2>4 DEF Teardown
<1>11. ASSUME NEW w \in Threads, Progresses(w) PROVE Teardown'
  <2>1. PICK l \in PCs : /\ l # "raw"
                         /\ l \in Stopped <=> pc[w] \in Stopped
                         /\ pc' = [pc EXCEPT ![w] = l]
    BY <1>11 DEF Progresses
  <2>2. /\ pc[w] \notin {"raw", "done"}
        /\ stopIndex'[Owner] = stopIndex[Owner] /\ stopSeen'[Owner] = stopSeen[Owner]
        /\ UNCHANGED <<finished, mpc, mnext, stopOn>>
    BY <1>11 DEF Progresses
  <2>3. BuiltInOrder'
    BY <1>0, <2>1, <2>2 DEF BuiltInOrder, AllConstructed
  <2>4. FinishedOK'
    BY <1>0, <2>1, <2>2 DEF FinishedOK
  <2>5. RoundOK(Owner)'
    BY <1>0, <2>2 DEF RoundOK
  <2>6. Dismantled'
    BY <1>0, <2>1, <2>2 DEF Dismantled
  <2>. QED  BY <2>3, <2>4, <2>5, <2>6 DEF Teardown
<1>12. ASSUME NEW w \in Threads, LeaveLoop(w), UNCHANGED managerVars PROVE Teardown'
  <2>1. /\ pc[w] = "check" /\ pc' = [pc EXCEPT ![w] = "stopping"]
        /\ finished' = [finished EXCEPT ![w] = TRUE]
        /\ UNCHANGED <<stopIndex, stopSeen, mpc, mnext, stopOn>>
    BY <1>12 DEF LeaveLoop, Goto, managerVars
  <2>2. BuiltInOrder'
    BY <1>0, <2>1 DEF BuiltInOrder, AllConstructed
  <2>3. FinishedOK'
    BY <1>0, <2>1 DEF FinishedOK, Stopped
  <2>4. \A v \in Threads : finished[v] => finished'[v]
    BY <1>0, <2>1
  <2>5. RoundOK(Owner)'
    BY <1>0, <2>1, <2>4 DEF RoundOK
  <2>6. Dismantled'
    BY <1>0, <2>1, <2>4 DEF Dismantled
  <2>. QED  BY <2>2, <2>3, <2>5, <2>6 DEF Teardown
<1>13. ASSUME StopLook(Owner) PROVE Teardown'
  <2>1. /\ mpc = "stopping" /\ stopIndex[Owner] \in Threads
        /\ stopIndex' = [stopIndex EXCEPT ![Owner] = stopIndex[Owner] + 1]
        /\ UNCHANGED <<pc, finished, mpc, mnext, stopOn>>
        /\ \/ finished[stopIndex[Owner]] /\ stopSeen' = stopSeen
           \/ stopSeen' = [stopSeen EXCEPT ![Owner] = TRUE]
    BY <1>0, <1>13, IndexFacts DEF StopLook
  <2>2. stopIndex'[Owner] = stopIndex[Owner] + 1
    BY <1>0, <2>1
  <2>3. \A v \in Threads : v < stopIndex[Owner] + 1 =>
            v < stopIndex[Owner] \/ v = stopIndex[Owner]
    BY <2>1, WorkerAssumption DEF Threads
  <2>4. ~stopSeen'[Owner] => finished[stopIndex[Owner]] /\ ~stopSeen[Owner]
    BY <1>0, <2>1
  <2>5. RoundOK(Owner)'
    BY <1>0, <2>1, <2>2, <2>3, <2>4 DEF RoundOK
  <2>6. BuiltInOrder' /\ FinishedOK' /\ Dismantled'
    BY <1>0, <2>1 DEF BuiltInOrder, AllConstructed, FinishedOK, Dismantled
  <2>. QED  BY <2>5, <2>6 DEF Teardown
<1>14. ASSUME StopRound(Owner) PROVE Teardown'
  <2>1. /\ mpc = "stopping" /\ stopIndex[Owner] = N
        /\ mpc' = IF ~stopSeen[Owner] THEN "join" ELSE mpc
        /\ stopIndex'[Owner] = 0 /\ ~stopSeen'[Owner]
        /\ UNCHANGED <<pc, finished, mnext, stopOn>>
    BY <1>0, <1>14 DEF StopRound
  <2>2. (\A v \in Threads : ~(v < 0)) /\ mnext = 0
    BY <1>0, <2>1, WorkerAssumption DEF Threads, Dismantled
  <2>3. ~stopSeen[Owner] => \A v \in Threads : finished[v]
    BY <1>0, <2>1, WorkerAssumption DEF RoundOK, Threads
  <2>4. BuiltInOrder' /\ FinishedOK'
    BY <1>0, <2>1 DEF BuiltInOrder, AllConstructed, FinishedOK
  <2>5. RoundOK(Owner)' /\ Dismantled'
    BY <1>0, <2>1, <2>2, <2>3 DEF RoundOK, Dismantled
  <2>. QED  BY <2>4, <2>5 DEF Teardown
<1>15. ASSUME Destroy PROVE Teardown'
  <2>1. /\ mpc = "running" /\ mpc' = "stopping"
        /\ UNCHANGED <<pc, finished, stopIndex, stopSeen, mnext, stopOn>>
    BY <1>15 DEF Destroy, workerVars
  <2>2. \A v \in Threads : ~(v < 0)
    BY WorkerAssumption DEF Threads
  <2>3. BuiltInOrder' /\ FinishedOK'
    BY <1>0, <2>1 DEF BuiltInOrder, AllConstructed, FinishedOK
  <2>4. RoundOK(Owner)' /\ Dismantled'
    BY <1>0, <2>1, <2>2 DEF RoundOK, Dismantled
  <2>. QED  BY <2>3, <2>4 DEF Teardown
<1>16. ASSUME JoinWorker PROVE Teardown'
  <2>1. /\ mpc = "join" /\ mnext' = mnext + 1 /\ pc[mnext] = "done" /\ stopOn # mnext
        /\ UNCHANGED <<pc, finished, stopIndex, stopSeen, mpc, stopOn>>
    BY <1>16 DEF JoinWorker, workerVars
  <2>2. \A v \in Threads : v < mnext + 1 => v < mnext \/ v = mnext
    BY <1>0, WorkerAssumption DEF Threads
  <2>3. BuiltInOrder' /\ FinishedOK' /\ RoundOK(Owner)'
    BY <1>0, <2>1 DEF BuiltInOrder, AllConstructed, FinishedOK, RoundOK
  <2>4. Dismantled'
    BY <1>0, <2>1, <2>2 DEF Dismantled
  <2>. QED  BY <2>3, <2>4 DEF Teardown
<1>17. ASSUME FreeThreads, stopOn # Owner PROVE Teardown'
  <2>1. /\ mpc = "join" /\ mpc' = "freed" /\ mnext = N
        /\ UNCHANGED <<pc, finished, stopIndex, stopSeen, mnext, stopOn>>
    BY <1>17 DEF FreeThreads, workerVars
  <2>2. BuiltInOrder' /\ FinishedOK' /\ RoundOK(Owner)'
    BY <1>0, <2>1 DEF BuiltInOrder, AllConstructed, FinishedOK, RoundOK
  <2>3. Dismantled'
    BY <1>0, <1>17, <2>1 DEF Dismantled
  <2>. QED  BY <2>2, <2>3 DEF Teardown
<1>18. CASE UNCHANGED vars
  BY <1>1, <1>18 DEF vars, workerVars, managerVars
<1>19. ASSUME NEW w \in Threads,
             \/ WorkerStep(w) \/ Wakes(w)
             \/ stopOn # w /\ WaitInterrupted(w) /\ UNCHANGED managerVars
      PROVE  Teardown'
  BY <1>11, <1>12, <1>19, InsideTheLoop, WorkerProgresses
     DEF WorkerStep, LoopStep, StopInternalStep, Wakes
<1>. QED
  BY <1>2, <1>3, <1>4, <1>5, <1>6, <1>7, <1>8, <1>9, <1>10, <1>13, <1>14,
     <1>15, <1>16, <1>17, <1>18, <1>19
     DEF Next, RunStep, StopInternalStep, DestroyStep

(* Every step keeps Lifecycle.                                             *)
LEMMA LifecycleStep ==
    ASSUME EarlySignal = FALSE, Ctl, Sched, Teardown, Lifecycle, [Next]_vars
    PROVE  Lifecycle'
<1>0. /\ pc \in [Threads -> PCs]
      /\ running \in [Threads -> BOOLEAN]
      /\ finished \in [Threads -> BOOLEAN]
      /\ stopIndex \in [Agents -> 0 .. N]
      /\ stopSeen \in [Agents -> BOOLEAN]
      /\ mpc \in MPCs
      /\ mnext \in 0 .. N
      /\ RunOK /\ StartOrder
      /\ BuiltInOrder /\ FinishedOK /\ Dismantled
      /\ Boot /\ Rounds /\ HookAfterAllFinished
  BY DEF Ctl, TypeOK, WorkerTypeOK, ManagerTypeOK, Sched, Teardown, Lifecycle
<1>. USE DEF Goto, managerVars, eventVars, workerVars
<1>1. ASSUME NEW t \in EntryTasks, AddEntryPoint(t)
      PROVE  Lifecycle'
  <2>1. Boot'
    BY <1>0, <1>1, IndexFacts DEF AddEntryPoint, Boot, AllConstructed
  <2>4. Rounds'
    BY <1>0, <1>1, IndexFacts DEF AddEntryPoint, Rounds, RoundOK,
       InStopInternal
  <2>5. HookAfterAllFinished'
    BY <1>0, <1>1, IndexFacts DEF AddEntryPoint, HookAfterAllFinished
  <2>. QED  BY <2>1, <2>4, <2>5 DEF Lifecycle
<1>2. ASSUME RunAllocates
      PROVE  Lifecycle'
  <2>1. Boot'
    BY <1>0, <1>2, IndexFacts DEF RunAllocates, NextWorker, Boot,
       AllConstructed, StartOrder, RunOK
  <2>4. Rounds'
    BY <1>0, <1>2, IndexFacts DEF RunAllocates, NextWorker, Rounds, RoundOK,
       InStopInternal, StartOrder, RunOK
  <2>5. HookAfterAllFinished'
    BY <1>0, <1>2, IndexFacts DEF RunAllocates, NextWorker,
       HookAfterAllFinished, StartOrder, RunOK
  <2>. QED  BY <2>1, <2>4, <2>5 DEF Lifecycle
<1>3. ASSUME ConstructWorker
      PROVE  Lifecycle'
  <2>1. Boot'
    <3>1. ~AllConstructed
      BY <1>0, <1>3, IndexFacts DEF ConstructWorker, AllConstructed, StartOrder
    <3>2. mnext = 0 => AllConstructed'
      BY <1>0, <1>3, IndexFacts DEF ConstructWorker, AllConstructed,
         BuiltInOrder
    <3>3. mnext # 0 => mpc' = "start"
      BY <1>3 DEF ConstructWorker
    <3>4. UNCHANGED <<stopper, wakeup, interest>>
      BY <1>3 DEF ConstructWorker
    <3>5. \A w \in Threads : /\ pc'[w] \in {"raw", "made", "check", "wait"}
                             /\ pc'[w] # "raw" => running'[w]
      BY <1>0, <1>3, <3>1 DEF ConstructWorker, Boot
    <3>. QED  BY <1>0, <3>1, <3>2, <3>3, <3>4, <3>5 DEF Boot
  <2>4. Rounds'
    <3>1. \A a \in Agents : ~InStopInternal(a)
      BY <1>0, <1>3, IndexFacts DEF ConstructWorker, InStopInternal,
         StartOrder,
         Boot, AllConstructed
    <3>2. \A a \in Agents : ~InStopInternal(a)'
      BY <1>0, <1>3, <3>1, IndexFacts DEF ConstructWorker, InStopInternal
    <3>3. UNCHANGED <<stopIndex, stopSeen>>
      BY <1>3 DEF ConstructWorker
    <3>. QED  BY <1>0, <3>1, <3>2, <3>3 DEF Rounds, RoundOK
  <2>5. HookAfterAllFinished'
    BY <1>0, <1>3, IndexFacts DEF ConstructWorker, HookAfterAllFinished,
       StartOrder, Boot, AllConstructed
  <2>. QED  BY <2>1, <2>4, <2>5 DEF Lifecycle
<1>4. ASSUME PushEntryPoint
      PROVE  Lifecycle'
  <2>1. Boot'
    BY <1>0, <1>4, IndexFacts DEF PushEntryPoint, Boot, AllConstructed
  <2>4. Rounds'
    BY <1>0, <1>4, IndexFacts DEF PushEntryPoint, Rounds, RoundOK,
       InStopInternal
  <2>5. HookAfterAllFinished'
    BY <1>0, <1>4, IndexFacts DEF PushEntryPoint, HookAfterAllFinished
  <2>. QED  BY <2>1, <2>4, <2>5 DEF Lifecycle
<1>5. ASSUME EntryPointsInterrupt
      PROVE  Lifecycle'
  <2>1. Boot'
    BY <1>0, <1>5, IndexFacts DEF EntryPointsInterrupt, InterruptAll, Boot,
       AllConstructed
  <2>4. Rounds'
    BY <1>0, <1>5, IndexFacts DEF EntryPointsInterrupt, InterruptAll, Rounds,
       RoundOK, InStopInternal
  <2>5. HookAfterAllFinished'
    BY <1>0, <1>5, IndexFacts DEF EntryPointsInterrupt, InterruptAll,
       HookAfterAllFinished
  <2>. QED  BY <2>1, <2>4, <2>5 DEF Lifecycle
<1>6. ASSUME StartWorker
      PROVE  Lifecycle'
  <2>1. Boot'
    <3>1. pc[mnext] = "made" /\ mnext \in Threads
      BY <1>0, <1>6 DEF StartWorker, StartOrder, RunOK
    <3>2. AllConstructed' <=> AllConstructed
      BY <1>0, <1>6, <3>1 DEF StartWorker, AllConstructed
    <3>3. ~AllConstructed => mnext # 0
      BY <1>0, <1>6, <3>1 DEF StartWorker, AllConstructed, BuiltInOrder
    <3>. QED  BY <1>0, <1>6, <3>1, <3>2, <3>3 DEF StartWorker, Boot
  <2>4. Rounds'
    BY <1>0, <1>6, IndexFacts DEF StartWorker, Rounds, RoundOK, InStopInternal,
       StartOrder, RunOK
  <2>5. HookAfterAllFinished'
    BY <1>0, <1>6, IndexFacts DEF StartWorker, HookAfterAllFinished,
       StartOrder, RunOK
  <2>. QED  BY <2>1, <2>4, <2>5 DEF Lifecycle
<1>7. ASSUME NEW a \in Agents, StopCalled(a)
      PROVE  Lifecycle'
  <2>1. Boot'
    BY <1>0, <1>7, IndexFacts DEF StopCalled, Boot, AllConstructed
  <2>4. Rounds'
    BY <1>0, <1>7, IndexFacts DEF StopCalled, Rounds, RoundOK, InStopInternal
  <2>5. HookAfterAllFinished'
    BY <1>0, <1>7, IndexFacts DEF StopCalled, HookAfterAllFinished
  <2>. QED  BY <2>1, <2>4, <2>5 DEF Lifecycle
<1>8. ASSUME StopTells
      PROVE  Lifecycle'
  <2>1. Boot'
    BY <1>0, <1>8, WorkerAssumption DEF StopTells, Boot, AllConstructed,
       Threads
  <2>4. Rounds'
    BY <1>0, <1>8, IndexFacts DEF StopTells, Rounds, RoundOK, InStopInternal
  <2>5. HookAfterAllFinished'
    BY <1>0, <1>8, IndexFacts DEF StopTells, HookAfterAllFinished
  <2>. QED  BY <2>1, <2>4, <2>5 DEF Lifecycle
<1>9. ASSUME StopInterrupts
      PROVE  Lifecycle'
  <2>1. Boot'
    BY <1>0, <1>9, IndexFacts DEF StopInterrupts, InterruptAll, Boot,
       AllConstructed
  <2>4. Rounds'
    BY <1>0, <1>9, IndexFacts DEF StopInterrupts, InterruptAll, Rounds,
       RoundOK, InStopInternal
  <2>5. HookAfterAllFinished'
    BY <1>0, <1>9, IndexFacts DEF StopInterrupts, InterruptAll,
       HookAfterAllFinished
  <2>. QED  BY <2>1, <2>4, <2>5 DEF Lifecycle
<1>10. ASSUME NEW w \in Threads, CheckRunning(w), UNCHANGED managerVars
      PROVE  Lifecycle'
  <2>1. Boot'
    BY <1>0, <1>10, IndexFacts DEF CheckRunning, Boot, AllConstructed
  <2>4. Rounds'
    BY <1>0, <1>10, IndexFacts DEF CheckRunning, Rounds, RoundOK,
       InStopInternal
  <2>5. HookAfterAllFinished'
    BY <1>0, <1>10, IndexFacts DEF CheckRunning, HookAfterAllFinished
  <2>. QED  BY <2>1, <2>4, <2>5 DEF Lifecycle
<1>11. ASSUME NEW w \in Threads, LeaveLoop(w), UNCHANGED managerVars
      PROVE  Lifecycle'
  <2>1. Boot'
    BY <1>0, <1>11, IndexFacts DEF LeaveLoop, Boot, AllConstructed
  <2>4. Rounds'
    <3>1. stopIndex[w] = 0 /\ w # Owner /\ w \in Agents
      BY <1>0, <1>11, IndexFacts DEF LeaveLoop, Rounds, RoundOK,
         InStopInternal, Agents
    <3>2. \A v \in Threads : ~(v < 0)
      BY WorkerAssumption DEF Threads
    <3>3. \A a \in Agents : a # w => (InStopInternal(a)' <=> InStopInternal(a))
      BY <1>0, <1>11, IndexFacts DEF LeaveLoop, InStopInternal
    <3>4. \A v \in Threads : finished[v] => finished'[v]
      BY <1>0, <1>11 DEF LeaveLoop
    <3>5. InStopInternal(w)' /\ stopIndex' = stopIndex /\ stopSeen' = stopSeen
      BY <1>0, <1>11, <3>1 DEF LeaveLoop, InStopInternal
    <3>. QED  BY <1>0, <3>1, <3>2, <3>3, <3>4, <3>5 DEF Rounds, RoundOK
  <2>5. HookAfterAllFinished'
    BY <1>0, <1>11, IndexFacts DEF LeaveLoop, HookAfterAllFinished
  <2>. QED  BY <2>1, <2>4, <2>5 DEF Lifecycle
<1>12. ASSUME NEW a \in Agents, StopLook(a)
      PROVE  Lifecycle'
  <2>1. Boot'
    BY <1>0, <1>12, IndexFacts DEF StopLook, Boot, AllConstructed,
       InStopInternal
  <2>4. Rounds'
    <3>1. /\ stopIndex[a] \in Threads
          /\ stopIndex' = [stopIndex EXCEPT ![a] = stopIndex[a] + 1]
          /\ finished' = finished
          /\ InStopInternal(a)
      BY <1>0, <1>12, IndexFacts DEF StopLook
    <3>2. \/ finished[stopIndex[a]] /\ stopSeen' = stopSeen
          \/ stopSeen' = [stopSeen EXCEPT ![a] = TRUE]
      BY <1>12 DEF StopLook
    <3>3. \A b \in Agents : InStopInternal(b)' <=> InStopInternal(b)
      BY <1>12 DEF StopLook, InStopInternal
    <3>4. \A v \in Threads : v < stopIndex[a] + 1 =>
              v < stopIndex[a] \/ v = stopIndex[a]
      BY <3>1, WorkerAssumption DEF Threads
    <3>5. ASSUME NEW b \in Agents, b # a
          PROVE  stopIndex'[b] = stopIndex[b] /\ stopSeen'[b] = stopSeen[b]
      BY <1>0, <3>1, <3>2, <3>5
    <3>6. ~stopSeen'[a] => finished[stopIndex[a]] /\ ~stopSeen[a]
      BY <1>0, <3>2
    <3>7. stopIndex'[a] = stopIndex[a] + 1
      BY <1>0, <3>1
    <3>. QED  BY <1>0, <3>1, <3>3, <3>4, <3>5, <3>6, <3>7 DEF Rounds, RoundOK
  <2>5. HookAfterAllFinished'
    BY <1>0, <1>12, IndexFacts DEF StopLook, HookAfterAllFinished
  <2>. QED  BY <2>1, <2>4, <2>5 DEF Lifecycle
<1>13. ASSUME NEW a \in Agents, StopRound(a)
      PROVE  Lifecycle'
  <2>. DEFINE Quiet == \A v \in Threads : finished[v]
  <2>0. /\ AllConstructed
        /\ ~stopSeen[a] => Quiet
        /\ a # Owner => a \in Threads
        /\ \/ pc' = pc /\ mpc' = mpc
           \/ pc' = pc /\ mpc = "stopping" /\ mpc' = "join" /\ Quiet
           \/ /\ a \in Threads /\ pc[a] = "stopping" /\ Quiet
              /\ pc' = [pc EXCEPT ![a] = "hook"] /\ mpc' = mpc
        /\ UNCHANGED <<finished, mnext>>
    <3>1. InStopInternal(a) /\ stopIndex[a] = N
      BY <1>13 DEF StopRound
    <3>2. ~stopSeen[a] => Quiet
      BY <1>0, <3>1, WorkerAssumption DEF Rounds, RoundOK, Threads
    <3>3. AllConstructed
      BY <1>0, <3>1, IndexFacts DEF InStopInternal, Boot
    <3>4. CASE a = Owner
      BY <1>13, <3>1, <3>2, <3>3, <3>4 DEF StopRound, InStopInternal
    <3>5. CASE a # Owner
      BY <1>13, <3>1, <3>2, <3>3, <3>5, IndexFacts DEF StopRound,
         InStopInternal
    <3>. QED  BY <3>4, <3>5
  <2>. HIDE DEF Quiet
  <2>1. Boot'
    BY <1>0, <2>0 DEF Boot, AllConstructed
  <2>4. Rounds'
    <3>1. stopIndex'[a] = 0 /\ ~stopSeen'[a]
      BY <1>0, <1>13 DEF StopRound
    <3>2. \A v \in Threads : ~(v < 0)
      BY WorkerAssumption DEF Threads
    <3>3. ASSUME NEW b \in Agents, b # a
          PROVE  /\ stopIndex'[b] = stopIndex[b]
                 /\ stopSeen'[b] = stopSeen[b]
                 /\ InStopInternal(b)' <=> InStopInternal(b)
      <4>1. stopIndex'[b] = stopIndex[b] /\ stopSeen'[b] = stopSeen[b]
        BY <1>0, <1>13, <3>3 DEF StopRound
      <4>2. CASE a = Owner
        BY <1>0, <1>13, <3>3, <4>2 DEF StopRound, InStopInternal
      <4>3. CASE a # Owner
        BY <1>0, <1>13, <3>3, <4>3 DEF StopRound, InStopInternal
      <4>. QED  BY <4>1, <4>2, <4>3
    <3>. QED  BY <1>0, <2>0, <3>1, <3>2, <3>3 DEF Rounds, RoundOK
  <2>5. HookAfterAllFinished'
    BY <1>0, <2>0, WorkerAssumption DEF HookAfterAllFinished, Quiet,
       Threads
  <2>. QED  BY <2>1, <2>4, <2>5 DEF Lifecycle
<1>14. ASSUME NEW w \in Threads, ThreadStopped(w)
      PROVE  Lifecycle'
  <2>1. Boot'
    BY <1>0, <1>14, IndexFacts DEF ThreadStopped, Boot, AllConstructed
  <2>4. Rounds'
    BY <1>0, <1>14, IndexFacts DEF ThreadStopped, Rounds, RoundOK,
       InStopInternal
  <2>5. HookAfterAllFinished'
    BY <1>0, <1>14, IndexFacts DEF ThreadStopped, HookAfterAllFinished
  <2>. QED  BY <2>1, <2>4, <2>5 DEF Lifecycle
<1>15. ASSUME NEW w \in Threads, NEW H \in SUBSET Tasks, WaitReturns(w, H),
             UNCHANGED managerVars
      PROVE  Lifecycle'
  <2>1. Boot'
    BY <1>0, <1>15, IndexFacts DEF WaitReturns, EpollWait, Boot, AllConstructed
  <2>4. Rounds'
    BY <1>0, <1>15, IndexFacts DEF WaitReturns, EpollWait, Rounds, RoundOK,
       InStopInternal
  <2>5. HookAfterAllFinished'
    BY <1>0, <1>15, IndexFacts DEF WaitReturns, EpollWait, HookAfterAllFinished
  <2>. QED  BY <2>1, <2>4, <2>5 DEF Lifecycle
<1>16. ASSUME NEW w \in Threads, WaitInterrupted(w), UNCHANGED managerVars
      PROVE  Lifecycle'
  <2>1. Boot'
    BY <1>0, <1>16, IndexFacts DEF WaitInterrupted, Boot, AllConstructed
  <2>4. Rounds'
    BY <1>0, <1>16, IndexFacts DEF WaitInterrupted, Rounds, RoundOK,
       InStopInternal
  <2>5. HookAfterAllFinished'
    BY <1>0, <1>16, IndexFacts DEF WaitInterrupted, HookAfterAllFinished
  <2>. QED  BY <2>1, <2>4, <2>5 DEF Lifecycle
<1>17. ASSUME Destroy
      PROVE  Lifecycle'
  <2>1. Boot'
    BY <1>0, <1>17, IndexFacts DEF Destroy, Boot, AllConstructed
  <2>4. Rounds'
    <3>1. \A v \in Threads : ~(v < 0)
      BY WorkerAssumption DEF Threads
    <3>2. /\ mpc = "running" /\ mpc' = "stopping"
          /\ UNCHANGED <<pc, finished, stopIndex, stopSeen>>
      BY <1>17 DEF Destroy
    <3>3. \A a \in Agents : a # Owner => (InStopInternal(a)' <=> InStopInternal(a))
      BY <3>2 DEF InStopInternal
    <3>4. stopIndex[Owner] = 0
      BY <1>0, <3>2, IndexFacts DEF Rounds, RoundOK, InStopInternal
    <3>5. InStopInternal(Owner)'
      BY <3>2 DEF InStopInternal
    <3>. QED  BY <1>0, <3>1, <3>2, <3>3, <3>4, <3>5 DEF Rounds, RoundOK
  <2>5. HookAfterAllFinished'
    BY <1>0, <1>17, IndexFacts DEF Destroy, HookAfterAllFinished
  <2>. QED  BY <2>1, <2>4, <2>5 DEF Lifecycle
<1>18. ASSUME JoinWorker
      PROVE  Lifecycle'
  <2>1. Boot'
    BY <1>0, <1>18, IndexFacts DEF JoinWorker, Boot, AllConstructed
  <2>4. Rounds'
    BY <1>0, <1>18, IndexFacts DEF JoinWorker, Rounds, RoundOK, InStopInternal
  <2>5. HookAfterAllFinished'
    BY <1>0, <1>18, WorkerAssumption DEF JoinWorker, HookAfterAllFinished,
       Threads
  <2>. QED  BY <2>1, <2>4, <2>5 DEF Lifecycle
<1>19. ASSUME FreeThreads
      PROVE  Lifecycle'
  <2>1. Boot'
    BY <1>0, <1>19, IndexFacts DEF FreeThreads, Boot, AllConstructed
  <2>4. Rounds'
    BY <1>0, <1>19, IndexFacts DEF FreeThreads, Rounds, RoundOK, InStopInternal
  <2>5. HookAfterAllFinished'
    BY <1>0, <1>19, WorkerAssumption DEF FreeThreads, HookAfterAllFinished,
       Threads
  <2>. QED  BY <2>1, <2>4, <2>5 DEF Lifecycle
<1>20. ASSUME NEW w \in Threads, WorksOn(w)
      PROVE  Lifecycle'
  <2>1. Boot'
    BY <1>0, <1>20, IndexFacts DEF WorksOn, Awake, Boot, AllConstructed
  <2>4. Rounds'
    BY <1>0, <1>20, IndexFacts DEF WorksOn, Awake, Rounds, RoundOK,
       InStopInternal
  <2>5. HookAfterAllFinished'
    BY <1>0, <1>20, IndexFacts DEF WorksOn, Awake, HookAfterAllFinished
  <2>. QED  BY <2>1, <2>4, <2>5 DEF Lifecycle
<1>21. CASE UNCHANGED vars
  BY <1>21 DEF vars, Lifecycle, Boot, AllConstructed, Rounds, RoundOK,
     InStopInternal, HookAfterAllFinished
<1>. HIDE DEF managerVars, eventVars, workerVars
<1>. QED
  BY <1>1, <1>2, <1>3, <1>4, <1>5, <1>6, <1>7, <1>8, <1>9, <1>10, <1>11,
     <1>12, <1>13, <1>14, <1>15, <1>16, <1>17, <1>18, <1>19, <1>20, <1>21,
     InsideTheLoop
     DEF Next, RunStep, WorkerStep, LoopStep, StopInternalStep, Wakes,
     DestroyStep, Agents

(* Whenever signals arrive, and for any number of workers and tasks, the   *)
(* destructor destroys no worker whose thread has not returned or whose    *)
(* ring another thread could still steal from, and frees threads_ only     *)
(* when no thread executes Stop or StopInternal any more. When no signal   *)
(* arrives while Run still constructs workers, nobody uses a worker before *)
(* it exists, nor runs a hook before all have left their loops.            *)
THEOREM StopIsSafe == Spec => []StopInv
<1>1. Spec => []Teardown
  <2>1. Init => Teardown
    BY IndexFacts, WorkerAssumption DEF Init, WorkerInit, Teardown,
       BuiltInOrder, FinishedOK, RoundOK, Dismantled, InStopInternal, Agents
  <2>2. Ctl /\ Sched /\ Teardown /\ [Next]_vars => Teardown'
    BY TeardownStep
  <2>. QED  BY <2>1, <2>2, CtlInductive, SchedInductive, PTL DEF Spec
<1>2. Ctl /\ Teardown => DestroyIsSafe
  <2>. SUFFICES ASSUME Ctl, Teardown, mpc \in {"join", "freed"}
                PROVE  /\ \A w \in Threads : finished[w] /\ pc[w] \in Stopped
                       /\ \A w \in 0 .. mnext - 1 : pc[w] = "done" /\ stopOn # w
                       /\ mpc = "freed" => \A a \in Agents : ~InStopInternal(a) /\ stopOn # a
    BY DEF DestroyIsSafe, Stopped
  <2>1. \A w \in Threads : finished[w] /\ pc[w] \in Stopped
    BY DEF Teardown, Dismantled, FinishedOK, BuiltInOrder, AllConstructed
  <2>2. \A w \in 0 .. mnext - 1 : w \in Threads /\ w < mnext
    BY WorkerAssumption DEF Ctl, TypeOK, ManagerTypeOK, Threads
  <2>3. \A w \in 0 .. mnext - 1 : pc[w] = "done" /\ stopOn # w
    BY <2>2 DEF Teardown, Dismantled
  <2>4. ASSUME mpc = "freed", NEW a \in Agents PROVE ~InStopInternal(a) /\ stopOn # a
    <3>1. mnext = N /\ \A v \in Threads : v < N
      BY <2>4, WorkerAssumption DEF Teardown, Dismantled, Threads
    <3>. QED  BY <2>4, <3>1 DEF Teardown, Dismantled, Agents, InStopInternal
  <2>. QED  BY <2>1, <2>3, <2>4
<1>3. CASE EarlySignal = FALSE
  <2>1. Init => Lifecycle
    BY IndexFacts, WorkerAssumption DEF Init, WorkerInit, EventInit, Lifecycle,
       Boot, Rounds, RoundOK, HookAfterAllFinished, InStopInternal
  <2>2. Ctl /\ Sched /\ Teardown /\ Lifecycle /\ [Next]_vars => Lifecycle'
    BY <1>3, LifecycleStep
  <2>3. Ctl /\ Teardown /\ Lifecycle => StopInv
    <3>. SUFFICES ASSUME Ctl, Teardown, Lifecycle PROVE StopInv
      OBVIOUS
    <3>1. NoRawAccess
      BY ScanTargetType DEF Ctl, TypeOK, WorkerTypeOK, Lifecycle, Boot,
         NoRawAccess, AllConstructed
    <3>. QED  BY <1>2, <3>1 DEF Lifecycle, StopInv
  <2>. QED  BY <1>1, <2>1, <2>2, <2>3, CtlInductive, SchedInductive, PTL
           DEF Spec
<1>4. CASE EarlySignal = TRUE
  <2>1. Ctl /\ Teardown => StopInv
    BY <1>2, <1>4 DEF StopInv
  <2>. QED  BY <1>1, <2>1, CtlInductive, PTL
<1>. QED  BY <1>3, <1>4, WorkerAssumption

-----------------------------------------------------------------------------
(* What the thread knows of the task it holds, and when it holds events.   *)
OnThread == {"run", "spawned", "post"}

(* A task that executes is Executing; one that asked to wait or to yield   *)
(* is Suspended before its thread acts on the request, and nobody asks for *)
(* both.                                                                   *)
Requests == \A w \in Threads :
    /\ pc[w] \in {"run", "spawned"} => tstate[cur[w]] = "Executing"
    /\ pc[w] = "post" => tstate[cur[w]] \in {"Executing", "Suspended"}
    /\ pending[w] => /\ pc[w] = "post" /\ tstate[cur[w]] = "Suspended"
                     /\ ~yield[w]
    /\ yield[w] => pc[w] = "post" /\ tstate[cur[w]] = "Suspended"

(* Events are held only from epoll_wait until they are all queued.         *)
HarvestOK == \A w \in Threads :
    harvest[w] # {} => pc[w] \in {"drain", "events"}

NoDuplicates ==
    /\ \A w \in Threads : Injective(queue[w])
    /\ Injective(entrypoints)

(* A task has one place at most, is resumable where it waits, and has a    *)
(* place at all unless it was lost or is not alive.                        *)
Placed == \A t \in Tasks :
    /\ \A k1, k2 \in Kinds : \A a1, a2 \in Agents :
          Holds(k1, a1, t) /\ Holds(k2, a2, t) => k1 = k2 /\ a1 = a2
    /\ \A k \in Kinds, a \in Agents :
          Holds(k, a, t) /\ k # "thread" =>
              tstate[t] \in {"NotStarted", "Suspended"}
    /\ \/ t \in dropped \cup unarmed
       \/ tstate[t] \in {"Unborn", "Destroyed"}
       \/ \E k \in Kinds, a \in Agents : Holds(k, a, t)

Residence == Requests /\ HarvestOK /\ NoDuplicates /\ Placed

(* A pushed task is in the ring, and the ring has no duplicates when it    *)
(* was not there before.                                                   *)
LEMMA AppendPlaces ==
    ASSUME NEW s \in Seq(Tasks), NEW t \in Tasks
    PROVE  /\ \A x : InSeq(x, Append(s, t)) <=> InSeq(x, s) \/ x = t
           /\ Injective(s) /\ ~InSeq(t, s) => Injective(Append(s, t))
<1>1. /\ Len(Append(s, t)) = Len(s) + 1
      /\ Append(s, t)[Len(s) + 1] = t
      /\ \A i \in 1 .. Len(s) : Append(s, t)[i] = s[i]
      /\ Len(s) \in Nat
  BY AppendProperties, LenProperties
<1>2. \A i : i \in 1 .. Len(Append(s, t)) <=>
                i \in 1 .. Len(s) \/ i = Len(s) + 1
  BY <1>1
<1>3. ASSUME NEW x PROVE InSeq(x, Append(s, t)) <=> InSeq(x, s) \/ x = t
  BY <1>1, <1>2 DEF InSeq
<1>4. ASSUME Injective(s), ~InSeq(t, s) PROVE Injective(Append(s, t))
  BY <1>1, <1>2, <1>4 DEF InSeq, Injective
<1>. QED  BY <1>3, <1>4

(* A popped task is in the ring no more.                                   *)
LEMMA TailPlaces ==
    ASSUME NEW s \in Seq(Tasks), s # <<>>, Injective(s)
    PROVE  /\ \A x : InSeq(x, Tail(s)) <=> InSeq(x, s) /\ x # Head(s)
           /\ Injective(Tail(s))
           /\ InSeq(Head(s), s)
           /\ Head(s) \in Tasks
<1>1. /\ Head(s) = s[1] /\ Head(s) \in Tasks
      /\ Tail(s) \in Seq(Tasks)
      /\ Len(Tail(s)) = Len(s) - 1
      /\ \A i \in 1 .. Len(Tail(s)) : Tail(s)[i] = s[i + 1]
      /\ Len(s) \in Nat /\ Len(s) >= 1
  BY HeadTailProperties, EmptySeq, LenProperties
<1>2. \A i \in 1 .. Len(Tail(s)) : i + 1 \in 1 .. Len(s) /\ i + 1 # 1
  BY <1>1
<1>3. \A i \in 1 .. Len(s) :
          i = 1 \/ (i - 1 \in 1 .. Len(Tail(s)) /\ (i - 1) + 1 = i)
  BY <1>1
<1>4. 1 \in 1 .. Len(s)
  BY <1>1
<1>5. \A x : InSeq(x, Tail(s)) => InSeq(x, s) /\ x # Head(s)
  BY <1>1, <1>2, <1>4 DEF InSeq, Injective
<1>6. \A x : InSeq(x, s) /\ x # Head(s) => InSeq(x, Tail(s))
  <2>. SUFFICES ASSUME NEW x, InSeq(x, s), x # Head(s) PROVE InSeq(x, Tail(s))
    OBVIOUS
  <2>1. PICK i \in 1 .. Len(s) : s[i] = x
    BY DEF InSeq
  <2>2. /\ i - 1 \in 1 .. Len(Tail(s))
        /\ Tail(s)[i - 1] = s[(i - 1) + 1] /\ (i - 1) + 1 = i
    BY <1>1, <1>3, <2>1
  <2>. QED  BY <2>1, <2>2 DEF InSeq
<1>7. Injective(Tail(s))
  <2>. SUFFICES ASSUME NEW i \in 1 .. Len(Tail(s)),
                       NEW j \in 1 .. Len(Tail(s)),
                       Tail(s)[i] = Tail(s)[j]
                PROVE  i = j
    BY DEF Injective
  <2>1. s[i + 1] = s[j + 1] /\ i + 1 \in 1 .. Len(s) /\ j + 1 \in 1 .. Len(s)
    BY <1>1, <1>2
  <2>2. i + 1 = j + 1
    BY <2>1 DEF Injective
  <2>. QED  BY <2>2
<1>. QED  BY <1>1, <1>4, <1>5, <1>6, <1>7 DEF InSeq

(* QueueTask of a task that is not in the ring: it is there afterwards, or *)
(* it is dropped; nothing else moves.                                      *)
LEMMA QueueTaskPlaces ==
    ASSUME NEW w \in Threads, NEW t \in Tasks,
           queue \in [Threads -> Seq(Tasks)],
           \A v \in Threads : Injective(queue[v]),
           ~InSeq(t, queue[w]), QueueTask(w, t)
    PROVE  /\ \A v \in Threads : Injective(queue'[v])
           /\ dropped \subseteq dropped'
           /\ \A v \in Threads : \A x : v # w \/ x # t =>
                 (InSeq(x, queue'[v]) <=> InSeq(x, queue[v]))
           /\ t \in dropped' \/ InSeq(t, queue'[w])
<1>1. CASE Len(queue[w]) < QueueSize
  <2>1. /\ queue' = [queue EXCEPT ![w] = Append(queue[w], t)]
        /\ dropped' = dropped
    BY <1>1 DEF QueueTask
  <2>2. /\ queue'[w] = Append(queue[w], t)
        /\ \A v \in Threads : v # w => queue'[v] = queue[v]
    BY <2>1
  <2>3. queue[w] \in Seq(Tasks)
    OBVIOUS
  <2>. QED  BY <2>1, <2>2, <2>3, AppendPlaces
<1>2. CASE ~(Len(queue[w]) < QueueSize)
  BY <1>2 DEF QueueTask
<1>. QED  BY <1>1, <1>2

(* The tasks of S move to one place, or are lost or destroyed; the others  *)
(* stay where and as they are.                                             *)
Moves(S, k0, a0) ==
    /\ dropped \subseteq dropped' /\ unarmed \subseteq unarmed'
    /\ \A s \in Tasks \ S :
          /\ tstate'[s] = tstate[s]
          /\ \A k \in Kinds, a \in Agents : Holds(k, a, s)' <=> Holds(k, a, s)
    /\ \A s \in S :
          /\ \A k \in Kinds, a \in Agents : Holds(k, a, s)' =>
                /\ k = k0 /\ a = a0
                /\ k = "thread" \/ tstate'[s] \in {"NotStarted", "Suspended"}
          /\ \/ s \in dropped' \cup unarmed'
             \/ tstate'[s] = "Destroyed"
             \/ Holds(k0, a0, s)' /\ k0 \in Kinds /\ a0 \in Agents

(* Moving tasks to one place keeps every task placed.                      *)
LEMMA MovesKeepPlaced ==
    ASSUME NEW S, NEW k0, NEW a0, Placed, Moves(S, k0, a0)
    PROVE  Placed'
<1>. SUFFICES ASSUME NEW t \in Tasks
              PROVE  /\ \A k1, k2 \in Kinds : \A a1, a2 \in Agents :
                           Holds(k1, a1, t)' /\ Holds(k2, a2, t)' =>
                               k1 = k2 /\ a1 = a2
                     /\ \A k \in Kinds, a \in Agents :
                           Holds(k, a, t)' /\ k # "thread" =>
                               tstate'[t] \in {"NotStarted", "Suspended"}
                     /\ \/ t \in dropped' \cup unarmed'
                        \/ tstate'[t] \in {"Unborn", "Destroyed"}
                        \/ \E k \in Kinds, a \in Agents : Holds(k, a, t)'
  BY DEF Placed
<1>1. CASE t \in S
  BY <1>1 DEF Moves
<1>2. CASE t \notin S
  BY <1>2 DEF Moves, Placed
<1>. QED  BY <1>1, <1>2

(* A task has no place but the one it is found in.                         *)
LEMMA OnlyPlace ==
    ASSUME Placed, NEW t \in Tasks, NEW k0 \in Kinds, NEW a0 \in Agents,
           Holds(k0, a0, t)
    PROVE  /\ \A k \in Kinds, a \in Agents : Holds(k, a, t) => k = k0 /\ a = a0
           /\ k0 # "thread" => tstate[t] \in {"NotStarted", "Suspended"}
BY DEF Placed

(* A task that nobody has created yet has no place.                        *)
LEMMA UnbornIsNowhere ==
    ASSUME Ctl, Requests, Placed, NEW t \in Tasks, tstate[t] = "Unborn"
    PROVE  \A k \in Kinds, a \in Agents : ~Holds(k, a, t)
<1>1. \A w \in Threads : pc[w] \in OnThread => tstate[cur[w]] # "Unborn"
  BY DEF Requests, OnThread
<1>. QED  BY <1>1 DEF Placed, Holds, Kinds, OnThread

(* A step that leaves every task where it is.                              *)
Stays ==
    /\ UNCHANGED <<queue, harvest, interest, entrypoints, tstate, dropped,
                   unarmed, pending, yield>>
    /\ \A v \in Threads :
          /\ pc'[v] \in {"run", "spawned"} <=> pc[v] \in {"run", "spawned"}
          /\ pc'[v] = "post" <=> pc[v] = "post"
          /\ pc[v] \in OnThread => cur'[v] = cur[v]
          /\ pc[v] \in {"drain", "events"} /\ harvest[v] # {} =>
                pc'[v] \in {"drain", "events"}

(* A step that leaves the tasks where they are keeps Residence.            *)
LEMMA StaysKeepsResidence ==
    ASSUME Residence, Stays
    PROVE  Residence'
<1>1. Moves({}, "none", 0)
  <2>1. \A k \in Kinds, a \in Agents, t \in Tasks :
            Holds(k, a, t)' <=> Holds(k, a, t)
    BY DEF Stays, Holds, Kinds, OnThread
  <2>. QED  BY <2>1 DEF Moves, Stays
<1>2. Placed'
  BY <1>1, MovesKeepPlaced DEF Residence
<1>3. Requests'
  BY DEF Residence, Requests, Stays, OnThread
<1>4. HarvestOK'
  BY DEF Residence, HarvestOK, Stays
<1>5. NoDuplicates'
  BY DEF Residence, NoDuplicates, Stays
<1>. QED  BY <1>2, <1>3, <1>4, <1>5 DEF Residence

(* Every step keeps Residence.                                             *)
LEMMA ResidenceStep ==
    ASSUME Ctl, Sched, Residence, [Next]_vars
    PROVE  Residence'
<1>0. /\ pc \in [Threads -> PCs]
      /\ queue \in [Threads -> Seq(Tasks)]
      /\ cur \in [Threads -> Tasks \cup {NoTask}]
      /\ pending \in [Threads -> BOOLEAN]
      /\ yield \in [Threads -> BOOLEAN]
      /\ harvest \in [Threads -> SUBSET Tasks]
      /\ tstate \in [Tasks -> TStates]
      /\ interest \in [Tasks -> InterestStates]
      /\ entrypoints \in Seq(Tasks)
      /\ CurOK /\ RunOK /\ StartOrder
      /\ Requests /\ HarvestOK /\ NoDuplicates /\ Placed
  BY DEF Ctl, TypeOK, WorkerTypeOK, ManagerTypeOK, EventTypeOK, Sched,
     Residence
<1>a. Kinds = {"queue", "harvest", "thread", "epoll", "entry"}
  BY DEF Kinds
<1>. USE DEF Goto, managerVars, eventVars, workerVars
<1>1. ASSUME NEW t \in EntryTasks, AddEntryPoint(t)
      PROVE  Residence'
  <2>1. \A k \in Kinds, a \in Agents : ~Holds(k, a, t)
    BY <1>0, <1>1, UnbornIsNowhere, WorkerAssumption DEF AddEntryPoint
  <2>2. t \in Tasks /\ ~InSeq(t, entrypoints)
    BY <2>1, <1>a, IndexFacts, WorkerAssumption DEF Holds
  <2>3. /\ \A x : InSeq(x, entrypoints') <=> InSeq(x, entrypoints) \/ x = t
        /\ Injective(entrypoints')
    BY <1>0, <1>1, <2>2, AppendPlaces DEF AddEntryPoint, NoDuplicates
  <2>4. Moves({t}, "entry", Owner)
    BY <1>0, <1>1, <1>a, <2>1, <2>2, <2>3, IndexFacts
       DEF AddEntryPoint, Moves, Holds
  <2>5. Requests'
    BY <1>0, <1>1, WorkerAssumption DEF AddEntryPoint, Requests, CurOK
  <2>6. HarvestOK' /\ NoDuplicates'
    BY <1>0, <1>1, <2>3 DEF AddEntryPoint, HarvestOK, NoDuplicates
  <2>. QED  BY <1>0, <2>4, <2>5, <2>6, MovesKeepPlaced DEF Residence
<1>2. ASSUME RunAllocates
      PROVE  Residence'
  <2>1. Stays
    BY <1>0, <1>2 DEF RunAllocates, Stays
  <2>. QED  BY <2>1, StaysKeepsResidence
<1>3. ASSUME ConstructWorker
      PROVE  Residence'
  <2>1. Stays
    BY <1>0, <1>3 DEF ConstructWorker, StartOrder, RunOK, OnThread, Stays
  <2>. QED  BY <2>1, StaysKeepsResidence
<1>4. ASSUME PushEntryPoint
      PROVE  Residence'
  <2>. DEFINE t == Head(entrypoints)
  <2>1. entrypoints # <<>>
    BY <1>0, <1>4 DEF PushEntryPoint, RunOK
  <2>2. /\ t \in Tasks /\ InSeq(t, entrypoints)
        /\ \A x : InSeq(x, entrypoints') <=> InSeq(x, entrypoints) /\ x # t
        /\ Injective(entrypoints')
    BY <1>0, <1>4, <2>1, TailPlaces DEF PushEntryPoint, NoDuplicates
  <2>. HIDE DEF t
  <2>3. Holds("entry", Owner, t)
    BY <2>2 DEF Holds
  <2>4. /\ \A k \in Kinds, a \in Agents :
              Holds(k, a, t) => k = "entry" /\ a = Owner
        /\ tstate[t] \in {"NotStarted", "Suspended"}
    BY <1>0, <1>a, <2>2, <2>3, OnlyPlace, IndexFacts
  <2>5. ~InSeq(t, queue[0]) /\ 0 \in Threads /\ 0 \in Agents
    BY <1>a, <2>4, IndexFacts DEF Holds, Agents
  <2>6. /\ \A v \in Threads : Injective(queue'[v])
        /\ dropped \subseteq dropped'
        /\ \A v \in Threads : \A x : v # 0 \/ x # t =>
              (InSeq(x, queue'[v]) <=> InSeq(x, queue[v]))
        /\ t \in dropped' \/ InSeq(t, queue'[0])
    BY <1>0, <1>4, <2>2, <2>5, QueueTaskPlaces DEF PushEntryPoint,
       NoDuplicates, t
  <2>7. Moves({t}, "queue", 0)
    BY <1>0, <1>4, <1>a, <2>2, <2>4, <2>5, <2>6
       DEF PushEntryPoint, Moves, Holds
  <2>8. Requests' /\ HarvestOK' /\ NoDuplicates'
    BY <1>0, <1>4, <2>2, <2>6
       DEF PushEntryPoint, Requests, HarvestOK, NoDuplicates
  <2>. QED  BY <1>0, <2>7, <2>8, MovesKeepPlaced DEF Residence
<1>5. ASSUME EntryPointsInterrupt
      PROVE  Residence'
  <2>1. Stays
    BY <1>0, <1>5 DEF EntryPointsInterrupt, Stays
  <2>. QED  BY <2>1, StaysKeepsResidence
<1>6. ASSUME StartWorker
      PROVE  Residence'
  <2>1. Stays
    BY <1>0, <1>6 DEF StartWorker, StartOrder, RunOK, OnThread, Stays
  <2>. QED  BY <2>1, StaysKeepsResidence
<1>7. ASSUME NEW a \in Agents, StopCalled(a)
      PROVE  Residence'
  <2>1. Stays
    BY <1>0, <1>7 DEF StopCalled, Stays
  <2>. QED  BY <2>1, StaysKeepsResidence
<1>8. ASSUME StopTells
      PROVE  Residence'
  <2>1. Stays
    BY <1>0, <1>8 DEF StopTells, Stays
  <2>. QED  BY <2>1, StaysKeepsResidence
<1>9. ASSUME StopInterrupts
      PROVE  Residence'
  <2>1. Stays
    BY <1>0, <1>9 DEF StopInterrupts, Stays
  <2>. QED  BY <2>1, StaysKeepsResidence
<1>10. ASSUME NEW w \in Threads, CheckRunning(w), UNCHANGED managerVars
      PROVE  Residence'
  <2>1. Stays
    BY <1>0, <1>10 DEF CheckRunning, Stays
  <2>. QED  BY <2>1, StaysKeepsResidence
<1>11. ASSUME NEW w \in Threads, LeaveLoop(w), UNCHANGED managerVars
      PROVE  Residence'
  <2>1. Stays
    BY <1>0, <1>11 DEF LeaveLoop, Stays
  <2>. QED  BY <2>1, StaysKeepsResidence
<1>12. ASSUME NEW w \in Threads, WaitDrains(w), UNCHANGED managerVars
      PROVE  Residence'
  <2>1. Stays
    BY <1>0, <1>12 DEF WaitDrains, Stays
  <2>. QED  BY <2>1, StaysKeepsResidence
<1>13. ASSUME NEW w \in Threads, NEW t \in Tasks, QueueTriggered(w, t),
             UNCHANGED managerVars
      PROVE  Residence'
  <2>1. Holds("harvest", w, t)
    BY <1>13 DEF QueueTriggered, Holds
  <2>2. /\ \A k \in Kinds, a \in Agents :
              Holds(k, a, t) => k = "harvest" /\ a = w
        /\ tstate[t] \in {"NotStarted", "Suspended"}
    BY <1>0, <1>a, <2>1, OnlyPlace DEF Agents
  <2>3. ~InSeq(t, queue[w]) /\ w \in Agents
    BY <1>a, <2>2 DEF Holds, Agents
  <2>4. /\ \A v \in Threads : Injective(queue'[v])
        /\ dropped \subseteq dropped'
        /\ \A v \in Threads : \A x : v # w \/ x # t =>
              (InSeq(x, queue'[v]) <=> InSeq(x, queue[v]))
        /\ t \in dropped' \/ InSeq(t, queue'[w])
    BY <1>0, <1>13, <2>3, QueueTaskPlaces DEF QueueTriggered, NoDuplicates
  <2>5. Moves({t}, "queue", w)
    BY <1>0, <1>13, <1>a, <2>2, <2>3, <2>4 DEF QueueTriggered, Moves, Holds
  <2>6. Requests' /\ HarvestOK' /\ NoDuplicates'
    BY <1>0, <1>13, <2>4
       DEF QueueTriggered, Requests, HarvestOK, NoDuplicates
  <2>. QED  BY <1>0, <2>5, <2>6, MovesKeepPlaced DEF Residence
<1>14. ASSUME NEW w \in Threads, EventsQueued(w), UNCHANGED managerVars
      PROVE  Residence'
  <2>1. Stays
    BY <1>0, <1>14 DEF EventsQueued, Stays
  <2>. QED  BY <2>1, StaysKeepsResidence
<1>15. ASSUME NEW w \in Threads, DequeNextTask(w), UNCHANGED managerVars
      PROVE  Residence'
  <2>. DEFINE v == ScanTarget(w)
              t == Head(queue[v])
  <2>1. v \in Threads
    BY <1>15, ScanTargetType DEF DequeNextTask, Ctl, TypeOK, WorkerTypeOK
  <2>2. CASE DequeTakes(w)
    <3>1. /\ t \in Tasks /\ InSeq(t, queue[v])
          /\ \A x : InSeq(x, Tail(queue[v])) <=> InSeq(x, queue[v]) /\ x # t
          /\ Injective(Tail(queue[v]))
      BY <1>0, <2>1, <2>2, TailPlaces DEF DequeTakes, NoDuplicates
    <3>2. /\ queue' = [queue EXCEPT ![v] = Tail(queue[v])]
          /\ cur' = [cur EXCEPT ![w] = t]
          /\ tstate' = [tstate EXCEPT ![t] = "Executing"]
          /\ pc' = [pc EXCEPT ![w] = "run"]
          /\ pc[w] = "deque"
          /\ UNCHANGED <<harvest, dropped, unarmed, interest, entrypoints,
                         pending, yield>>
      BY <1>15, <2>2 DEF DequeTakes, DequeNextTask
    <3>. HIDE DEF v, t
    <3>3. Holds("queue", v, t) /\ v \in Agents /\ w \in Agents
      BY <2>1, <3>1 DEF Holds, Agents
    <3>4. \A k \in Kinds, a \in Agents : Holds(k, a, t) => k = "queue" /\ a = v
      BY <1>0, <1>a, <3>1, <3>3, OnlyPlace
    <3>5. /\ \A x : InSeq(x, queue'[v]) <=> InSeq(x, queue[v]) /\ x # t
          /\ \A u \in Threads : u # v => queue'[u] = queue[u]
          /\ Injective(queue'[v])
      BY <1>0, <2>1, <3>1, <3>2
    <3>6. Moves({t}, "thread", w)
      BY <1>0, <1>a, <2>1, <3>1, <3>2, <3>3, <3>4, <3>5 DEF Moves, Holds
    <3>7. \A u \in Threads : pc[u] \in OnThread => cur[u] # t
      BY <1>a, <3>4 DEF Holds, OnThread, Agents
    <3>8. Requests'
      BY <1>0, <3>1, <3>2, <3>7 DEF Requests, OnThread
    <3>9. HarvestOK' /\ NoDuplicates'
      BY <1>0, <2>1, <3>2, <3>5 DEF HarvestOK, NoDuplicates
    <3>. QED  BY <1>0, <3>6, <3>8, <3>9, MovesKeepPlaced DEF Residence
  <2>3. CASE DequePasses(w)
    <3>1. Stays
      BY <1>15, <2>3 DEF DequePasses, DequeNextTask, Stays
    <3>. QED  BY <3>1, StaysKeepsResidence
  <2>. QED  BY <1>15, <2>2, <2>3, DequeCases
<1>16. ASSUME NEW w \in Threads, NothingToRun(w), UNCHANGED managerVars
      PROVE  Residence'
  <2>1. Stays
    BY <1>0, <1>16 DEF NothingToRun, Stays
  <2>. QED  BY <2>1, StaysKeepsResidence
<1>17. ASSUME NEW w \in Threads, NEW t \in Tasks, PerformAsync(w, t),
             UNCHANGED managerVars
      PROVE  Residence'
  <2>1. \A k \in Kinds, a \in Agents : ~Holds(k, a, t)
    BY <1>0, <1>17, UnbornIsNowhere DEF PerformAsync
  <2>2. ~InSeq(t, queue[w]) /\ w \in Agents
    BY <1>a, <2>1 DEF Holds, Agents
  <2>3. /\ \A v \in Threads : Injective(queue'[v])
        /\ dropped \subseteq dropped'
        /\ \A v \in Threads : \A x : v # w \/ x # t =>
              (InSeq(x, queue'[v]) <=> InSeq(x, queue[v]))
        /\ t \in dropped' \/ InSeq(t, queue'[w])
    BY <1>0, <1>17, <2>2, QueueTaskPlaces DEF PerformAsync, NoDuplicates
  <2>4. Moves({t}, "queue", w)
    BY <1>0, <1>17, <1>a, <2>1, <2>2, <2>3 DEF PerformAsync, Moves, Holds
  <2>5. Requests'
    BY <1>0, <1>17 DEF PerformAsync, Requests, CurOK
  <2>6. HarvestOK' /\ NoDuplicates'
    BY <1>0, <1>17, <2>3 DEF PerformAsync, HarvestOK, NoDuplicates
  <2>. QED  BY <1>0, <2>4, <2>5, <2>6, MovesKeepPlaced DEF Residence
<1>18. ASSUME NEW w \in Threads, PerformAsyncInterrupt(w),
             UNCHANGED managerVars
      PROVE  Residence'
  <2>1. Stays
    BY <1>0, <1>18 DEF PerformAsyncInterrupt, Stays
  <2>. QED  BY <2>1, StaysKeepsResidence
<1>19. ASSUME NEW w \in Threads, Yield(w), UNCHANGED managerVars
      PROVE  Residence'
  <2>. DEFINE t == cur[w]
  <2>1. t \in Tasks /\ Holds("thread", w, t) /\ w \in Agents
    BY <1>0, <1>19 DEF Yield, CurOK, Holds, Agents
  <2>. HIDE DEF t
  <2>2. \A k \in Kinds, a \in Agents : Holds(k, a, t) => k = "thread" /\ a = w
    BY <1>0, <1>a, <2>1, OnlyPlace
  <2>3. \A u \in Threads : u # w /\ pc[u] \in OnThread => cur[u] # t
    BY <1>a, <2>2 DEF Holds, OnThread, Agents
  <2>4. Moves({t}, "thread", w)
    BY <1>0, <1>19, <1>a, <2>1, <2>2 DEF Yield, Suspend, Moves, Holds, t
  <2>5. Requests'
    BY <1>0, <1>19, <2>1, <2>3 DEF Yield, Suspend, Requests, OnThread, t
  <2>6. HarvestOK' /\ NoDuplicates'
    BY <1>0, <1>19 DEF Yield, HarvestOK, NoDuplicates
  <2>. QED  BY <1>0, <2>4, <2>5, <2>6, MovesKeepPlaced DEF Residence
<1>20. ASSUME NEW w \in Threads, WaitEvent(w), UNCHANGED managerVars
      PROVE  Residence'
  <2>. DEFINE t == cur[w]
  <2>1. t \in Tasks /\ Holds("thread", w, t) /\ w \in Agents
    BY <1>0, <1>20 DEF WaitEvent, CurOK, Holds, Agents
  <2>. HIDE DEF t
  <2>2. \A k \in Kinds, a \in Agents : Holds(k, a, t) => k = "thread" /\ a = w
    BY <1>0, <1>a, <2>1, OnlyPlace
  <2>3. \A u \in Threads : u # w /\ pc[u] \in OnThread => cur[u] # t
    BY <1>a, <2>2 DEF Holds, OnThread, Agents
  <2>4. Moves({t}, "thread", w)
    BY <1>0, <1>20, <1>a, <2>1, <2>2 DEF WaitEvent, Suspend, Moves, Holds, t
  <2>5. Requests'
    BY <1>0, <1>20, <2>1, <2>3 DEF WaitEvent, Suspend, Requests, OnThread, t
  <2>6. HarvestOK' /\ NoDuplicates'
    BY <1>0, <1>20 DEF WaitEvent, HarvestOK, NoDuplicates
  <2>. QED  BY <1>0, <2>4, <2>5, <2>6, MovesKeepPlaced DEF Residence
<1>21. ASSUME NEW w \in Threads, Exit(w), UNCHANGED managerVars
      PROVE  Residence'
  <2>. DEFINE t == cur[w]
  <2>1. t \in Tasks /\ Holds("thread", w, t) /\ w \in Agents
    BY <1>0, <1>21 DEF Exit, CurOK, Holds, Agents
  <2>. HIDE DEF t
  <2>2. \A k \in Kinds, a \in Agents : Holds(k, a, t) => k = "thread" /\ a = w
    BY <1>0, <1>a, <2>1, OnlyPlace
  <2>3. \A u \in Threads : u # w /\ pc[u] \in OnThread => cur[u] # t
    BY <1>a, <2>2 DEF Holds, OnThread, Agents
  <2>4. Moves({t}, "thread", w)
    BY <1>0, <1>21, <1>a, <2>1, <2>2 DEF Exit, Suspend, Moves, Holds, t
  <2>5. Requests'
    BY <1>0, <1>21, <2>1, <2>3 DEF Exit, Suspend, Requests, OnThread, t
  <2>6. HarvestOK' /\ NoDuplicates'
    BY <1>0, <1>21 DEF Exit, HarvestOK, NoDuplicates
  <2>. QED  BY <1>0, <2>4, <2>5, <2>6, MovesKeepPlaced DEF Residence
<1>22. ASSUME NEW w \in Threads, Return(w), UNCHANGED managerVars
      PROVE  Residence'
  <2>. DEFINE t == cur[w]
  <2>1. t \in Tasks /\ Holds("thread", w, t) /\ w \in Agents
    BY <1>0, <1>22 DEF Return, CurOK, Holds, Agents
  <2>. HIDE DEF t
  <2>2. \A k \in Kinds, a \in Agents : Holds(k, a, t) => k = "thread" /\ a = w
    BY <1>0, <1>a, <2>1, OnlyPlace
  <2>3. \A u \in Threads : u # w /\ pc[u] \in OnThread => cur[u] # t
    BY <1>a, <2>2 DEF Holds, OnThread, Agents
  <2>4. \A x \in Tasks : interest'[x] = "armed" <=> interest[x] = "armed"
    <3>1. interest[t] # "armed"
      BY <1>a, <2>1, <2>2, IndexFacts DEF Holds
    <3>. QED  BY <1>0, <1>22, <2>1, <3>1 DEF Return, RemoveEvent, t
  <2>5. Moves({t}, "thread", w)
    BY <1>0, <1>22, <1>a, <2>1, <2>2, <2>4 DEF Return, Moves, Holds, t
  <2>6. Requests'
    BY <1>0, <1>22, <2>1, <2>3 DEF Return, Requests, OnThread, t
  <2>7. HarvestOK' /\ NoDuplicates'
    BY <1>0, <1>22 DEF Return, HarvestOK, NoDuplicates
  <2>. QED  BY <1>0, <2>5, <2>6, <2>7, MovesKeepPlaced DEF Residence
<1>23. ASSUME NEW w \in Threads, PostEvent(w), UNCHANGED managerVars
      PROVE  Residence'
  <2>. DEFINE t == cur[w]
  <2>1. t \in Tasks /\ Holds("thread", w, t) /\ w \in Agents
    BY <1>0, <1>23 DEF PostEvent, CurOK, Holds, Agents
  <2>. HIDE DEF t
  <2>2. \A k \in Kinds, a \in Agents : Holds(k, a, t) => k = "thread" /\ a = w
    BY <1>0, <1>a, <2>1, OnlyPlace
  <2>3. \A u \in Threads : u # w /\ pc[u] \in OnThread => cur[u] # t
    BY <1>a, <2>2 DEF Holds, OnThread, Agents
  <2>4. /\ interest[t] # "armed"
        /\ tstate[t] = "Suspended"
        /\ ~yield[w]
    BY <1>0, <1>23, <1>a, <2>1, <2>2, IndexFacts
       DEF PostEvent, Holds, Requests, t
  <2>5. /\ \A x \in Tasks : x # t => interest'[x] = interest[x]
        /\ t \in unarmed' \/ interest'[t] = "armed"
        /\ unarmed \subseteq unarmed'
    BY <1>0, <1>23, <2>1 DEF PostEvent, EpollCtlArm, t
  <2>6. /\ \/ /\ pc' = [pc EXCEPT ![w] = "deque"]
              /\ cur' = [cur EXCEPT ![w] = NoTask]
           \/ pc' = [pc EXCEPT ![w] = "mark"] /\ cur' = cur
        /\ pending' = [pending EXCEPT ![w] = FALSE]
        /\ UNCHANGED <<queue, harvest, entrypoints, tstate, dropped, yield>>
        /\ pc[w] = "post"
    BY <1>23 DEF PostEvent
  <2>7. Moves({t}, "epoll", Owner)
    <3>1. \A a \in Threads : \A x :
              cur'[a] = x /\ pc'[a] \in {"run", "spawned", "post"} <=>
              a # w /\ cur[a] = x /\ pc[a] \in {"run", "spawned", "post"}
      BY <1>0, <2>6
    <3>2. cur[w] = t
      BY DEF t
    <3>3. ASSUME NEW x \in Tasks, x # t, NEW k \in Kinds, NEW a \in Agents
          PROVE  Holds(k, a, x)' <=> Holds(k, a, x)
      BY <1>a, <2>5, <2>6, <3>1, <3>2, <3>3 DEF Holds
    <3>4. ASSUME NEW x \in Tasks, x = t, NEW k \in Kinds, NEW a \in Agents,
                 Holds(k, a, x)'
          PROVE  k = "epoll" /\ a = Owner
      BY <1>a, <2>1, <2>2, <2>6, <3>1, <3>2, <3>4 DEF Holds
    <3>5. ASSUME NEW x \in Tasks, x = t
          PROVE  x \in unarmed' \/ Holds("epoll", Owner, x)'
      BY <2>5, <3>5 DEF Holds
    <3>. QED  BY <1>a, <2>1, <2>4, <2>5, <2>6, <3>3, <3>4, <3>5, IndexFacts
          DEF Moves
  <2>8. Requests'
    BY <1>0, <2>4, <2>6 DEF Requests
  <2>9. HarvestOK' /\ NoDuplicates'
    BY <1>0, <2>6 DEF HarvestOK, NoDuplicates
  <2>. QED  BY <1>0, <2>7, <2>8, <2>9, MovesKeepPlaced DEF Residence
<1>24. ASSUME NEW w \in Threads, PostMark(w), UNCHANGED managerVars
      PROVE  Residence'
  <2>1. Stays
    BY <1>0, <1>24 DEF PostMark, OnThread, Stays
  <2>. QED  BY <2>1, StaysKeepsResidence
<1>25. ASSUME NEW w \in Threads, PostYield(w), UNCHANGED managerVars
      PROVE  Residence'
  <2>. DEFINE t == cur[w]
  <2>1. t \in Tasks /\ Holds("thread", w, t) /\ w \in Agents
    BY <1>0, <1>25 DEF PostYield, CurOK, Holds, Agents
  <2>. HIDE DEF t
  <2>2. \A k \in Kinds, a \in Agents : Holds(k, a, t) => k = "thread" /\ a = w
    BY <1>0, <1>a, <2>1, OnlyPlace
  <2>3. \A u \in Threads : u # w /\ pc[u] \in OnThread => cur[u] # t
    BY <1>a, <2>2 DEF Holds, OnThread, Agents
  <2>4. ~InSeq(t, queue[w]) /\ tstate[t] = "Suspended"
    BY <1>0, <1>25, <1>a, <2>1, <2>2 DEF PostYield, Holds, Requests, t
  <2>5. /\ \A v \in Threads : Injective(queue'[v])
        /\ dropped \subseteq dropped'
        /\ \A v \in Threads : \A x : v # w \/ x # t =>
              (InSeq(x, queue'[v]) <=> InSeq(x, queue[v]))
        /\ t \in dropped' \/ InSeq(t, queue'[w])
    BY <1>0, <1>25, <2>1, <2>4, QueueTaskPlaces DEF PostYield, NoDuplicates, t
  <2>6. Moves({t}, "queue", w)
    BY <1>0, <1>25, <1>a, <2>1, <2>2, <2>4, <2>5 DEF PostYield, Moves, Holds, t
  <2>7. Requests'
    BY <1>0, <1>25, <2>1 DEF PostYield, Requests
  <2>8. HarvestOK' /\ NoDuplicates'
    BY <1>0, <1>25, <2>5 DEF PostYield, HarvestOK, NoDuplicates
  <2>. QED  BY <1>0, <2>6, <2>7, <2>8, MovesKeepPlaced DEF Residence
<1>26. ASSUME NEW w \in Threads, PostDestroy(w), UNCHANGED managerVars
      PROVE  Residence'
  <2>. DEFINE t == cur[w]
  <2>1. t \in Tasks /\ Holds("thread", w, t) /\ w \in Agents
    BY <1>0, <1>26 DEF PostDestroy, CurOK, Holds, Agents
  <2>. HIDE DEF t
  <2>2. \A k \in Kinds, a \in Agents : Holds(k, a, t) => k = "thread" /\ a = w
    BY <1>0, <1>a, <2>1, OnlyPlace
  <2>3. \A u \in Threads : u # w /\ pc[u] \in OnThread => cur[u] # t
    BY <1>a, <2>2 DEF Holds, OnThread, Agents
  <2>4. Moves({t}, "thread", w)
    BY <1>0, <1>26, <1>a, <2>1, <2>2 DEF PostDestroy, Moves, Holds, t
  <2>5. Requests'
    BY <1>0, <1>26, <2>1, <2>3 DEF PostDestroy, Requests, OnThread, t
  <2>6. HarvestOK' /\ NoDuplicates'
    BY <1>0, <1>26 DEF PostDestroy, HarvestOK, NoDuplicates
  <2>. QED  BY <1>0, <2>4, <2>5, <2>6, MovesKeepPlaced DEF Residence
<1>27. ASSUME NEW a \in Agents, StopLook(a)
      PROVE  Residence'
  <2>1. Stays
    BY <1>0, <1>27 DEF StopLook, Stays
  <2>. QED  BY <2>1, StaysKeepsResidence
<1>28. ASSUME NEW a \in Agents, StopRound(a)
      PROVE  Residence'
  <2>1. Stays
    BY <1>0, <1>28, IndexFacts DEF StopRound, InStopInternal, Stays
  <2>. QED  BY <2>1, StaysKeepsResidence
<1>29. ASSUME NEW w \in Threads, ThreadStopped(w)
      PROVE  Residence'
  <2>1. Stays
    BY <1>0, <1>29 DEF ThreadStopped, Stays
  <2>. QED  BY <2>1, StaysKeepsResidence
<1>30. ASSUME NEW w \in Threads, NEW H \in SUBSET Tasks, WaitReturns(w, H),
             UNCHANGED managerVars
      PROVE  Residence'
  <2>1. ASSUME NEW t \in H
        PROVE  /\ t \in Tasks
               /\ \A k \in Kinds, a \in Agents :
                     Holds(k, a, t) => k = "epoll" /\ a = Owner
               /\ tstate[t] \in {"NotStarted", "Suspended"}
    <3>1. t \in Tasks /\ Holds("epoll", Owner, t)
      BY <1>30 DEF WaitReturns, EpollWait, Holds
    <3>. QED  BY <1>0, <1>a, <3>1, OnlyPlace, IndexFacts
  <2>2. harvest[w] = {} /\ w \in Agents
    BY <1>0, <1>30 DEF WaitReturns, HarvestOK, Agents
  <2>3. /\ \A t \in Tasks :
              interest'[t] = "armed" <=> interest[t] = "armed" /\ t \notin H
        /\ harvest' = [harvest EXCEPT ![w] = H]
        /\ UNCHANGED <<queue, cur, pending, yield, tstate, dropped, unarmed,
                       entrypoints>>
        /\ pc[w] = "wait" /\ pc' = [pc EXCEPT ![w] = "drain"]
    BY <1>0, <1>30 DEF WaitReturns, EpollWait
  <2>4. Moves(H, "harvest", w)
    BY <1>0, <1>a, <2>1, <2>2, <2>3 DEF Moves, Holds
  <2>5. Requests' /\ HarvestOK' /\ NoDuplicates'
    BY <1>0, <2>3 DEF Requests, HarvestOK, NoDuplicates
  <2>. QED  BY <1>0, <2>4, <2>5, MovesKeepPlaced DEF Residence
<1>31. ASSUME NEW w \in Threads, WaitInterrupted(w), UNCHANGED managerVars
      PROVE  Residence'
  <2>1. Stays
    BY <1>0, <1>31 DEF WaitInterrupted, Stays
  <2>. QED  BY <2>1, StaysKeepsResidence
<1>32. ASSUME Destroy
      PROVE  Residence'
  <2>1. Stays
    BY <1>0, <1>32 DEF Destroy, Stays
  <2>. QED  BY <2>1, StaysKeepsResidence
<1>33. ASSUME JoinWorker
      PROVE  Residence'
  <2>1. Stays
    BY <1>0, <1>33 DEF JoinWorker, Stays
  <2>. QED  BY <2>1, StaysKeepsResidence
<1>34. ASSUME FreeThreads
      PROVE  Residence'
  <2>1. Stays
    BY <1>0, <1>34 DEF FreeThreads, Stays
  <2>. QED  BY <2>1, StaysKeepsResidence
<1>35. CASE UNCHANGED vars
  <2>1. Stays
    BY <1>35 DEF vars, Stays
  <2>. QED  BY <2>1, StaysKeepsResidence
<1>. HIDE DEF managerVars, eventVars, workerVars, Goto
<1>. QED
  BY <1>1, <1>2, <1>3, <1>4, <1>5, <1>6, <1>7, <1>8, <1>9, <1>10, <1>11,
     <1>12, <1>13, <1>14, <1>15, <1>16, <1>17, <1>18, <1>19, <1>20, <1>21,
     <1>22, <1>23, <1>24, <1>25, <1>26, <1>27, <1>28, <1>29, <1>30, <1>31,
     <1>32, <1>33, <1>34, <1>35 DEF Next, RunStep, WorkerStep, LoopStep,
     TaskStep, PostStep, StopInternalStep, Wakes, DestroyStep, Agents

(* Residence is invariant, whenever signals arrive.                        *)
LEMMA ResidenceInductive == Spec => []Residence
<1>1. Init => Residence
  <2>1. Init => Requests /\ HarvestOK
    BY DEF Init, WorkerInit, Requests, HarvestOK
  <2>2. Init => NoDuplicates
    <3>1. Injective(<<>>)
      BY DEF Injective
    <3>. QED  BY <3>1 DEF Init, WorkerInit, NoDuplicates
  <2>3. Init => Placed
    <3>1. \A x : ~InSeq(x, <<>>)
      BY DEF InSeq
    <3>. QED  BY <3>1 DEF Init, WorkerInit, EventInit, Placed, Holds, Kinds
  <2>. QED  BY <2>1, <2>2, <2>3 DEF Residence
<1>2. Ctl /\ Sched /\ Residence /\ [Next]_vars => Residence'
  BY ResidenceStep
<1>. QED  BY <1>1, <1>2, CtlInductive, SchedInductive, PTL DEF Spec

(* No task is ever held twice: two threads never resume the same fiber, in *)
(* whatever order events, steals, yields and signals come (DequeNextTask,  *)
(* PostTask, AddEvent and Wait hand each task on exactly once).            *)
THEOREM OneHolder == Spec => []OnePlace
<1>1. Residence => OnePlace
  <2>. SUFFICES ASSUME Residence, NEW t \in Tasks
                PROVE  Cardinality(Places(t)) <= 1
    BY DEF Residence, NoDuplicates, OnePlace
  <2>1. \A p, q \in Places(t) : p = q
    BY DEF Residence, Placed, Places
  <2>2. CASE Places(t) = {}
    BY <2>2, FS_EmptySet
  <2>3. CASE Places(t) # {}
    <3>1. PICK p : p \in Places(t)
      BY <2>3
    <3>2. Places(t) = {p}
      BY <2>1, <3>1
    <3>. QED  BY <3>2, FS_Singleton
  <2>. QED  BY <2>2, <2>3
<1>. QED  BY <1>1, ResidenceInductive, PTL

(* The assertion of ThreadProc on the task it takes holds wherever a task  *)
(* waits: it is not executing anywhere and has not been destroyed.         *)
THEOREM TakenIsResumable == Spec => []HeldIsResumable
<1>1. Residence => HeldIsResumable
  BY DEF Residence, Placed, HeldIsResumable, Places
<1>. QED  BY <1>1, ResidenceInductive, PTL

(* No task is lost but by a full ring or a failed epoll_ctl: between       *)
(* AddEntryPoint or PerformAsync and its destruction every task is held.   *)
THEOREM NoTaskIsLost == Spec => []Accounted
<1>1. Residence => Accounted
  <2>. SUFFICES ASSUME Residence, NEW t \in Tasks \ (dropped \cup unarmed),
                       tstate[t] \in {"NotStarted", "Executing", "Suspended"}
                PROVE  Places(t) # {}
    BY DEF Accounted
  <2>1. PICK k \in Kinds, a \in Agents : Holds(k, a, t)
    BY DEF Residence, Placed
  <2>2. <<k, a>> \in Places(t)
    BY <2>1 DEF Places
  <2>. QED  BY <2>2
<1>. QED  BY <1>1, ResidenceInductive, PTL
=============================================================================
