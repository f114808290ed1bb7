-------------------------------- MODULE Main --------------------------------
(***************************************************************************)
(* The program (main/main.cc): XYEntrypoint reads the configuration, makes *)
(* the subsystems one by one in its frame, each with its Deps on earlier   *)
(* ones, runs the task manager until it is told to stop, and destroys the  *)
(* frame in reverse; the exit handler (os/utils.cc) and the task that      *)
(* executes files (main/execute_files.h) tell it to. Assertions and the    *)
(* tracking of Deps are on, as in a debug build. Of the worker threads only *)
(* who is started, told to stop and awaited is kept here: how they wake    *)
(* each other is TaskManager's subject, how the configuration is read is   *)
(* Config's.                                                               *)
(***************************************************************************)
EXTENDS Integers, Sequences, SequencesExt

CONSTANTS
    Threads,        \* worker threads
    MainThread,     \* the one whose worker is the thread of main()
    Sessions,       \* bound: connections whose endpoint is served
    Settings        \* per key: the lists of values it may have; <<>> if unset

ASSUME MainAssumption ==
    /\ MainThread \in Threads
    /\ \A key \in DOMAIN Settings : \A list \in Settings[key] :
          \A i \in DOMAIN list : list[i].type \in {"int", "double", "bool", "string"}

VARIABLES
    conf,           \* the configuration: per key a list of values
    pc,             \* where XYEntrypoint is
    code,           \* what main() is to return
    frame,          \* what exists, in the order of construction
    tasks,          \* the TaskManager: "none", "made", "running" (threads_ is set), "gone"
    entrypoints,    \* the arguments of the ExecuteFiles task that waits, or <<>>
    userData,       \* threads whose SharedDeps exist
    told,           \* threads whose running_ was set to false
    left,           \* threads that have left their loop: finished_
    awaits,         \* per thread that has left: whom its StopInternal waits for
    suspended,      \* tasks whose stack holds a slang::Context
    exit_handler,   \* whether the handler is set up
    exit_called,
    alarm           \* the object whose destructor found a Dep on it, or "none"

threadVars == <<userData, told, left, awaits>>
mainVars == <<conf, pc, code, frame, tasks, entrypoints, threadVars, suspended,
              exit_handler, exit_called, alarm>>

MainInit ==
    /\ conf \in {c \in [DOMAIN Settings -> UNION {Settings[key] : key \in DOMAIN Settings}] :
                    \A key \in DOMAIN Settings : c[key] \in Settings[key]}
    /\ pc = "config"
    /\ code = 0
    /\ frame = <<"allocator">>
    /\ tasks = "none"
    /\ entrypoints = <<>>
    /\ userData = {} /\ told = {} /\ left = {}
    /\ awaits = [t \in Threads |-> {}]
    /\ suspended = {}
    /\ exit_handler = FALSE
    /\ exit_called = FALSE
    /\ alarm = "none"

-----------------------------------------------------------------------------
(* Config::Get: no value when the key is not set or of another type.       *)
Has(key, type) == conf[key] # <<>> /\ conf[key][1].type = type

Get(key) == conf[key][1].value

(* ConfigList::AsArray<CStrSpan>, and whether it has a value.              *)
AsArray(list) == \A i \in DOMAIN list : list[i].type = "string"

Strings(list) == [i \in DOMAIN list |-> list[i].value]

Finished == pc \in {"ended", "aborted", "crashed", "killed"}

(* A return -1 before Run.                                                 *)
Fail ==
    /\ pc' = "return"
    /\ code' = -1
    /\ UNCHANGED <<frame, tasks, entrypoints>>

(* The next variable of the frame.                                         *)
ConstructVariable(object, next) ==
    /\ frame' = Append(frame, object)
    /\ pc' = next
    /\ UNCHANGED <<code, tasks, entrypoints>>

(* LoadConfig may fail.                                                    *)
LoadConfig ==
    /\ pc = "config"
    /\ Fail \/ ConstructVariable("config", "log")

(* CreateLog may fail: log level, log file.                                *)
OpenLog ==
    /\ pc = "log"
    /\ Fail \/ ConstructVariable("log", "tasks")

ThreadsAccepted ==
    IF Has("task.num-threads", "string") THEN Get("task.num-threads") = "auto"
    ELSE ~Has("task.num-threads", "int")

EventsAccepted ==
    Has("events.max-events-at-once", "int") => Get("events.max-events-at-once") > 0

(* The object is made; a variable that owns it comes later.                *)
CreateTaskManager ==
    /\ pc = "tasks"
    /\ IF ~ThreadsAccepted \/ ~EventsAccepted
       THEN Fail
       ELSE tasks' = "made" /\ pc' = "types" /\ UNCHANGED <<code, frame, entrypoints>>

(* Fault: the task manager's variable comes before the others.             *)
ConstructNextOwned ==
    \/ pc = "types" /\ ConstructVariable("task_manager", "storage")
    \/ pc = "storage" /\ ConstructVariable("storage", "json")
    \/ pc = "json" /\ ConstructVariable("json_payload_handler", "env")
    \/ pc = "env" /\ ConstructVariable("slang_env", "own")
    \/ pc = "own" /\ ConstructVariable("type_manager", "tcp")

(* The variables whose construction cannot fail, and what follows each;    *)
(* "task_manager" is the one that owns the object made before.             *)
ConstructNext ==
    \/ pc = "types" /\ ConstructVariable("type_manager", "storage")
    \/ pc = "storage" /\ ConstructVariable("storage", "json")
    \/ pc = "json" /\ ConstructVariable("json_payload_handler", "env")
    \/ pc = "env" /\ ConstructVariable("slang_env", "own")
    \/ pc = "own" /\ ConstructVariable("task_manager", "tcp")

(* The addresses must be strings, and ParseIPAddress must accept them.     *)
CreateTcpManager ==
    /\ pc = "tcp"
    /\ \/ conf["tcp.bind"] # <<>> /\ Fail
       \/ AsArray(conf["tcp.bind"]) /\ ConstructVariable("tcp", "handler")

CreateExitHandler ==
    /\ pc = "handler"
    /\ exit_handler' = TRUE
    /\ pc' = "execs"
    /\ UNCHANGED <<conf, code, frame, tasks, entrypoints, threadVars, suspended,
                   exit_called, alarm>>

ScheduleConfigExecs ==
    /\ pc = "execs"
    /\ IF ~AsArray(conf["exec"])
       THEN Fail
       ELSE /\ entrypoints' = Strings(conf["exec"])
            /\ pc' = "run"
            /\ UNCHANGED <<code, frame, tasks>>

(* The hooks are added, and Run allocates the threads.                     *)
Run ==
    /\ pc = "run"
    /\ pc' = "starting"
    /\ tasks' = "running"
    /\ UNCHANGED <<conf, code, frame, entrypoints, threadVars, suspended,
                   exit_handler, exit_called, alarm>>

Started == userData \cup left

(* Run constructs a thread, gives it SharedDeps and starts it, the one of  *)
(* main() last. The constructor sets running_: a Stop that came before is  *)
(* lost on this thread, unless it is executed by another one and reaches   *)
(* this one only now.                                                      *)
StartThread(t) ==
    /\ pc = "starting" /\ t \notin Started
    /\ t = MainThread => Threads \ {MainThread} \subseteq Started
    /\ userData' = userData \cup {t}
    /\ told' = told \ {t} \/ (told \cap Started # {} /\ told' = told)
    /\ pc' = IF t = MainThread THEN "running" ELSE pc
    /\ UNCHANGED <<conf, code, frame, tasks, entrypoints, left, awaits, suspended,
                   exit_handler, exit_called, alarm>>

(* Run returns when the worker of this thread has ended.                   *)
RunReturns ==
    /\ pc = "running"
    /\ MainThread \notin userData
    /\ pc' = "return"
    /\ UNCHANGED <<code, frame, tasks, entrypoints>>

FrameStep ==
    /\ \/ LoadConfig \/ OpenLog \/ CreateTaskManager \/ ConstructNext
       \/ CreateTcpManager \/ ScheduleConfigExecs \/ RunReturns
    /\ UNCHANGED <<conf, threadVars, suspended, exit_handler, exit_called, alarm>>

-----------------------------------------------------------------------------
(* The Deps that a variable of the frame has as a member, or its members   *)
(* have; the task manager's begin when it is made.                         *)
DepsOf(object) ==
    CASE object = "type_manager" -> {"log", "allocator"}
      [] object = "json_payload_handler" -> {"storage"}
      [] object = "slang_env" -> {"json_payload_handler"}
      [] OTHER -> {}

SharedDeps == {"slang_env", "storage", "type_manager"}

Referred ==
    (UNION {DepsOf(frame[i]) : i \in DOMAIN frame})
        \cup (IF tasks \in {"none", "gone"} THEN {} ELSE {"log"})
        \cup (IF userData = {} THEN {} ELSE SharedDeps)
        \cup (IF suspended = {} THEN {} ELSE {"slang_env"})

(* The last variable's destructor: a Dependable asserts that nobody refers *)
(* to it; that of the task manager waits for the other threads first.      *)
DestroyVariable ==
    LET object == Last(frame)
    IN  /\ pc = "return" /\ frame # <<>>
        /\ object = "task_manager" => userData = {}
        /\ IF object \in Referred
           THEN pc' = "aborted" /\ alarm' = object /\ UNCHANGED <<frame, tasks>>
           ELSE /\ frame' = Front(frame)
                /\ tasks' = IF object = "task_manager" THEN "gone" ELSE tasks
                /\ UNCHANGED <<pc, alarm>>
        /\ UNCHANGED <<conf, code, entrypoints, threadVars, suspended, exit_handler, exit_called>>

Return ==
    /\ pc = "return" /\ frame = <<>>
    /\ pc' = "ended"
    /\ UNCHANGED <<conf, code, frame, tasks, entrypoints, threadVars, suspended,
                   exit_handler, exit_called, alarm>>

-----------------------------------------------------------------------------
(* A worker thread leaves its loop when told. Its StopInternal will wait   *)
(* for the others to do so; what it reads as finished_ of one that is not  *)
(* constructed yet may be true already.                                    *)
LeavesLoop(t) ==
    /\ t \in Started \ left /\ t \in told
    /\ left' = left \cup {t}
    /\ \E found \in SUBSET (Threads \ Started) :
          awaits' = [awaits EXCEPT ![t] = Threads \ found]
    /\ UNCHANGED <<conf, pc, code, frame, tasks, entrypoints, userData, told,
                   suspended, exit_handler, exit_called, alarm>>

(* StopInternal tells those that have not left.                            *)
TellsOthers(t) ==
    /\ t \in left /\ t \in userData
    /\ told' = told \cup (Threads \ left)
    /\ UNCHANGED <<conf, pc, code, frame, tasks, entrypoints, userData, left, awaits,
                   suspended, exit_handler, exit_called, alarm>>

(* The others have left their loops, and the hook destroys the SharedDeps  *)
(* of the thread.                                                          *)
ThreadEnds(t) ==
    /\ t \in left /\ t \in userData
    /\ awaits[t] \subseteq left
    /\ userData' = userData \ {t}
    /\ UNCHANGED <<conf, pc, code, frame, tasks, entrypoints, told, left, awaits,
                   suspended, exit_handler, exit_called, alarm>>

(* Some thread is in its loop and the entry points, handed to that of      *)
(* main(), are there.                                                      *)
Working == MainThread \in Started /\ Started # left

(* A connection is accepted and its endpoint waits for a request.          *)
SessionOpens(s) ==
    /\ Working /\ s \notin suspended
    /\ suspended' = suspended \cup {s}
    /\ UNCHANGED <<conf, pc, code, frame, tasks, entrypoints, threadVars,
                   exit_handler, exit_called, alarm>>

SessionCloses(s) ==
    /\ Working /\ s \in suspended
    /\ suspended' = suspended \ {s}
    /\ UNCHANGED <<conf, pc, code, frame, tasks, entrypoints, threadVars,
                   exit_handler, exit_called, alarm>>

(* The task: of every file that can be read the first expression is        *)
(* executed. At one that cannot be read it tells the thread it is on to    *)
(* stop and is suspended for good.                                         *)
ExecuteFiles ==
    /\ Working /\ entrypoints # <<>>
    /\ \/ UNCHANGED <<told, suspended>>
       \/ /\ \E t \in Started \ left : told' = told \cup {t}
          /\ suspended' = suspended \cup {"ExecuteFiles"}
    /\ entrypoints' = <<>>
    /\ UNCHANGED <<conf, pc, code, frame, tasks, userData, left, awaits,
                   exit_handler, exit_called, alarm>>

(* Fault: the handler only notes the exit code.                            *)
StopNothing == UNCHANGED <<pc, told>>

(* What comes of Stop in the exit handler. Its Deps were parameters of     *)
(* CreateExitHandler and are gone: what is found in their place may still  *)
(* be a Dep. Then Stop asserts that there are threads, and tells them,     *)
(* constructed or not; when the task manager is gone it may read what was  *)
(* there.                                                                  *)
Stop ==
    \/ pc' = "crashed" /\ UNCHANGED told
    \/ tasks = "running" /\ told' = Threads /\ UNCHANGED pc
    \/ tasks = "gone" /\ UNCHANGED <<pc, told>>

(* SIGINT or SIGTERM. Until the handler is set up it ends the process,     *)
(* afterwards only the first counts.                                       *)
Signal ==
    /\ ~exit_called /\ ~Finished
    /\ exit_called' = TRUE
    /\ IF exit_handler THEN Stop ELSE pc' = "killed" /\ UNCHANGED told
    /\ UNCHANGED <<conf, code, frame, tasks, entrypoints, userData, left, awaits,
                   suspended, exit_handler, alarm>>

MainStep ==
    \/ FrameStep \/ CreateExitHandler \/ Run \/ DestroyVariable \/ Return
    \/ \E t \in Threads : StartThread(t)

ThreadStep(t) == LeavesLoop(t) \/ TellsOthers(t) \/ ThreadEnds(t)

MainNext ==
    \/ ~Finished /\ \/ MainStep
                    \/ \E t \in Threads : ThreadStep(t)
                    \/ \E s \in Sessions : SessionOpens(s) \/ SessionCloses(s)
                    \/ ExecuteFiles
    \/ Signal
    \/ Finished /\ UNCHANGED mainVars

(* main() goes on, a thread that was told to stop gets there, and one that *)
(* has left its loop goes round in StopInternal; that no task keeps a      *)
(* thread busy for ever is assumed.                                        *)
MainSpec ==
    /\ MainInit /\ [][MainNext]_mainVars
    /\ WF_mainVars(~Finished /\ MainStep)
    /\ \A t \in Threads :
          /\ WF_mainVars(~Finished /\ LeavesLoop(t))
          /\ WF_mainVars(~Finished /\ TellsOthers(t))
          /\ WF_mainVars(~Finished /\ ThreadEnds(t))

-----------------------------------------------------------------------------
MainTypeOK ==
    /\ \A key \in DOMAIN Settings : conf[key] \in Settings[key]
    /\ code \in {0, -1}
    /\ IsInjective(frame)
    /\ tasks \in {"none", "made", "running", "gone"}
    /\ entrypoints # <<>> => entrypoints = Strings(conf["exec"])
    /\ userData \subseteq Threads /\ told \subseteq Threads
    /\ left \subseteq Threads /\ awaits \in [Threads -> SUBSET Threads]
    /\ suspended \subseteq Sessions \cup {"ExecuteFiles"}
    /\ exit_handler \in BOOLEAN /\ exit_called \in BOOLEAN
    /\ alarm = "none" \/ alarm \in ToSet(frame)

(* However the program comes to return - a refused setting, a signal, a    *)
(* file that cannot be read - nothing in its frame is destroyed while      *)
(* another part, or the user data of a thread, has a Dep on it. Only the   *)
(* stacks of tasks that never finish may still refer to the environment.   *)
OnlyTasksHold == alarm # "none" => alarm = "slang_env" /\ suspended # {}

(* After a signal the program comes to its end, whatever it was doing:     *)
(* the flags of the threads, which tell each other, and the destructors of *)
(* the frame see to it. The one exception is a signal while Run starts the *)
(* threads, whose constructors overwrite what Stop has told them           *)
(* (worker_thread.cc:19).                                                  *)
StopEnds == <>(exit_called /\ pc = "starting") \/ (exit_called ~> Finished)
=============================================================================
