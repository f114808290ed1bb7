# Xynq: TLA+ models, checks and proofs

Xynq is an object store: clients connect over TCP and send expressions of a
small Lisp, *slang*, that define struct types, create objects and select them.
The server is a set of worker threads that run fibers ("tasks") cooperatively,
woken by one epoll instance. This directory models the parts of it whose
correctness depends on interleavings, on shared state, on how text arrives and
leaves, on who owns what and for how long, and on the arithmetic of layouts and
numbers.

## The system: inventory

| Component (source) | State | Operations | Interacts with |
|---|---|---|---|
| EventQueue (`event/epoll`) | epoll interest list, one eventfd, `is_added_` of each source | AddEvent, RemoveEvent, Wait, Interrupt, InterruptAll | called by workers, by `~TcpStream`, by Stop |
| WorkerThread, Task, TaskContext (`task/`) | `running_`, `finished_`, a ring of tasks, `exec_`, `Task::state_` | ThreadProc, QueueTask, DequeNextTask (steals), Pre/PostTask; Yield, WaitEvent, Exit, PerformAsync | other workers' rings, EventQueue, TaskManager |
| TaskManager (`task/`) | `threads_`, `entrypoints_`, hooks | AddEntryPoint, Run, Stop, StopInternal, destructor | constructs, stops and joins workers; Stop comes from a signal |
| MRSWRing (`containers/`) | cells and two wrapping counters under a mutex | Push, Pop | the queue of every worker |
| TypeManager, TypeVault (`types/`) | a list of schemas under a readers-writer lock; per thread a cache and a dirty flag | CreateVault, FindSchema, HasType, CreateSchema | defstruct, EnsureVaultWithType |
| Storage, ObjectVault (`storage/`) | type name -> object vault; objects, index by guid, a global guid counter | EnsureVaultWithType, CreateObject, Enumerate | create, select; calls FindSchema under its lock |
| Slang commands, Endpoint (`main/`) | per session: a pointer to the per-thread SharedDeps | create, select, defstruct, list, arithmetic | run in tasks that may change threads |
| Schema layout (`types/schema.h`, defstruct, ObjectWriter, JsonSerializer) | size, alignment, fields of a schema | AlignPtr, defstruct's handler, FindDataStore, WriteObject | three walks that must agree |
| Tcp (`net/`) | descriptors, an event source on each task's stack | set up, accept loop, connection handler, DoRead, DoWrite | WaitEvent, PerformAsync, epoll by descriptor |
| Streams (`base/stream`) | a buffer of what was read and of what is to be written | RefillAvailable, ReadAvailableCharUnsafe, WriteData, Flush | sockets and files below, lexer and serializer above |
| Slang lexer, compiler, program (`slang/`) | `LexerState`: depth, term, saved part of a term, escapes; the program; its stack | Run, FinalizeTerm, the compiler's handlers, Execute, calls | StreamReader, Env, Serializer |
| Json (`json/`) | none | Serialize, WriteEscapedString, WriteObject | StreamWriter, schemas |
| Config (`config/`, `main/main.cc`) | key -> list of values; key stack and values of the parser | the parser's handlers, MergeValues, CloneNode, LoadConfig | the lexer, files, the command line |
| Main program (`main/main.cc`, `os/utils.cc`) | the frame of XYEntrypoint, the hooks' user data, the exit handler | make each subsystem, or return early; Run; ExecuteFiles; Stop from a signal; destroy the frame in reverse | every other part, through Deps |
| Log (`base/log`, `os/syslog.h`) | level, file, who closes it, prefix | Create, move, derive with a prefix, write, destroy | made by main, derived from by every worker |
| ScratchAllocator, Arena (`base/`) | a chain of arenas and a position in it | Alloc, AllocAligned, Scoped, Purge, move | the lexer's terms, programs, the configuration's values |
| Dep, Dependable (`base/dep.h`) | a raw pointer and a shared DepLifetime | construct, copy, move, destroy, each with assertions | how all subsystems refer to one another |
| Either, Maybe (`base/`) | a union and a flag | construct, copy, move, assign, Fold, Map | the result of almost every call |
| LinkedStack, List (`containers/`) | links inside the nodes | Push, Pop; PushBack, PushFront, PopFront | List holds the types; LinkedStack is lock-free |
| TaskSemaphore (`task/`) | an atomic count, on a task's stack | Signal, Wait | tasks that wait for tasks |
| StrBuilder (`base/str_build*`) | a buffer that never grows | append text, integers, hexadecimals, doubles | logging, JSON, errors |
| Numbers (`slang/math_funcs.cc`, `storage/object_writer.cc`, `json/`) | none | + - * /, conversion into a field and back | call stack, objects, replies |

What is hard to get right, and hard to test:

* **Wakeups.** All threads sleep on one epoll instance and are woken by one
  eventfd, which the first thread to return drains. Work is queued per thread
  and stolen. Whether a queued task always has somebody awake for it depends on
  the order of push, interrupt, drain and scan.
* **Starting and stopping.** `Run` starts worker 1 before worker 0 exists;
  `Stop` arrives from a signal; every worker that stops waits for the others,
  and the destructor races with stealing.
* **Hand-over of a task** between its thread, epoll, another thread's queue and
  the task's own stack, on which its event source lives.
* **Caches with a dirty flag** that is tested before the list is read and
  cleared after the list has grown; a duplicate check that must not take a lock
  its own thread holds.
* **Locks**: `lock_`, then `rw_lock_`; one lock per object vault around a
  counter all vaults share.
* **Descriptors** that are closed and handed out again while epoll still knows
  sockets by them; an accept loop that has to survive having none left.
* **Text in pieces**: input cut anywhere (inside a name, a string, an escape),
  several expressions in one chunk, replies larger than the buffer, sends that
  take a part, connections that end in the middle.
* **State carried over** from one operation or file of the configuration to the
  next, and lists that override lists.
* **Lifetimes**: raw pointers between parts that are destroyed in reverse order
  after any of nine early returns, while threads and suspended tasks still
  refer to them; unions whose flag has to name the member that lives; one log
  file and many loggers; arenas that are entered again after a scope.
* **Lock-free code**: a stack whose head moves between a load and an exchange;
  a semaphore whose last signal lets its owner destroy it.
* **Boundaries**: counters that wrap, a ring that is full, a buffer that ends
  within a number, integers cut to the width of a field, the least integer, a
  struct without fields.

`PROJECT.json` lists the hazards at their lines, with the properties that cover
each or the reason none does.

What makes the components correct: a task is in one place and never lost; work
is never stranded; a stopped manager ends, and nothing it owns is used after it
was destroyed (tasks). All threads agree on the meaning of a type name and know
a type once it is defined; one object vault per type; a select misses nothing
that was there; every command ends (types and storage). Whoever waits for a
socket is woken, no descriptor leaks, every connection is accepted and in the
end closed (tcp). A program depends on the text alone and not on how it was
cut; every call gets its own arguments; every reply arrives (endpoint). The
configuration is what its documents say, the last one counting. Everything that
is allocated, opened or constructed is given back once and not used afterwards,
and a program that is told to stop ends (lifetimes). The ring is a FIFO and the
stack a stack; a semaphore lets nobody through early and everybody in the end;
numbers that are printed or stored read back as themselves; all walks over an
object agree on where its fields are (structures).

## Modules

| Module | Models | Notes |
|---|---|---|
| `EventQueue` | `event/epoll/event/eventqueue.cc` | operators on the interest list and the eventfd |
| `WorkerThread` (extends it) | `task/worker_thread.cc`, `task.cc`, `task_context.cc` | one action per step another thread can see |
| `TaskManager` (extends it) | `task/task_manager.cc` | the composed specification and its properties |
| `MCTaskManager` | | the repository's comments stated as properties |
| `TaskManager_proofs` | | theorems: types, and that no wakeup is lost |
| `TaskLifecycle_proofs` (extends it) | | theorems: starting, stopping, and where tasks are |
| `TypeVault` | `types/type_vault.h`, `.cc` | lookups and CreateSchema by sessions |
| `Storage` (extends it) | `storage/` | EnsureVaultWithType, CreateObject, Enumerate |
| `SlangEnv` (extends it) | `main/slang_env.cc`, `endpoint.cc` | commands by sessions; the composed specification, its properties and `VaultConfined`, the contract they rest on |
| `MCSlangEnv` | | the repository's comments stated as properties |
| `SlangEnv_proofs` | | theorems about types, storage and commands |
| `Tcp` | `net/tcp.cc`, `AddEvent`, `RemoveEvent` | accept tasks, connection tasks, descriptors, epoll by descriptor |
| `Tcp_proofs` | | theorems about descriptors and event sources |
| `StreamReader` | `base/stream`, `TcpStream::DoRead` | a text received in chunks |
| `Lexer` (extends it) | `slang/lexer.h`, `.cc`, `compiler.cc` | one action per branch of `Lexer::Run` |
| `Program` (extends it) | `slang/program.cc`, `call.h` | the code on a stack with frames |
| `JsonSerializer` (extends it) | `json/json_serializer.cc` | the text of a reply |
| `StreamWriter` | `base/stream`, `TcpStream::DoWrite` | pieces, a buffer, partial sends |
| `Endpoint` (extends both) | `main/endpoint.cc`, `slang/slang.cc` | one connection; the composed specification |
| `MCEndpoint` | | the texts, a reference reading and a reference evaluation |
| `Endpoint_proofs` | | theorems about reading, frames and replies |
| `Config` | `config/`, `LoadConfig` of `main/main.cc` | the parser's handlers and the order of loading |
| `MCConfig` | | a reference reading of documents, and the finding about words |
| `Config_proofs` | | theorems about the parser's stacks and the merge of maps |
| `ScratchAllocator` | `base/scratch_allocator`, `arena.h` | blocks in a chain of arenas |
| `Either` | `base/either.h`, `maybe.h` | a union, its flag and what its member owns |
| `Dep` | `base/dep.h` | Dependables, Deps and their shared DepLifetimes |
| `Log` | `base/log`, `os/syslog.h`, `CreateLog` | loggers, moved and derived |
| `Main` | `main/main.cc`, `execute_files.h`, `os/utils.cc` | the frame of the program from start to end |
| `MCLifetimes` (extends these five and `Tcp`) | | the specification of the `lifetimes` run |
| `Lifetimes_proofs` | | theorems about `Either`, `Dep`, `Log`, `Main` and `ScratchAllocator` |
| `BoundedFifo`, `MRSWRing` | `containers/MRSWRing.h` | abstract queue and the ring that refines it |
| `Stack`, `LinkedStack` | `containers/linked_stack.h` | abstract stack and the lock-free one that refines it |
| `List` | `containers/list.h` | the linked list of the types |
| `TaskSemaphore` | `task/task_semaphore` | a tree of tasks that wait for their children |
| `StrBuilder` | `base/str_builder.h`, `str_build_types` | text and numbers in a buffer of fixed size |
| `Values` | `slang/math_funcs.cc`, `object_writer.cc`, `json_serializer.cc` | arithmetic, storing and printing of numbers |
| `SchemaLayout` | `schema.h`, defstruct, ObjectWriter, JsonSerializer | layout arithmetic |
| `MCStructures` (extends these seven) | | the specification of the `structures` run |
| `Structures_proofs` | | theorems about `MRSWRing`, `LinkedStack`, `List`, `TaskSemaphore` and `SchemaLayout` |

The properties a run lists are the named ones below; those that end in `Inv` are
conjunctions of the named parts given with them, each part with its own comment
in its module.

### Tasks

`pc[w]` says where worker *w* is in `ThreadProc`:
`raw` (memory not constructed) -> `made` -> `check` (`while (running_)`) ->
`wait` (in epoll_wait) -> `drain` -> `events` -> `deque` (scanning the queues)
-> `run` (a task executes) -> `post` (`PostTask`) -> `deque` ...; after the
loop `stopping` (`StopInternal`), `hook`, `done`. `spawned` lies between the
Push and the InterruptAll of PerformAsync, and `mark` between `EPOLL_CTL_ADD`
and the store of `is_added_`. A step covers what a thread does between two
accesses to shared state; `DequeNextTask` is one step per queue it looks at,
`StopInternal` one step per worker it looks at.

A task is a model value. While it runs it may do anything the TaskContext
offers, in any order: spawn, yield, wait, exit, return. `Waiters` own an event
source (a socket), removed when the task returns as `~TcpStream` does. The
kernel is external: any armed source may become ready at any time, epoll_wait
returns any set of at most `MaxEvents` of them, and may fail with EINTR.

Workers that are not constructed hold arbitrary `running_` and `finished_`
(`WorkerInit` chooses them). With `EarlySignal = FALSE` signals arrive only
after all workers are constructed; with `TRUE` at any time.

### Types, storage and commands

A session is a task that serves one connection. It keeps the SharedDeps, hence
the TypeVault, of the thread on which it started (`home`), and executes each
command on some thread. `Pinned = TRUE` assumes that it is always that thread;
`FALSE` allows stealing. A thread executes one command at a time.

`types_list_` is a sequence of names and a schema is a position in it. A
FindSchema with a dirty cache is two steps, because the flag is set before the
lock is taken; readers hold the lock within one step. CreateSchema is `lock`,
`dup`, `handler`, `invalidate`, with one step per vault it marks. Of an object
only its guid and the number of fields still to be written are kept. The
increment of the guid counter is a read and a write.

`LateVault` is the vault of worker 0, created while other workers run already.

### Connections

In `Tcp` a task and the socket it owns share a name: `Addrs` are the accept
tasks, `Conns` the connection tasks. `file` says which socket a descriptor
stands for, `handle` and `armed` what epoll knows of a descriptor; the kernel
gives out the lowest free one. A step lies between two system calls that
another task can notice, so between `RemoveEvent` in `~TcpStream` and `close`
there is one, and after `close` somebody else's `accept` may be given the same
descriptor. `AddEvent` is called by the thread the task has left and is two
steps: `epoll_ctl`, and the store of `is_added_` (`MarkAdded`), which is due for
the tasks in `marking` and may come when another thread has long resumed the
task. A task that waits again before it is made meets `EEXIST` and is `unarmed`
from then on. `stream_handler` is left open: it reads, works and reads again
until the client is gone; then its send may fail, or raise SIGPIPE, which ends
the process (`SendKills`). Worker threads and their queues are abstracted to
"a task whose turn it is runs" (what `TaskManager` shows), except that a new
task may find the queue full (`QueueSize`). It is checked as one of the subjects
of `MCLifetimes`.

### The text of a connection

`sent` is all a client sends and `got` how much of it was received; each
`RefillBuffer` receives any part of up to `BufSize` characters and
`RefillBufferFails` ends the stream at any point. `termBegin` is a pointer into
the chunk, `termBuf` what was saved of a term when a chunk ended. The handlers
of the compiler add instructions; `Build` reverses them and `ExecutePush`,
`ExecuteCall`, `ExecuteEnds` are the loop of `Program::Execute`. Two operations
stand for all: `l` (list) returns its arguments, as select returns many values;
`+` stands for the arithmetic, returns one number, or fails on an argument that
is none. The reply is cut into the pieces the serializer writes, with their
escapes, and the writer's buffer is sent in parts of any size. The literals of
the serializer are arrays, so Write takes their terminating zero too
(`Literal`). `MCEndpoint` gives the texts: all short ones, character by character
and token by token, and all longer expressions with calls in calls.

The reference in `MCEndpoint` reads a complete text by its delimiters and
evaluates the code recursively. It knows no chunks, buffers, saved terms,
barriers or stacks. It leaves out, as the properties state, texts with a zero
(the lexer takes it for the end), with a comment directly behind a term (it
becomes part of the term) and, for the evaluation, with an unnamed parenthesis.

### Configuration

The input of `ConfigParser` is the sequence of the lexer's events: a named or
an unnamed parenthesis, its end, a typed value, an unquoted word. `Reads`
offers every event at every point, and for the command line those of the text
`(key value)` that `LoadFromArgs` makes: since CheckArg lets quotes pass, there
may be several values or no name. A key is the sequence of its parts. Files that are included are
given with their content. `NextFile`, `TryDefault`, `LoadFromArgs` are the
order of `LoadConfig`. `MapOf` in `MCConfig` is the reference: an operation's
key is the path of the operations around it and its values are those that stand
inside of it, unquoted words like any others. The parser disagrees about the
words, so `MapIsOfDocument` is about documents without them and `WordsAreValues`
states the rest.

### Lifetimes

Six components that share no state and whose question is the same: what is
given back, by whom, and is it used afterwards. In `MCLifetimes` the variable
`subject`, chosen once, says which of them a behaviour is about.

* `ScratchAllocator`: `mem` is the chain of arenas with `cur_arena_`,
  `cur_ptr_` and `total_size_`, `blocks` what callers hold, `scopes` what the
  active `Scoped` calls saved. A pointer is an arena and an offset; of an
  arena's address only the remainder that alignment sees is kept. `Purge` may
  happen inside a scope, whose end then moves the position forward again.
* `Either`: `flag` is what the object says, `member` what really lives, `owns`
  and `heap` the resources of members. Copying makes a resource, moving leaves
  an empty member alive, destruction gives back. Assignment sets the flag and
  destroys nothing, so the sides are only crossed where members own nothing, as
  the repository does.
* `Dep`: every construction, copy, move and destruction, with the assertions of
  a build that tracks lifetimes; a failed assertion ends the behaviour.
* `Log`: `logs` are the loggers that exist, `path` the prefix each would have in
  a buffer without end. Where a record goes is left out.
* `Main`: `pc` walks through `XYEntrypoint`; `frame` is what exists, in order;
  `Referred` collects the Deps held by members, by the user data of threads and
  by the stacks of suspended tasks; `DestroyVariable` is one destructor, which
  asserts. `Run` allocates the workers and `StartThread` constructs one of them,
  that of main() last: the constructor overwrites what a Stop has stored.
  `LeavesLoop`, `TellsOthers` and `ThreadEnds` are what `TaskManager` has in
  detail: a thread that was told leaves its loop, tells the others, waits for
  those it has to see finished and gives up its user data. Every step that may fail may fail, a signal may come at any time, and
  `Stop` includes what an exit handler may find that refers to parameters that
  are gone.
* `Tcp`: see above.

### Structures and numbers

Seven components without shared state, arranged in `MCStructures` the same way.

* `MRSWRing`: the two wrapping counters and the cells; the mutex makes Push and
  Pop one step each.
* `LinkedStack`: one step per load, store and exchange of each thread. A node
  that some Pop has seen at the head is not pushed until that Pop has tried its
  exchange: the ABA problem is left to the user, as a comment of the header says.
* `List`: head, last and the links, next to `content`, what the users asked for.
  Nodes begin with arbitrary links, as those of the tests do. PushFront onto an
  empty list leaves the link of the node as it is; `behind` remembers it.
* `TaskSemaphore`: the load of the assertion and the decrement are two steps;
  the weak exchange of Wait may fail without reason.
* `StrBuilder`: the buffer as a sequence of characters, each conversion as the
  digits it writes. `last` keeps what was appended, for the properties.
* `Values`: one request after the other: a call on typed arguments, its result
  written into a field of any type, the field printed. Integers have scaled
  widths, a double is a fraction, an infinity or nan.
* `SchemaLayout`: `DefineField` and `DefineStruct` are the loop and the end of
  the defstruct handler and record the offset of each field; `Walk` is the walk
  of FindDataStore and WriteObject, from every address at which an object or a
  nested struct may lie. Pointers are
  natural numbers and `& ~(a - 1)` is written with division, including what it
  gives for `a = 0`. A struct without fields has alignment 0, and a field of
  such a type gets the null pointer; the properties are about the structs
  without such fields.

## Runs

| Run | Configuration | Checks | Result |
|---|---|---|---|
| `tasks_safety` | 2 workers, 3 tasks, 2 sockets, one endless yielder, queue 2 | `TypeOK` `OnePlace` `HeldIsResumable` `Accounted` `NoStrandedWork` | holds, 0.4 M states |
| `tasks_live` | fair, 2 workers, 2 tasks, one socket, no thread taken over, destroyed at any moment | `StopInv`; `StoppedTerminates` `ExitTerminates` `QueuedIsTaken` | holds, 0.22 M states |
| `slang` | fair, 2 sessions on 2 threads, 2 commands each | `Agreement` `CacheInv` `OneVaultPerType` `SelectComplete`, deadlock; `CommandsFinish` | holds, 0.4 M states |
| `slang_text` | all texts of up to 3 characters or 4 tokens, all expressions of up to 7 tokens, and of 8 with numbers only, read buffer 2, write buffer 3 | `ReadingInv` `CodeIsOfText` `CallFindsFrame` `ReplyIsEvaluation` `RepliesDelivered` | holds, 2.4 M states |
| `config` | up to 2 files and the arguments, 6 events in all | `ParserInv` `MapIsOfDocument` `LastOverrides` | holds, 2.7 M states |
| `lifetimes` | fair, six subjects; 3 threads; 2 addresses, 2 connections, 2 descriptors | `AllocatorInv` `EitherInv` `DepInv` `LogInv` `OnlyTasksHold` `Wakeable` `DescriptorInv`; `StopEnds` `BacklogServed` `GoneIsClosed` | holds, 0.17 M states |
| `structures` | fair, seven subjects | `ListInv` `SemaphoreInv` `TextInv` `NumbersInv` `LayoutInv`; `IsFifo` and `IsStack` (refinements), `TreeReturns` | holds, 0.25 M states |
| `tasks_early_stop` | a signal while Run constructs | `StopHonoured` | violated |
| `tasks_add_race` | one socket, two workers | `NothingUnarmed` | violated |
| `slang_duplicate` | two defstructs of one name | `NoDuplicateTypes` | violated |
| `slang_stolen` | sessions change threads | `VaultConfined` | violated |
| `config_words` | a word as a value | `WordsAreValues` | violated |

The conjunctions:

| | Parts | What they say together |
|---|---|---|
| `StopInv` | `DestroyIsSafe`; `NoRawAccess` `HookAfterAllFinished` | whenever signals come, the destructor destroys a worker only when its thread has returned and nobody can steal from it (a StopInternal or Stop on its way may still touch its flags), and frees all only when neither is on its way; and unless one comes during construction, nobody uses a worker before it exists or user data after its hook |
| `CacheInv` | `TypeOK` `Fresh` `NeverWaitsForItself` | a cache that is clean is complete, and no thread waits for its own lock |
| `DescriptorInv` | `TcpTypeOK` `DescriptorsHeld` | a descriptor that is open belongs to a task that will close it |
| `ReadingInv` | `TypeOK` `TermIsText` `NothingSkipped` | a term is the text it was read from, across chunks |
| `ParserInv` | `TypeOK` `AllNamed` | keys and parentheses stay in step |
| `AllocatorInv` | `ScratchTypeOK` `Disjoint` `Usable` `Counted` | blocks in use are disjoint, aligned, inside their arena and counted |
| `EitherInv` | `EitherTypeOK` `OwnedOnce` | the flag names the live member; each resource has one owner |
| `DepInv` | `DepTypeOK` `NoDangling` `AlarmsAreReal` | the tracking of lifetimes notices every dangling Dep and nothing else |
| `LogInv` | `LogTypeOK` `OneOwner` `PrefixIsPath` | an open file is closed by one logger and outlives the others; prefixes are cut at the end only |
| `ListInv` | `ListTypeOK` `WalkIsContent` | links and ends agree with what was inserted and removed; what a node brings along lies at most behind the last |
| `SemaphoreInv` | `SemaphoreExists` `WaitsForAll` | a semaphore outlives its last signal, and nobody passes early |
| `TextInv` | `BuilderTypeOK` `IntsReadBack` `DoublesReadBack` `EarlierTextKept` | what is in the buffer reads back, and stays |
| `NumbersInv` | `ValuesTypeOK` `ArithmeticIsModular` `FieldKeepsNumber` | results are exact modulo their width, and fields keep what fits |
| `LayoutInv` | `FieldsDisjoint` `WalkAgrees` | fields do not overlap, and all walks agree |

The violated runs state what a comment of the repository says; `PROJECT.json`
("findings") quotes it next to the line that differs:

* *early stop*: Stop stores `running_ = false`, then the constructor stores true.
* *add race*: after `EPOLL_CTL_ADD` another thread resumes the task, which
  waits again while `is_added_` is still false; ADD fails, the task sleeps on.
* *duplicate*: both sessions find no such type; the second one's check under
  the exclusive lock reads a cache it has just declared clean. The first
  definition wins everywhere all the same (`Agreement`).
* *stolen*: a session resumed by another thread keeps the vault of the first.
* *words*: `(num-threads auto)` and `(level info)` define no key. The parser adds
  an empty value before the word, and a list that begins with one is not stored.

What else the models contain and the properties take into account, because the
code does it:

* Tasks. The inner loop of ThreadProc never reads `running_`, so a task that
  yields for ever keeps the manager from stopping: `Spinners` is empty in the
  run with liveness, and with one `StoppedTerminates` does not hold. The first thread awake drains the one eventfd; no work is
  stranded by this and StopInternal interrupts again in every round. A full
  ring drops a task (`Accounted` counts it), and an accepted connection whose
  task is dropped is never closed (`DescriptorsHeld`). `ExitTerminates` holds
  when from some point on no thread is busy with events.
* Storage. A refused field leaves its object in the storage. Two creates of
  different types may read one value of the guid counter, so guids repeat.
* Tcp. A task left unarmed by a late store of `is_added_` (the add race) is not
  woken any more; `BacklogServed` and `GoneIsClosed` are about the others.
  Without descriptors the accept task is woken again and again until one
  is free. Accepted sockets stay blocking; `DoWrite` asks `IsInProgress` about
  the result of send and not about errno, so any failure ends the connection;
  SIGPIPE is not ignored, so a send to a connection that is closed ends the
  server (`SendKills`).
* Slang. After a syntax error the rest of the text is read as new expressions.
  A parenthesis without a name leaves a barrier on the stack, on which the
  serializer asserts. Many results of one call arrive in the opposite order.
  A backslash in a reply is written as an escaped quote, and separators and
  brackets are followed by a zero.
* Config. The default file is loaded and never
  merged. A list of one value that overrides a longer one keeps its tail. A file
  that includes itself is loaded for ever (not modelled).
* Main. A signal while Run starts threads may be lost, as above; `StopEnds` is
  about all others. `task.num-threads` accepts only `auto`; a number is refused. Only the
  first expression of each `exec` file is executed, and a file that cannot be
  read ends the program, with code 0. The exit handler captures parameters of
  CreateExitHandler by reference, which are gone when it runs. The stacks of
  suspended tasks are not unwound, so a Dep on one of them makes the destructor
  of `slang_env` assert (`OnlyTasksHold` allows for exactly that).
* Log. `Log(Log &&)` does not move `syslog_`, so a logger with syslog enabled
  asserts at its first record. Error, Warning, Info and Verbose do
  not ask ShouldLog: with level none everything is written all the same.
* Dep, Either. Moving a Dependable by value would hand over a lifetime
  without its object; assigning an Either from the other side destroys nothing.
  Nothing in the repository does either, and the models exclude
  them where they say so.
* List. A node with an uninitialised or old link that is pushed to the front of
  an empty list is followed by what it points to, until another is appended.
* StrBuilder. A number is dropped unless the longest one would fit. A double
  without room for its digits takes characters of the earlier text away when its
  trailing zeros are rolled back; `TextInv` is about the others.
* Numbers. Sums of integers are computed in 64 bits, differences and products in
  16. A negative double written into an integer field is undefined. Text written
  into an integer field stores the bits of its pointer (not modelled).

**Bounds.** Two workers and a stranger (the owner or a signal) are what the
races here need; for more workers `NoStrandedWork` rests on its proof. Queue
size 2 with three tasks fills a queue. `MaxYields` bounds yields that are not
meant to be endless. `MaxTypes = 3` admits the duplicate definition of a name;
`MaxCommands` is the length of a session. Two structs of three fields contain
every nesting of one struct in another with padding before, between and after.
In `slang_text` the buffers
are smaller than a name with its parenthesis, than an escaped string and than
every reply; three characters contain every pair of lexer states with an escape
or a cut between them; expressions of eight tokens contain two inner calls with
arguments of their own side by side, and one with many results inside another; payload
tags go up to one character more than allowed. In `config` six events contain an
operation in an operation with a value, and a list in each of two files.

In `lifetimes`, three arenas of growing size and two blocks let an arena be
skipped, entered again and left by a scope; three resources over six variables
of three types contain every chain of copy, move and assignment between two
of them and a third; two Dependables by pointer, one by value and two Deps contain
a Dep that outlives its object, a moved one, and a lifetime whose storage is used
again; a prefix buffer of 6 is overrun by two derivations; the 108
configurations combine every kind of value that main() tells apart, and three
threads let a Stop find one running, one constructed and one not; two
descriptors for two listeners and two connections make accept fail and make a
descriptor pass from one connection to the other, and a client's data is
unbounded in number and `MaxData` at a time. In
`structures`, a modulus of 16 over 4 cells lets both counters wrap, full and
empty; two threads and three nodes make an exchange fail on both sides with the
stack empty, of one and of two nodes; three list nodes with any links and two lists let a link lead into
the own list, into the other and back to the node itself; a tree of six tasks has semaphores inside
semaphores; a buffer of 14 is filled by two values in every way, and 8-bit
integers contain both extremes; with five bits for int64 and three for int16
every argument overflows the narrow type and sums of three overflow the wide one.

The cfgs of the task manager, of `lifetimes` and of `structures` switch
the deadlock check off: a manager whose tasks all wait, or that has ended, a
server without clients, a program whose assertion failed, a tree of tasks that
have all returned, has nothing to do.

**Fairness.** `TaskManager!FairSpec` assumes that the operating system runs
every thread that can run (weak fairness of each worker, of Run, of a Stop that
was called, and of the destructor once it is due), and that epoll_wait returns
while the eventfd stays set. It assumes of no socket that it becomes ready, of
no task that it ever waits or yields rather than spawning (spawning is bounded
by `Tasks`), and of nobody that Stop is called. `SlangEnv!FairSpec` assumes
weak fairness of each session inside a command, nothing about commands
arriving. Mutexes need no strong fairness in these instances: each session
sends finitely many commands. `TcpFairSpec` assumes that a task whose turn it
is runs, that epoll reports what it watches and what is ready, and that a store
of `is_added_` that is due is made; nothing of the
clients, and `BacklogServed` is conditional on a descriptor being free in the
end and on an accept task that is not unarmed. `MainSpec` assumes that main()
goes on, that a worker that was told to stop leaves its loop, that is, that no
task keeps a thread busy for ever, and that StopInternal goes on with its rounds;
`SemaphoreSpec` that every queued task is run, and, strongly, that a weak
exchange that may succeed again and again does not fail for ever. These are the
fairness of the composed runs, in the behaviours about that subject
(`ProgramFair` and `ServerFair` of `MCLifetimes`).

## Proofs

Every theorem is checked by TLAPS for all values of the constants, from the
named assumptions of the modules that declare them and nothing else. Each is an
invariant `Inv` of a run: `Init => IInv`, `IInv /\ [Next]_vars => IInv'` with one
step or lemma per action, and `IInv => Inv`. Every `IInv` named below was
model-checked before it was proved, on instances at least as large as those of
the runs.

| Module | Theorem | Property | Inductive with |
|---|---|---|---|
| `TaskManager_proofs` | `TypeCorrect` | `TypeOK` | `Ctl` |
| | `WakeupNotLost` | `NoStrandedWork` | `Ctl`, `Sched` |
| `TaskLifecycle_proofs` | `StopIsSafe` | `StopInv` | `Teardown`, `Lifecycle` |
| | `OneHolder`, `TakenIsResumable`, `NoTaskIsLost` | `OnePlace`, `HeldIsResumable`, `Accounted` | `Residence` |
| `SlangEnv_proofs` | `ThreadsAgree`, `VaultsAreMadeOnce`, `SelectsAreComplete` | `Agreement`, `OneVaultPerType`, `SelectComplete` | `EnvInv` |
| | `CachesAreFresh` | `CacheInv` | `FreshInv` |
| `Tcp_proofs` | `WaitingIsWatched`, `NoDescriptorLeaks` | `Wakeable`, `DescriptorInv` | `TcpInv` |
| `Endpoint_proofs` | `LexerReadsText`, `EveryCallHasFrame`, `ClientReceivesReplies` | `ReadingInv`, `CallFindsFrame`, `RepliesDelivered` | `EndpointIInv` |
| `Config_proofs` | `ParserIsInStep`, `LastOneDecides` | `ParserInv`, `LastOverrides` | `ConfigIInv` |
| `Lifetimes_proofs` | `EitherIsSound` | `EitherInv` | `EitherIInv` |
| | `DepTrackingIsSound` | `DepInv` | `DepIInv` |
| | `LogsAreSound` | `LogInv` | `LogIInv` |
| | `FrameOutlivesItsUsers` | `OnlyTasksHold` | `FrameInv` |
| | `BlocksAreSafe` | `AllocatorInv` | `ScratchIInv` |
| `Structures_proofs` | `SemaphoreIsSound` | `SemaphoreInv` | `SemaphoreIInv` |
| | `ListHoldsItsContent` | `ListInv` | `ListIInv` |
| | `RingIsFifo` | `IsFifo` (refinement) | `RingIInv` |
| | `StackIsAtomic` | `IsStack` (refinement) | `StackIInv` |
| | `LayoutIsSound` | `LayoutInv` | `LayoutIInv` |

No theorem has a hypothesis on a constant beyond those assumptions. `StopInv`
itself tells apart whether a signal may come during construction
(`EarlySignal`). `CachesAreFresh` is `Spec /\ []VaultConfined => []CacheInv`: it
is relative to the contract that a comment of `FindSchema` states, that a
TypeVault is used by one thread only. The code does not keep that contract, which
is what `slang_stolen` shows; the theorem says that the caches need nothing else.

**Tasks.**

* `TypeCorrect`. `Ctl` is types, together with what a thread's place says about
  `exec_.current_task_` (`CurOK`) and what the owner's place says about the
  index of Run (`RunOK`); without them the types of `cur` and of the indices are
  not preserved.
* `WakeupNotLost` rests on `Ctl` and on `Sched`: the order in which Run
  constructs and starts workers, worker 0 last, and that only a worker that
  scans has a scan position. The argument: a queue is only filled by its own
  worker, which is awake then, except by the constructor of worker 0; while that
  constructor works nobody need be awake; after it the eventfd is set; a drain
  is done by a worker that will look at every queue afterwards; and a worker
  that passes the queue of worker 0 while it is not empty takes a task from it.
  `AwakeKeepsWork` and `KeepsStranded` are the two lemmas that carry the cases
  of steps local to one thread.
* `StopIsSafe`. `Teardown` holds whenever signals arrive: workers exist in order
  (`BuiltInOrder`); `finished_` says whether a worker has left its loop
  (`FinishedOK`); a round of the destructor's StopInternal that saw nobody running
  has seen `finished_` of all it looked at (`RoundOK(Owner)`), and it destroys
  a worker only after its thread has returned, with no Stop of a signal left on
  that thread (`Dismantled`). `finished_` never goes back, so the destructor joins workers
  that steal from nobody. `Lifecycle` holds when no signal comes
  early: while Run constructs, nobody has been told to stop and nobody was woken,
  so that no thread has looked at another (`Boot`); then every round has seen what
  it says it saw (`Rounds`), hence whoever leaves StopInternal has seen all
  finished (`HookAfterAllFinished`).
* `OneHolder`, `TakenIsResumable`, `NoTaskIsLost`. `Placed` says all three at
  once of the places of one task; it is inductive with the state a task is in
  when its thread acts on its request (`Requests`), with where a thread may hold
  events (`HarvestOK`) and with queues without duplicates. Every action either
  leaves all tasks where they are (`Stays`) or moves some of them to one place
  (`Moves`); a lemma for each shape does the cases.

**Types, storage and commands.**

* `EnvInv` says that locks exclude (`Exclusive`), that a cached or found schema
  is the first of its name up to where its finder has read (`Agreement`,
  `FoundIsFirst`), that a create that found no object vault still holds `lock_`
  when it makes one (`Ensuring`, `MadeOnce`), that objects only get into vaults
  that exist and stay there (`StoredInVault`, `Writing`), and that a select has
  collected a prefix of its vault (`Selecting`). "First of its name" survives
  because the list only grows at its end.
* `FreshInv` adds, of vaults that are used by one command at a time
  (`VaultConfined`, the hypothesis), that a vault in use exists
  (`VaultIsCreated`), that a name whose
  defstruct has returned is in the cache of a vault or the vault is dirty, or
  its finder is about to read far enough (`DefinedReaches`), and that names that
  were defined before a command began are found by it (`NotBefore`). The flag is
  cleared before the list is read and set after it has grown; the invariant says
  why neither order loses a name. A second command on the same vault between the
  two would take the cache for complete: hence the hypothesis.

**Connections.** `TcpInv`: `sock_` and the kernel's table are inverses of each
other on the tasks that hold a socket (`SocketsAreOpen`), epoll
knows those that have waited, on their own behalf (`SourcesAreKnown`),
`is_added_` says so or is about to be stored (`MarksFollow`), what is armed is
what waits, and who waits without being armed is known to be unarmed
(`ArmedIsWaiting`), and connections in a backlog are new
(`BacklogIsNew`, `TasksAreOfClients`), so that accept never takes the name of a
task that exists. `RemoveEvent` before `close` is what keeps it: a descriptor
that is given out again is not known to epoll.

**One connection.** `EndpointIInv`, for every text over `Chars`, every size of
the two buffers and every way in which recv and send cut what passes:

* `LexerReadsText`. A reader that has failed has nothing left (`ReaderOK`), and
  a term begins at most one past the last character read (`TermOK`), so that
  what a refill saves and what it forgets is exactly what was read. `TermStep`
  names the four things that may become of a term when a character is read; one
  lemma does the reader and the term for all of them.
* `EveryCallHasFrame`. The compiler adds a call when the name of an operation
  ends and a barrier when its parenthesis closes, and the program runs this
  backwards. `Nested` gives each instruction a number: how many frames must be
  open after it at least; a call raises it, a barrier lowers it by one. While
  the text is read the last number, and one more for a name that has not ended
  (`Pending`), is at most `op_depth_`; a complete expression has depth 0. In
  execution the number at `ip` is at most the number of barriers on the stack
  (`FramesOK`): a push of a barrier adds one, a call takes one, the topmost, and
  what it returns has none. So there is one when a call is next. Depth alone
  would not do: a parenthesis without a name counts for the depth and adds no
  call, which leaves a barrier over, never one short.
* `ClientReceivesReplies`. With `WriterOK`, in which everything is text over
  `ReplyChars` and nothing is left to write outside of writing, each step of the
  writer moves a beginning of one sequence to the end of the one before it
  (`MovedIsSame`). `FlattenFirst` is what `FlattenSeq` does with the first piece.

**Configuration.** `ConfigIInv`, for all words, values, included files and
documents, and any number of files:

* `ParserIsInStep`. The offsets on `cur_key_stack_` rise strictly and end before
  the end of the key (`StackOK`); that is why a pop shortens the key and the
  last one empties it. An unnamed parenthesis pushes nothing, so the stack is
  shorter than the depth from then on, and the document either fails with "No
  key" or never gets to its end (`DepthOK`).
* `LastOneDecides`. The result has every key that was merged, with the first
  value of the last map that has it (`FirstsOK`). `CloneNode` puts the
  list of the map that is merged later first, and `Get` sees the first value.
  `Included`, the merge of an include's files, is a recursive function and is
  treated like those of the structures below.

**Lifetimes.**

* `EitherIInv` is `OwnedOnce` by elements instead of by cardinalities: two
  members never own the same resource, and the heap is what members own.
* `DepIInv`: an object behind a Dep is held by a Dependable that is there, with
  the same lifetime (`DepsAreBacked`), which is alive and held by nobody else
  (`HoldersOwn`); so the count of a lifetime tells exactly whether a Dep is left.
* `LogIInv`: each open file has one owner (`FileHasOwner`), each logger's file is
  open; a prefix is the path cut at the end, because cutting before and after an
  append gives the same.
* `FrameInv`: what exists is a prefix of the fixed order in which main()
  constructs (`FrameIsPrefix`), its length is where main() is (`FrameSoFar`), and
  threads have user data only while the frame owns the task manager, which is
  destroyed before everything that data refers to (`OwnedWhileUsed`).
* `ScratchIInv` says, of each allocator (`Sound`), that the position of the
  allocator and every position that a `Scoped` call saved are in the chain and
  behind the blocks that are held from outside that call (`LevelsCover`), and
  that these blocks together have no more bytes than the chain has up to there.
  So a new block begins behind all others and the end of a scope gives no byte
  away twice. A saved position may well be ahead of the current one, after a
  `Purge` inside the handler: nothing is said of their order. `AlignPointerIs`
  is the arithmetic of alignment; the lemmas on `ArenaBytes` and `BlockBytes`
  (what the sum is of one more, of fewer, in another order) are proved by the
  least number or the smallest set for which they would fail, since the
  library's induction rules are out of reach.

**Structures.**

* `SemaphoreIInv`: the count is the number of children that have not signalled,
  and a task is born after its parent's semaphore.
* `ListIInv`: a node is in one list at one place (`OncePerNode`), and links and
  ends agree with the content, position by position, up to what lies behind the
  last node.
* `RingIsFifo`: cell number `(r + i) % Modulus % Size`; that wrapping counters
  name the right cells needs `Size` to divide `Modulus` (`RingAssumption`), by
  lemmas on remainders.
* `StackIsAtomic`: the links from `head_` are a chain without repetition that
  belongs to no thread (`StackIsChain`); the link a Push stored stays because it
  owns its node, and the link a Pop loaded stays because nobody pushes that node
  again meanwhile (`PushIsPrivate`, `PopIsStable`). The exchange is then the one
  step that changes the stack, and is a Push or Pop of `Stack`.
* `LayoutIsSound`: the fields lie one behind the other, each at the next address
  of its alignment (`LaidOut`). Every alignment is that of a basic type and
  divides the alignment of its struct, hence every address at which that struct
  may lie (`Multiple`, `AlignedWithin`), so a walk from that address aligns where
  defstruct aligned from 0 (`WalkFollowsLayout`).

`Linked` and `WalkEnds`, like `Included` of `Config`, the loop of
`LexerParseString` and the one of `FlattenSeq`, are recursive functions. What they compute is proved
without an induction theorem: the function that is claimed satisfies the
defining equation, and a least argument at which two solutions differ does not
exist (`LeastOne`, from the well-foundedness of `<`).

Only model-checked:

* liveness under fairness, which is beyond the prover (`StoppedTerminates`,
  `ExitTerminates`, `QueuedIsTaken`, `CommandsFinish`, `BacklogServed`,
  `GoneIsClosed`, `StopEnds`, `TreeReturns`);
* `CodeIsOfText`, `ReplyIsEvaluation`, `MapIsOfDocument`: the references of
  `MCEndpoint` and `MCConfig` are recursive operators, which the prover cannot
  reason about;
* `TextInv`, `NumbersInv`: the digits of a numeral and the arguments of a call are
  folded, and ranges are powers of 2; the provers know neither induction over a
  fold nor the laws of `^`. For each width there are finitely many cases.

## Not modelled, and assumptions

* Memory: freed stacks, the race on the vector `vaults_`, the unlocked
  `objects_.find` and the 256 bytes of an object are hazards with a note.
* The eventfd counter is a Boolean (its overflow needs 2^64 interrupts); a size
  of the ring that does not divide 2^32 is excluded by `RingAssumption` (the
  code uses 1024).
* Memory orderings: the atomics are sequentially consistent here. The dirty
  flag is written under the exclusive lock and the list is read under the
  shared lock, and `running_` is read again after every wait, so the relaxed
  orderings add delays, not new outcomes.
* A socket that failed once is assumed to fail again.
* The rounding of doubles; in `Endpoint` numbers are digits, their widths are
  the subject of `Values`.
* `Either::Join`, `Span` (a pointer and a size, without operations that change
  state), where log records go and how they look, `output.cc`, files and paths
  of the platform layer, line numbers and wording of errors, socket options.
* `JsonDeserializer` (unfinished, not part of the build) and
  `echo_server.h` (an example, included by main.cc and not used).

## Plan

1. `Tcp` composed with the hand-overs of `WorkerThread`: the late store of
   `is_added_` is modelled, its effect on a stack that another connection uses
   already is not.
