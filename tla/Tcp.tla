-------------------------------- MODULE Tcp ---------------------------------
(***************************************************************************)
(* The TCP server (net/tcp.cc): a task per bind address that sets up a     *)
(* socket and accepts connections, and a task per connection that serves   *)
(* it. The tasks share the process' descriptors, which the kernel hands    *)
(* out again once they are closed, and the epoll instance, which knows     *)
(* sockets by their descriptor.                                            *)
(*                                                                         *)
(* A step is what a task does between two system calls that another task   *)
(* can notice. The worker thread a task has left with WaitEvent calls      *)
(* AddEvent for it (worker_thread.cc), and goes on with it while another   *)
(* thread may have resumed the task. The clients and the kernel are        *)
(* external.                                                               *)
(***************************************************************************)
EXTENDS Integers, Sequences, FiniteSets, SequencesExt

CONSTANTS
    Addrs,      \* bind addresses, one accept task each
    Conns,      \* connections, each made at most once; a task each
    MaxFds,     \* the limit on open descriptors (RLIMIT_NOFILE)
    QueueSize,  \* how many new tasks a worker's queue takes
    MaxData,    \* bound on what a client sends
    None        \* no task, no socket

Fds == 1 .. MaxFds
Socks == Addrs \cup Conns   \* a socket has the name of the task that owns it

ASSUME TcpAssumption ==
    /\ MaxFds \in Nat
    /\ QueueSize \in Nat
    /\ MaxData \in Nat
    /\ Addrs \cap Conns = {}
    /\ None \notin Socks

VARIABLES
    at,        \* where each task is
    sock,      \* the descriptor a task holds, 0 for none
    added,     \* is_added_ of the task's event source
    marking,   \* tasks whose is_added_ a thread has still to store, in AddEvent
    unarmed,   \* history: tasks whose epoll_ctl failed in AddEvent
    file,      \* kernel: the socket a descriptor stands for
    handle,    \* kernel: the task epoll reports for a descriptor
    armed,     \* kernel: the descriptors whose event is still to be reported
    backlog,   \* kernel: connections not accepted yet
    client,    \* what each client has done
    inbox      \* kernel: what a connection has still to deliver

sourceVars == <<added, marking, unarmed>>
taskVars == <<at, sock, sourceVars>>
epollVars == <<handle, armed>>
tcpVars == <<taskVars, file, epollVars, backlog, client, inbox>>

TcpTypeOK ==
    /\ at \in [Socks -> {"none", "queued", "setup", "wait", "ready", "serve",
                         "removed", "done", "dropped", "killed"}]
    /\ sock \in [Socks -> 0 .. MaxFds]
    /\ added \in [Socks -> BOOLEAN]
    /\ marking \in SUBSET Socks
    /\ unarmed \in SUBSET Socks
    /\ file \in [Fds -> Socks \cup {None}]
    /\ handle \in [Fds -> Socks \cup {None}]
    /\ armed \in SUBSET {fd \in Fds : handle[fd] # None}
    /\ \A a \in Addrs : \A i \in 1 .. Len(backlog[a]) : backlog[a][i] \in Conns
    /\ client \in [Conns -> {"away", "here", "gone"}]
    /\ inbox \in [Conns -> 0 .. MaxData]

TcpInit ==
    /\ at = [t \in Socks |-> "none"]
    /\ sock = [t \in Socks |-> 0]
    /\ added = [t \in Socks |-> FALSE]
    /\ marking = {}
    /\ unarmed = {}
    /\ file = [fd \in Fds |-> None]
    /\ handle = [fd \in Fds |-> None]
    /\ armed = {}
    /\ backlog = [a \in Addrs |-> <<>>]
    /\ client = [c \in Conns |-> "away"]
    /\ inbox = [c \in Conns |-> 0]

Goes(t, label) == at' = [at EXCEPT ![t] = label]

-----------------------------------------------------------------------------
(* The kernel's descriptors and its epoll instance.                        *)

(* socket and accept return the lowest descriptor that is not open.        *)
Lowest(fd) ==
    /\ file[fd] = None
    /\ \A lower \in 1 .. fd - 1 : file[lower] # None

Full == \A fd \in Fds : file[fd] # None

(* close: the last descriptor of a socket is gone, so epoll forgets it.    *)
Close(fd) ==
    /\ file' = [file EXCEPT ![fd] = None]
    /\ handle' = [handle EXCEPT ![fd] = None]
    /\ armed' = armed \ {fd}

(* Fault: a source that is known is not armed again.                       *)
AddEventOnce(t) ==
    /\ IF handle[sock[t]] = None
       THEN /\ handle' = [handle EXCEPT ![sock[t]] = t]
            /\ armed' = armed \cup {sock[t]}
            /\ marking' = marking \cup {t}
       ELSE UNCHANGED <<epollVars, marking>>
    /\ UNCHANGED <<added, unarmed>>

(* epoll refuses to MOD what it does not know and to ADD what it does.     *)
EpollCtlFails(t) == added[t] = (handle[sock[t]] = None)

(* AddEvent, ExactlyOnce: MOD of a source that was added, else ADD, and    *)
(* only then, failed or not, the store of is_added_.                       *)
AddEvent(t) ==
    /\ IF EpollCtlFails(t)
       THEN unarmed' = unarmed \cup {t} /\ UNCHANGED epollVars
       ELSE /\ handle' = [handle EXCEPT ![sock[t]] = t]
            /\ armed' = armed \cup {sock[t]}
            /\ UNCHANGED unarmed
    /\ marking' = IF added[t] THEN marking ELSE marking \cup {t}
    /\ UNCHANGED added

(* The store, however late: the task may have run on, or be gone.          *)
MarkAdded(t) ==
    /\ t \in marking
    /\ added' = [added EXCEPT ![t] = TRUE]
    /\ marking' = marking \ {t}
    /\ UNCHANGED <<at, sock, unarmed, file, epollVars, backlog, client, inbox>>

(* RemoveEvent                                                             *)
RemoveEvent(t) ==
    /\ handle' = [handle EXCEPT ![sock[t]] = None]
    /\ armed' = armed \ {sock[t]}
    /\ added' = IF handle[sock[t]] = None THEN added
                ELSE [added EXCEPT ![t] = FALSE]
    /\ UNCHANGED <<marking, unarmed>>

(* The state in which epoll reports a socket: a connection can be accepted *)
(* there, or there is something to receive.                                *)
Readable(s) ==
    IF s \in Addrs THEN backlog[s] # <<>>
    ELSE inbox[s] > 0 \/ client[s] = "gone"

(* A worker's epoll_wait returns the event of a descriptor, which resumes  *)
(* the task behind its handle.                                             *)
Deliver(fd) ==
    /\ fd \in armed
    /\ Readable(file[fd])
    /\ armed' = armed \ {fd}
    /\ Goes(handle[fd], "ready")
    /\ UNCHANGED <<sock, sourceVars, file, handle, backlog, client, inbox>>

-----------------------------------------------------------------------------
(* TcpManager::Create adds an entry point for each address. When an        *)
(* address has no port (ParseIPAddress) there is no server at all.         *)
TcpManagerCreate ==
    /\ at = [t \in Socks |-> "none"]
    /\ at' = [t \in Socks |-> IF t \in Addrs THEN "queued" ELSE "none"]
    /\ UNCHANGED <<sock, sourceVars, file, epollVars, backlog, client, inbox>>

-----------------------------------------------------------------------------
(* TcpSocketAccept.                                                        *)

(* No IPv4 or IPv6 address, or no socket.                                  *)
OpenFails(a) ==
    /\ at[a] = "queued"
    /\ Goes(a, "done")
    /\ UNCHANGED <<sock, sourceVars, file, epollVars, backlog, client, inbox>>

Open(a, fd) ==
    /\ at[a] = "queued"
    /\ Lowest(fd)
    /\ file' = [file EXCEPT ![fd] = a]
    /\ sock' = [sock EXCEPT ![a] = fd]
    /\ Goes(a, "setup")
    /\ UNCHANGED <<sourceVars, epollVars, backlog, client, inbox>>

(* Fault: no Defer, the socket stays open.                                 *)
SetupFailsOpen(a) ==
    /\ at[a] = "setup"
    /\ Goes(a, "done")
    /\ sock' = [sock EXCEPT ![a] = 0]
    /\ UNCHANGED <<sourceVars, file, epollVars, backlog, client, inbox>>

(* fcntl, bind or listen fails; close_socket closes. Keep-alive and reuse  *)
(* may fail without effect.                                                *)
SetupFails(a) ==
    /\ at[a] = "setup"
    /\ Goes(a, "done")
    /\ Close(sock[a])
    /\ sock' = [sock EXCEPT ![a] = 0]
    /\ UNCHANGED <<sourceVars, backlog, client, inbox>>

(* The socket listens; the first WaitEvent of the accept loop.             *)
Listen(a) ==
    /\ at[a] = "setup"
    /\ AddEvent(a)
    /\ Goes(a, "wait")
    /\ UNCHANGED <<sock, file, backlog, client, inbox>>

Listening(a) == at[a] \in {"wait", "ready"}

NewTasks == {c \in Conns : at[c] = "queued"}

(* accept, PerformAsync<TcpConnectionHandler>, whose Push may find the     *)
(* queue full, and WaitEvent.                                              *)
Accept(a, fd) ==
    /\ at[a] = "ready"
    /\ backlog[a] # <<>>
    /\ Lowest(fd)
    /\ LET c == Head(backlog[a]) IN
         /\ file' = [file EXCEPT ![fd] = c]
         /\ sock' = [sock EXCEPT ![c] = fd]
         /\ at' = [at EXCEPT ![a] = "wait",
                             ![c] = IF Cardinality(NewTasks) < QueueSize
                                    THEN "queued" ELSE "dropped"]
    /\ backlog' = [backlog EXCEPT ![a] = Tail(@)]
    /\ AddEvent(a)
    /\ UNCHANGED <<client, inbox>>

(* Fault: the loop is left when accept fails.                              *)
AcceptFailsEnds(a) ==
    /\ at[a] = "ready"
    /\ Full \/ backlog[a] = <<>>
    /\ Goes(a, "done")
    /\ Close(sock[a])
    /\ sock' = [sock EXCEPT ![a] = 0]
    /\ UNCHANGED <<sourceVars, backlog, client, inbox>>

(* accept fails, for want of a descriptor or because the connection is     *)
(* gone: continue.                                                         *)
AcceptFails(a) ==
    /\ at[a] = "ready"
    /\ Full \/ backlog[a] = <<>>
    /\ AddEvent(a)
    /\ Goes(a, "wait")
    /\ UNCHANGED <<sock, file, backlog, client, inbox>>

-----------------------------------------------------------------------------
(* TcpConnectionHandler.                                                   *)

(* The task begins: a TcpStream, and the first DoRead of stream_handler.   *)
Start(c) ==
    /\ at[c] = "queued"
    /\ AddEvent(c)
    /\ Goes(c, "wait")
    /\ UNCHANGED <<sock, file, backlog, client, inbox>>

(* recv takes what there is; stream_handler works on it and answers.       *)
Recv(c) ==
    /\ at[c] = "ready"
    /\ inbox[c] > 0
    /\ inbox' = [inbox EXCEPT ![c] = 0]
    /\ Goes(c, "serve")
    /\ UNCHANGED <<sock, sourceVars, file, epollVars, backlog, client>>

(* stream_handler reads again: DoRead, WaitEvent.                          *)
ReadAgain(c) ==
    /\ at[c] = "serve"
    /\ AddEvent(c)
    /\ Goes(c, "wait")
    /\ UNCHANGED <<sock, file, backlog, client, inbox>>

(* Fault: the stream closes the socket as well.                            *)
StreamEndsClosing(c) ==
    /\ \/ at[c] = "ready" /\ inbox[c] = 0
       \/ at[c] = "serve" /\ client[c] = "gone"
    /\ Close(sock[c])
    /\ Goes(c, "removed")
    /\ UNCHANGED <<sock, sourceVars, backlog, client, inbox>>

(* recv returns zero or an error (ready), or send fails (serve):           *)
(* stream_handler ends, and ~TcpStream removes the event source.           *)
StreamEnds(c) ==
    /\ \/ at[c] = "ready" /\ inbox[c] = 0
       \/ at[c] = "serve" /\ client[c] = "gone"
    /\ RemoveEvent(c)
    /\ Goes(c, "removed")
    /\ UNCHANGED <<sock, file, backlog, client, inbox>>

(* send to a connection that is closed raises SIGPIPE, which nobody        *)
(* ignores: the process ends, and the kernel closes all it had open.       *)
SendKills(c) ==
    /\ at[c] = "serve" /\ client[c] = "gone"
    /\ at' = [t \in Socks |-> IF at[t] = "none" THEN "none" ELSE "killed"]
    /\ sock' = [t \in Socks |-> 0]
    /\ file' = [fd \in Fds |-> None]
    /\ handle' = [fd \in Fds |-> None]
    /\ armed' = {}
    /\ backlog' = [a \in Addrs |-> <<>>]
    /\ marking' = {}
    /\ UNCHANGED <<added, unarmed, client, inbox>>

(* close(sock), and the task is done.                                      *)
CloseSocket(c) ==
    /\ at[c] = "removed"
    /\ Close(sock[c])
    /\ sock' = [sock EXCEPT ![c] = 0]
    /\ Goes(c, "done")
    /\ UNCHANGED <<sourceVars, backlog, client, inbox>>

-----------------------------------------------------------------------------
(* Clients, and what the kernel does for them.                             *)

Connect(c, a) ==
    /\ client[c] = "away"
    /\ Listening(a)
    /\ client' = [client EXCEPT ![c] = "here"]
    /\ backlog' = [backlog EXCEPT ![a] = Append(@, c)]
    /\ UNCHANGED <<taskVars, file, epollVars, inbox>>

ClientSends(c) ==
    /\ client[c] = "here"
    /\ inbox[c] < MaxData
    /\ inbox' = [inbox EXCEPT ![c] = @ + 1]
    /\ UNCHANGED <<taskVars, file, epollVars, backlog, client>>

(* The client closes or resets. A connection that is not accepted yet may  *)
(* be taken out of the backlog.                                            *)
ClientLeaves(c) ==
    /\ client[c] = "here"
    /\ client' = [client EXCEPT ![c] = "gone"]
    /\ \/ UNCHANGED backlog
       \/ \E a \in Addrs : \E i \in 1 .. Len(backlog[a]) :
            /\ backlog[a][i] = c
            /\ backlog' = [backlog EXCEPT ![a] = RemoveAt(@, i)]
    /\ UNCHANGED <<taskVars, file, epollVars, inbox>>

-----------------------------------------------------------------------------
AcceptStep(a) ==
    \/ OpenFails(a) \/ SetupFails(a) \/ Listen(a) \/ AcceptFails(a)
    \/ \E fd \in Fds : Open(a, fd) \/ Accept(a, fd)

HandlerStep(c) ==
    \/ Start(c) \/ Recv(c) \/ ReadAgain(c) \/ StreamEnds(c) \/ SendKills(c)
    \/ CloseSocket(c)

ClientStep(c) ==
    \/ ClientSends(c) \/ ClientLeaves(c)
    \/ \E a \in Addrs : Connect(c, a)

TcpNext ==
    \/ TcpManagerCreate
    \/ \E a \in Addrs : AcceptStep(a)
    \/ \E c \in Conns : HandlerStep(c) \/ ClientStep(c)
    \/ \E fd \in Fds : Deliver(fd)
    \/ \E t \in Socks : MarkAdded(t)

TcpSpec == TcpInit /\ [][TcpNext]_tcpVars

(* Every task whose turn it is runs, epoll reports what it watches, and a  *)
(* store that is due is made. Nothing is assumed of the clients.           *)
TcpFairSpec ==
    /\ TcpSpec
    /\ WF_tcpVars(TcpManagerCreate)
    /\ \A a \in Addrs : WF_tcpVars(AcceptStep(a))
    /\ \A c \in Conns : WF_tcpVars(HandlerStep(c))
    /\ \A fd \in Fds : WF_tcpVars(Deliver(fd))
    /\ \A t \in Socks : WF_tcpVars(MarkAdded(t))

-----------------------------------------------------------------------------
(* A task that waits will be woken: its descriptor is open and its own,    *)
(* although descriptors are closed and handed out again by other tasks all *)
(* the time, and epoll watches it on behalf of this task, unless the call  *)
(* that was to arm it failed. That happens only to a task that waits again *)
(* before the thread it left has stored is_added_: a task that runs is     *)
(* known to epoll, and marked as such or about to be.                      *)
Wakeable ==
    \A t \in Socks :
        /\ at[t] = "wait" =>
              /\ file[sock[t]] = t
              /\ handle[sock[t]] = t
              /\ sock[t] \in armed \/ t \in unarmed
        /\ at[t] \in {"ready", "serve"} =>
              /\ t \notin unarmed
              /\ EpollCtlFails(t) => t \in marking

(* No descriptor leaks: each open one is held by the task it belongs to,   *)
(* which has still to close it. The one exception is a connection whose    *)
(* task found no room in the queue (worker_thread.cc:118).                 *)
DescriptorsHeld ==
    \A fd \in Fds : file[fd] # None =>
        /\ sock[file[fd]] = fd
        /\ at[file[fd]] # "done"

(* Sockets, descriptors and what epoll knows of them fit together.         *)
DescriptorInv == TcpTypeOK /\ DescriptorsHeld

(* A connection in the backlog of an address is accepted or leaves, if     *)
(* sooner or later a descriptor is always free, and if the accept task is  *)
(* never left unarmed by a late store of is_added_: running out of         *)
(* descriptors, or a connection that goes away just before accept, does    *)
(* not end the accept loop.                                                *)
Pending(a, c) == \E i \in 1 .. Len(backlog[a]) : backlog[a][i] = c

BacklogServed ==
    \A a \in Addrs :
        <>[](~Full) /\ [](a \notin unarmed) =>
            \A c \in Conns : Pending(a, c) ~> ~Pending(a, c)

(* The descriptor of a connection whose client has gone is closed, also    *)
(* when the client leaves before its task has begun, or while the task is  *)
(* busy and no event is asked for, unless the task was left unarmed by a   *)
(* late store of is_added_. The process itself may end first.              *)
GoneIsClosed ==
    \A c \in Conns :
        [](c \notin unarmed) =>
            ((client[c] = "gone" /\ at[c] \in {"queued", "wait", "ready", "serve"})
                ~> (at[c] \in {"done", "killed"}))
=============================================================================
