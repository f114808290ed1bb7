---------------------------- MODULE MCLifetimes -----------------------------
(***************************************************************************)
(* The parts that decide who owns what and when it is destroyed, for TLC:  *)
(* the scratch allocator, Either and Maybe, Dependable and Dep, the        *)
(* loggers, the frame of the main program, and the sockets of the TCP      *)
(* server. They share no state, so each behaviour is about one of them,    *)
(* the subject; the others stay in an initial state.                       *)
(***************************************************************************)
EXTENDS ScratchAllocator, Either, Dep, Log, Main, Tcp

VARIABLE subject

vars == <<subject, scratchVars, eitherVars, depVars, logVars, mainVars, tcpVars>>

Init ==
    /\ subject \in {"allocator", "either", "dep", "log", "main", "tcp"}
    /\ ScratchInit /\ EitherInit /\ DepInit /\ LogInit /\ MainInit /\ TcpInit
    /\ subject = "allocator" \/ (mem[1].cur = 1 /\ mem[1].arenas[1].address = 0)
    /\ subject = "main" \/ \A key \in DOMAIN Settings : conf[key] = <<>>

Next ==
    /\ \/ /\ subject = "allocator" /\ ScratchNext
          /\ UNCHANGED <<eitherVars, depVars, logVars, mainVars, tcpVars>>
       \/ /\ subject = "either" /\ EitherNext
          /\ UNCHANGED <<scratchVars, depVars, logVars, mainVars, tcpVars>>
       \/ /\ subject = "dep" /\ DepNext
          /\ UNCHANGED <<scratchVars, eitherVars, logVars, mainVars, tcpVars>>
       \/ /\ subject = "log" /\ LogNext
          /\ UNCHANGED <<scratchVars, eitherVars, depVars, mainVars, tcpVars>>
       \/ /\ subject = "main" /\ MainNext
          /\ UNCHANGED <<scratchVars, eitherVars, depVars, logVars, tcpVars>>
       \/ /\ subject = "tcp" /\ TcpNext
          /\ UNCHANGED <<scratchVars, eitherVars, depVars, logVars, mainVars>>
    /\ UNCHANGED subject

(* The fairness of MainSpec and of TcpFairSpec, in the behaviours about    *)
(* the program and about the server.                                       *)
ProgramFair ==
    /\ WF_mainVars(subject = "main" /\ ~Finished /\ MainStep)
    /\ \A t \in Threads :
          /\ WF_mainVars(subject = "main" /\ ~Finished /\ LeavesLoop(t))
          /\ WF_mainVars(subject = "main" /\ ~Finished /\ TellsOthers(t))
          /\ WF_mainVars(subject = "main" /\ ~Finished /\ ThreadEnds(t))

ServerFair ==
    /\ WF_tcpVars(subject = "tcp" /\ TcpManagerCreate)
    /\ \A a \in Addrs : WF_tcpVars(subject = "tcp" /\ AcceptStep(a))
    /\ \A c \in Conns : WF_tcpVars(subject = "tcp" /\ HandlerStep(c))
    /\ \A fd \in Fds : WF_tcpVars(subject = "tcp" /\ Deliver(fd))
    /\ \A t \in Socks : WF_tcpVars(subject = "tcp" /\ MarkAdded(t))

Spec == Init /\ [][Next]_vars /\ ProgramFair /\ ServerFair

-----------------------------------------------------------------------------
Str(text) == [type |-> "string", value |-> text]

Num(n) == [type |-> "int", value |-> n]

Yes == [type |-> "bool", value |-> "Yes"]

(* Settings of every type that the code tells apart.                       *)
MCSettings ==
    [key \in {"task.num-threads", "events.max-events-at-once", "tcp.bind", "exec"} |->
        CASE key = "task.num-threads" -> {<<>>, <<Str("auto")>>, <<Str("many")>>, <<Num(4)>>}
          [] key = "events.max-events-at-once" -> {<<>>, <<Num(0)>>, <<Num(4)>>}
          [] key = "tcp.bind" -> {<<>>, <<Str("address"), Str("other")>>, <<Str("address"), Num(4)>>}
          [] key = "exec" -> {<<>>, <<Str("a"), Str("b")>>, <<Yes>>}]
=============================================================================
