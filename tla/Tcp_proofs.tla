----------------------------- MODULE Tcp_proofs -----------------------------
(***************************************************************************)
(* The TCP server keeps its descriptors and its event sources straight,    *)
(* for any number of addresses, connections and descriptors.               *)
(***************************************************************************)
EXTENDS Tcp, TLAPS, SequenceTheorems

-----------------------------------------------------------------------------
(* The inductive invariant.                                                *)

(* The task has a socket, opened or accepted for it and not closed yet.    *)
Holding(t) ==
    \/ at[t] \in {"setup", "wait", "ready", "serve", "removed", "dropped"}
    \/ at[t] = "queued" /\ t \in Conns

(* epoll knows the socket on behalf of the task.                           *)
Watched(t) == at[t] \in {"wait", "ready", "serve"}

(* The task has not waited yet.                                            *)
Fresh(t) == at[t] \in {"none", "queued", "setup", "dropped"}

(* sock_ and the kernel's table of descriptors are inverses.               *)
SocketsAreOpen ==
    /\ \A t \in Socks : Holding(t) => sock[t] \in Fds /\ file[sock[t]] = t
    /\ \A t \in Socks : ~Holding(t) => sock[t] = 0
    /\ \A fd \in Fds : file[fd] # None => Holding(file[fd]) /\ sock[file[fd]] = fd

(* Of each socket that epoll knows it has the owner.                       *)
SourcesAreKnown ==
    /\ \A t \in Socks : Watched(t) => handle[sock[t]] = t
    /\ \A fd \in Fds : handle[fd] # None => Watched(handle[fd]) /\ sock[handle[fd]] = fd

(* is_added_ says what epoll knows, or is about to.                        *)
MarksFollow ==
    /\ \A t \in Socks : Fresh(t) => added[t] = FALSE /\ t \notin marking
    /\ \A t \in Socks : Watched(t) => added[t] = TRUE \/ t \in marking

(* The sources that are armed are those of the tasks that wait, and a task *)
(* that was not armed waits for good.                                      *)
ArmedIsWaiting ==
    /\ \A t \in Socks : at[t] = "wait" => sock[t] \in armed \/ t \in unarmed
    /\ \A fd \in armed : at[handle[fd]] = "wait"
    /\ \A t \in unarmed : at[t] \in {"wait", "killed"} /\ sock[t] \notin armed

(* A connection in a backlog has no task yet and is in no other place of   *)
(* the backlogs.                                                           *)
BacklogIsNew ==
    /\ backlog \in [Addrs -> Seq(Conns)]
    /\ \A a \in Addrs : \A i \in 1 .. Len(backlog[a]) :
          at[backlog[a][i]] = "none" /\ client[backlog[a][i]] # "away"
    /\ \A a, b \in Addrs : \A i \in 1 .. Len(backlog[a]), j \in 1 .. Len(backlog[b]) :
          backlog[a][i] = backlog[b][j] => a = b /\ i = j

(* A connection is known to the server after its client came.              *)
TasksAreOfClients == \A c \in Conns : client[c] = "away" => at[c] = "none"

TcpInv ==
    /\ TcpTypeOK /\ SocketsAreOpen /\ SourcesAreKnown /\ MarksFollow
    /\ ArmedIsWaiting /\ BacklogIsNew /\ TasksAreOfClients

-----------------------------------------------------------------------------
(* What is left of a sequence when its k-th element is taken out.          *)
LEMMA RemoveAtProperties ==
    ASSUME NEW S, NEW s \in Seq(S), NEW k \in 1 .. Len(s)
    PROVE  /\ RemoveAt(s, k) \in Seq(S)
           /\ Len(RemoveAt(s, k)) = Len(s) - 1
           /\ \A i \in 1 .. Len(s) - 1 :
                 RemoveAt(s, k)[i] = s[IF i < k THEN i ELSE i + 1]
<1>. DEFINE left == SubSeq(s, 1, k - 1)  right == SubSeq(s, k + 1, Len(s))
<1>1. Len(s) \in Nat /\ \A i \in 1 .. Len(s) : s[i] \in S
  BY LenProperties, ElementOfSeq
<1>2. /\ left \in Seq(S) /\ Len(left) = k - 1
      /\ \A i \in 1 .. k - 1 : left[i] = s[i]
  <2>1. /\ left \in Seq(S) /\ Len(left) = IF 1 <= k - 1 THEN (k - 1) - 1 + 1 ELSE 0
        /\ \A i \in 1 .. (k - 1) - 1 + 1 : left[i] = s[1 + i - 1]
    BY <1>1, SubSeqProperties
  <2>. QED  BY <1>1, <2>1
<1>3. /\ right \in Seq(S) /\ Len(right) = Len(s) - k
      /\ \A i \in 1 .. Len(s) - k : right[i] = s[k + i]
  <2>1. /\ right \in Seq(S)
        /\ Len(right) = IF k + 1 <= Len(s) THEN Len(s) - (k + 1) + 1 ELSE 0
        /\ \A i \in 1 .. Len(s) - (k + 1) + 1 : right[i] = s[(k + 1) + i - 1]
    BY <1>1, SubSeqProperties
  <2>2. Len(right) = Len(s) - k
    BY <1>1, <2>1
  <2>3. ASSUME NEW i \in 1 .. Len(s) - k PROVE right[i] = s[k + i]
    <3>1. i \in 1 .. Len(s) - (k + 1) + 1 /\ (k + 1) + i - 1 = k + i
      BY <1>1, <2>3
    <3>. QED  BY <2>1, <3>1
  <2>. QED  BY <2>1, <2>2, <2>3
<1>. HIDE DEF left, right
<1>4. /\ left \o right \in Seq(S) /\ Len(left \o right) = Len(left) + Len(right)
      /\ \A i \in 1 .. Len(left) + Len(right) :
            (left \o right)[i] = IF i <= Len(left) THEN left[i] ELSE right[i - Len(left)]
  BY <1>2, <1>3, ConcatProperties
<1>5. RemoveAt(s, k) = left \o right
  BY DEF RemoveAt, left, right
<1>6. ASSUME NEW i \in 1 .. Len(s) - 1
      PROVE  (left \o right)[i] = s[IF i < k THEN i ELSE i + 1]
  <2>1. CASE i < k
    <3>1. i \in 1 .. Len(left) + Len(right) /\ i <= Len(left) /\ i \in 1 .. k - 1
      BY <1>1, <1>2, <1>3, <1>6, <2>1
    <3>. QED  BY <1>2, <1>4, <2>1, <3>1
  <2>2. CASE ~(i < k)
    <3>1. /\ i \in 1 .. Len(left) + Len(right) /\ ~(i <= Len(left))
          /\ i - Len(left) \in 1 .. Len(s) - k /\ k + (i - Len(left)) = i + 1
      BY <1>1, <1>2, <1>3, <1>6, <2>2
    <3>. QED  BY <1>3, <1>4, <2>2, <3>1
  <2>. QED  BY <2>1, <2>2
<1>7. Len(left) + Len(right) = Len(s) - 1
  BY <1>1, <1>2, <1>3
<1>. QED  BY <1>4, <1>5, <1>6, <1>7

-----------------------------------------------------------------------------
(* Facts about descriptors.                                                *)

(* The tasks and the descriptors that the invariant speaks of.             *)
LEMMA Typing ==
    ASSUME TcpInv
    PROVE  /\ at \in [Socks -> {"none", "queued", "setup", "wait", "ready", "serve",
                                "removed", "done", "dropped", "killed"}]
           /\ sock \in [Socks -> 0 .. MaxFds] /\ added \in [Socks -> BOOLEAN]
           /\ marking \subseteq Socks /\ unarmed \subseteq Socks
           /\ file \in [Fds -> Socks \cup {None}] /\ handle \in [Fds -> Socks \cup {None}]
           /\ armed \subseteq Fds /\ \A fd \in armed : handle[fd] \in Socks
           /\ client \in [Conns -> {"away", "here", "gone"}]
           /\ inbox \in [Conns -> 0 .. MaxData]
           /\ backlog \in [Addrs -> Seq(Conns)]
           /\ 0 \notin Fds /\ None \notin Socks /\ Addrs \subseteq Socks /\ Conns \subseteq Socks
           /\ \A fd \in Fds : fd \in 0 .. MaxFds
           /\ \A a \in Addrs : a \notin Conns
<1>1. 0 \notin Fds /\ \A fd \in Fds : fd \in 0 .. MaxFds
  BY TcpAssumption DEF Fds
<1>. QED  BY <1>1, TcpAssumption DEF TcpInv, TcpTypeOK, BacklogIsNew, Socks

(* No two tasks hold the same descriptor.                                  *)
LEMMA HeldApart ==
    ASSUME TcpInv, NEW s \in Socks, NEW t \in Socks, Holding(s), Holding(t), s # t
    PROVE  sock[s] # sock[t]
BY DEF TcpInv, SocketsAreOpen

(* What epoll knows of the descriptor of a task.                           *)
LEMMA HandleOfTask ==
    ASSUME TcpInv, NEW t \in Socks, Holding(t)
    PROVE  /\ sock[t] \in Fds
           /\ Watched(t) => handle[sock[t]] = t
           /\ ~Watched(t) => handle[sock[t]] = None /\ sock[t] \notin armed
<1>1. sock[t] \in Fds /\ file[sock[t]] = t
  BY DEF TcpInv, SocketsAreOpen
<1>2. CASE Watched(t)
  BY <1>1, <1>2, Typing DEF TcpInv, SourcesAreKnown
<1>3. CASE ~Watched(t)
  <2>2. handle[sock[t]] # None => FALSE
    <3>. SUFFICES ASSUME handle[sock[t]] # None PROVE FALSE
      OBVIOUS
    <3>1. handle[sock[t]] \in Socks
      BY <1>1, Typing
    <3>2. Watched(handle[sock[t]]) /\ sock[handle[sock[t]]] = sock[t]
      BY <1>1 DEF TcpInv, SourcesAreKnown
    <3>. QED  BY <1>1, <1>3, <3>1, <3>2 DEF TcpInv, SocketsAreOpen, Holding, Watched
  <2>3. sock[t] \notin armed
    BY <2>2, Typing
  <2>. QED  BY <1>1, <1>3, <2>2, <2>3
<1>. QED  BY <1>2, <1>3

(* AddEvent of a task that runs and holds a descriptor. The source is armed *)
(* in the task's name, or it is known already and the store of is_added_ is *)
(* still due.                                                               *)
LEMMA AddEventArms ==
    ASSUME TcpInv, NEW t \in Socks, Holding(t), Fresh(t) \/ at[t] \in {"ready", "serve"},
           AddEvent(t)
    PROVE  /\ handle' = [handle EXCEPT ![sock[t]] = t]
           /\ \/ armed' = armed \cup {sock[t]} /\ unarmed' = unarmed
              \/ armed' = armed /\ unarmed' = unarmed \cup {t}
           /\ added' = added /\ marking' \subseteq Socks
           /\ added[t] = TRUE \/ t \in marking'
           /\ \A u \in Socks : u # t => (u \in marking' <=> u \in marking)
           /\ sock[t] \notin armed /\ t \notin unarmed
<1>1. /\ added' = added /\ marking' \subseteq Socks
      /\ added[t] = TRUE \/ t \in marking'
      /\ \A u \in Socks : u # t => (u \in marking' <=> u \in marking)
  BY Typing DEF AddEvent
<1>2. t \notin unarmed
  BY DEF TcpInv, ArmedIsWaiting, Fresh
<1>3. CASE at[t] \in {"ready", "serve"}
  <2>1. handle[sock[t]] = t /\ sock[t] \in Fds
    BY <1>3, HandleOfTask DEF Watched
  <2>2. sock[t] \notin armed
    BY <1>3, <2>1 DEF TcpInv, ArmedIsWaiting
  <2>3. [handle EXCEPT ![sock[t]] = t] = handle
    BY <2>1, Typing
  <2>4. CASE EpollCtlFails(t)
    BY <1>1, <1>2, <2>2, <2>3, <2>4 DEF AddEvent, epollVars
  <2>5. CASE ~EpollCtlFails(t)
    BY <1>1, <1>2, <2>2, <2>5 DEF AddEvent
  <2>. QED  BY <2>4, <2>5
<1>4. CASE Fresh(t)
  <2>1. ~Watched(t) /\ added[t] = FALSE
    BY <1>4 DEF TcpInv, MarksFollow, Fresh, Watched
  <2>2. handle[sock[t]] = None /\ sock[t] \notin armed
    BY <2>1, HandleOfTask
  <2>3. ~EpollCtlFails(t)
    BY <2>1, <2>2 DEF EpollCtlFails
  <2>. QED  BY <1>1, <1>2, <2>2, <2>3 DEF AddEvent
<1>. QED  BY <1>3, <1>4

(* What a backlog holds is not disturbed by a task that has begun.         *)
LEMMA BacklogStays ==
    ASSUME TcpInv, NEW t \in Socks, t \in Addrs \/ at[t] # "none", NEW label,
           Goes(t, label), UNCHANGED <<backlog, client>>
    PROVE  BacklogIsNew' /\ TasksAreOfClients'
<1>1. \A a \in Addrs : \A i \in 1 .. Len(backlog[a]) :
         backlog[a][i] \in Conns /\ backlog[a][i] # t
  BY Typing, ElementOfSeq DEF TcpInv, BacklogIsNew
<1>2. \A u \in Socks : u # t => at'[u] = at[u]
  BY Typing DEF Goes
<1>3. BacklogIsNew'
  BY <1>1, <1>2, Typing DEF TcpInv, BacklogIsNew
<1>4. TasksAreOfClients'
  BY <1>2, Typing DEF TcpInv, TasksAreOfClients
<1>. QED  BY <1>3, <1>4

(* WaitEvent of a task that holds a descriptor.                            *)
LEMMA WaitKeeps ==
    ASSUME TcpInv, NEW t \in Socks, Holding(t), Fresh(t) \/ at[t] \in {"ready", "serve"},
           AddEvent(t), Goes(t, "wait"), UNCHANGED <<sock, file, backlog, client, inbox>>
    PROVE  TcpInv'
<1>1. /\ handle' = [handle EXCEPT ![sock[t]] = t]
      /\ \/ armed' = armed \cup {sock[t]} /\ unarmed' = unarmed
         \/ armed' = armed /\ unarmed' = unarmed \cup {t}
      /\ added' = added /\ marking' \subseteq Socks
      /\ added[t] = TRUE \/ t \in marking'
      /\ \A u \in Socks : u # t => (u \in marking' <=> u \in marking)
      /\ sock[t] \notin armed /\ t \notin unarmed
  BY AddEventArms
<1>2. at' = [at EXCEPT ![t] = "wait"] /\ sock[t] \in Fds
  BY HandleOfTask DEF Goes
<1>3. \A u \in Socks : Holding(u) /\ u # t => sock[u] # sock[t]
  BY HeldApart
<1>4. \A u \in Socks : Holding(u)' <=> Holding(u)
  BY <1>2, Typing DEF Holding
<1>5. \A u \in Socks : Watched(u)' <=> Watched(u) \/ u = t
  BY <1>2, Typing DEF Watched
<1>6. TcpTypeOK'
  <2>1. handle' \in [Fds -> Socks \cup {None}] /\ handle'[sock[t]] # None
    BY <1>1, <1>2, Typing
  <2>2. armed' \subseteq {fd \in Fds : handle'[fd] # None}
    <3>1. \A fd \in armed : fd \in Fds /\ handle[fd] # None
      BY DEF TcpInv, TcpTypeOK
    <3>2. \A fd \in Fds : fd # sock[t] => handle'[fd] = handle[fd]
      BY <1>1, Typing
    <3>. QED  BY <1>1, <1>2, <2>1, <3>1, <3>2
  <2>3. unarmed' \subseteq Socks /\ at' \in [Socks -> {"none", "queued", "setup", "wait", "ready",
           "serve", "removed", "done", "dropped", "killed"}]
    BY <1>1, <1>2, Typing
  <2>. QED  BY <1>1, <2>1, <2>2, <2>3, Typing DEF TcpInv, TcpTypeOK
<1>7. SocketsAreOpen'
  BY <1>4, Typing DEF TcpInv, SocketsAreOpen
<1>8. SourcesAreKnown'
  <2>1. \A u \in Socks : Watched(u) => Holding(u)
    BY DEF Watched, Holding
  <2>3. \A u \in Socks : Watched(u)' => handle'[sock[u]] = u
    BY <1>1, <1>2, <1>3, <1>5, <2>1, HandleOfTask, Typing
  <2>4. \A fd \in Fds : handle'[fd] # None => Watched(handle[fd])' /\ sock[handle'[fd]] = fd
    <3>. SUFFICES ASSUME NEW fd \in Fds, handle'[fd] # None
                  PROVE  at'[handle'[fd]] \in {"wait", "ready", "serve"} /\ sock[handle'[fd]] = fd
      BY DEF Watched
    <3>1. CASE fd = sock[t]
      BY <1>1, <1>2, <3>1, Typing
    <3>2. CASE fd # sock[t]
      <4>1. handle'[fd] = handle[fd] /\ handle[fd] \in Socks
        BY <1>1, <3>2, Typing
      <4>2. Watched(handle[fd]) /\ sock[handle[fd]] = fd
        BY <3>2, <4>1 DEF TcpInv, SourcesAreKnown
      <4>. QED  BY <1>2, <4>1, <4>2, Typing DEF Watched
    <3>. QED  BY <3>1, <3>2
  <2>. QED  BY <2>3, <2>4 DEF SourcesAreKnown
<1>9. MarksFollow'
  <2>1. \A u \in Socks : Fresh(u)' => Fresh(u) /\ u # t
    BY <1>2, Typing DEF Fresh
  <2>. QED  BY <1>1, <1>5, <2>1 DEF TcpInv, MarksFollow
<1>10. ArmedIsWaiting'
  <2>1. \A u \in Socks : at'[u] = "wait" => sock[u] \in armed' \/ u \in unarmed'
    BY <1>1, <1>2, Typing DEF TcpInv, ArmedIsWaiting
  <2>2. \A fd \in armed' : at'[handle'[fd]] = "wait"
    BY <1>1, <1>2, Typing DEF TcpInv, ArmedIsWaiting
  <2>3. ASSUME NEW u \in unarmed' PROVE at'[u] \in {"wait", "killed"} /\ sock[u] \notin armed'
    <3>1. CASE u = t
      BY <1>1, <1>2, <3>1, Typing
    <3>2. CASE u # t
      <4>1. u \in unarmed /\ u \in Socks
        BY <1>1, <2>3, <3>2, Typing
      <4>2. at[u] \in {"wait", "killed"} /\ sock[u] \notin armed /\ at'[u] = at[u]
        BY <1>2, <3>2, <4>1, Typing DEF TcpInv, ArmedIsWaiting
      <4>3. sock[u] # sock[t]
        BY <1>2, <1>3, <3>2, <4>1, <4>2, Typing DEF Holding, TcpInv, SocketsAreOpen
      <4>. QED  BY <1>1, <4>2, <4>3
    <3>. QED  BY <3>1, <3>2
  <2>. QED  BY <2>1, <2>2, <2>3 DEF ArmedIsWaiting
<1>11. BacklogIsNew' /\ TasksAreOfClients'
  BY BacklogStays DEF Holding
<1>. QED  BY <1>6, <1>7, <1>8, <1>9, <1>10, <1>11 DEF TcpInv

(* The socket of a task is closed, epoll not knowing it.                   *)
LEMMA CloseKeeps ==
    ASSUME TcpInv, NEW t \in Socks, Holding(t), ~Watched(t), Close(sock[t]),
           sock' = [sock EXCEPT ![t] = 0], Goes(t, "done"),
           UNCHANGED <<sourceVars, backlog, client, inbox>>
    PROVE  TcpInv'
<1>1. /\ sock[t] \in Fds /\ handle[sock[t]] = None /\ sock[t] \notin armed
  BY HandleOfTask
<1>2. at' = [at EXCEPT ![t] = "done"] /\ file' = [file EXCEPT ![sock[t]] = None]
  BY DEF Goes, Close
<1>3. handle' = handle /\ armed' = armed /\ UNCHANGED <<added, marking, unarmed>>
  BY <1>1, Typing DEF Close, sourceVars
<1>4. \A u \in Socks : Holding(u) /\ u # t => sock[u] # sock[t]
  BY HeldApart
<1>5. \A u \in Socks : Holding(u)' <=> Holding(u) /\ u # t
  BY <1>2, Typing DEF Holding
<1>6. \A u \in Socks : Watched(u)' <=> Watched(u)
  BY <1>2, Typing DEF Watched
<1>7. TcpTypeOK'
  <2>1. 0 \in 0 .. MaxFds
    BY TcpAssumption
  <2>. QED  BY <1>1, <1>2, <1>3, <2>1, Typing DEF TcpInv, TcpTypeOK
<1>8. SocketsAreOpen'
  <2>1. \A u \in Socks : Holding(u)' => sock'[u] \in Fds /\ file'[sock'[u]] = u
    BY <1>1, <1>2, <1>4, <1>5, Typing DEF TcpInv, SocketsAreOpen
  <2>2. \A u \in Socks : ~Holding(u)' => sock'[u] = 0
    BY <1>2, <1>5, Typing DEF TcpInv, SocketsAreOpen
  <2>3. \A fd \in Fds : file'[fd] # None => Holding(file[fd])' /\ sock'[file'[fd]] = fd
    <3>. SUFFICES ASSUME NEW fd \in Fds, file'[fd] # None
                  PROVE  Holding(file[fd])' /\ sock'[file'[fd]] = fd
      OBVIOUS
    <3>1. fd # sock[t] /\ file'[fd] = file[fd] /\ file[fd] \in Socks
      BY <1>1, <1>2, Typing
    <3>2. Holding(file[fd]) /\ sock[file[fd]] = fd /\ file[fd] # t
      BY <3>1 DEF TcpInv, SocketsAreOpen
    <3>3. at'[file[fd]] = at[file[fd]]
      BY <1>2, <3>1, <3>2, Typing
    <3>. QED  BY <3>1, <3>2, <3>3, Typing DEF Holding
  <2>. QED  BY <2>1, <2>2, <2>3 DEF SocketsAreOpen
<1>9. SourcesAreKnown'
  <2>1. \A u \in Socks : Watched(u) => u # t
    OBVIOUS
  <2>2. \A u \in Socks : u # t => sock'[u] = sock[u]
    BY Typing
  <2>3. \A fd \in Fds : handle[fd] # None => handle[fd] \in Socks
    BY Typing
  <2>. QED  BY <1>3, <1>6, <2>1, <2>2, <2>3, Typing DEF TcpInv, SourcesAreKnown
<1>10. MarksFollow'
  <2>1. \A u \in Socks : Fresh(u)' => Fresh(u)
    BY <1>2, Typing DEF Fresh
  <2>. QED  BY <1>3, <1>6, <2>1 DEF TcpInv, MarksFollow
<1>11. ArmedIsWaiting'
  <2>1. \A u \in Socks : at'[u] = "wait" => at[u] = "wait" /\ u # t /\ sock'[u] = sock[u]
    BY <1>2, Typing
  <2>2. \A u \in Socks : at[u] = "wait" => at'[u] = "wait"
    BY <1>2, Typing DEF Watched
  <2>3. \A u \in unarmed : u \in Socks /\ u # t /\ at'[u] = at[u] /\ sock'[u] = sock[u]
    BY <1>2, Typing DEF TcpInv, ArmedIsWaiting, Holding, Watched
  <2>. QED  BY <1>3, <2>1, <2>2, <2>3, Typing DEF TcpInv, ArmedIsWaiting
<1>12. BacklogIsNew' /\ TasksAreOfClients'
  BY BacklogStays DEF Holding
<1>. QED  BY <1>7, <1>8, <1>9, <1>10, <1>11, <1>12 DEF TcpInv

(* The task of a descriptor goes on, epoll knowing its source or not, and  *)
(* is not among those that wait.                                           *)
LEMMA GoesOnKeeps ==
    ASSUME TcpInv, NEW t \in Socks, NEW label, label \in {"ready", "serve"}, Goes(t, label),
           \/ at[t] = "ready" /\ armed' = armed
           \/ at[t] = "wait" /\ sock[t] \in armed /\ armed' = armed \ {sock[t]},
           inbox' \in [Conns -> 0 .. MaxData],
           UNCHANGED <<sock, sourceVars, file, handle, backlog, client>>
    PROVE  TcpInv'
<1>1. /\ at' = [at EXCEPT ![t] = label] /\ Holding(t)
      /\ UNCHANGED <<added, marking, unarmed>>
  BY DEF Goes, Holding, sourceVars
<1>2. \A u \in Socks : Holding(u)' <=> Holding(u)
  BY <1>1, Typing DEF Holding
<1>3. \A u \in Socks : Watched(u)' <=> Watched(u)
  BY <1>1, Typing DEF Watched
<1>4. \A u \in Socks : Holding(u) /\ u # t => sock[u] # sock[t]
  BY <1>1, HeldApart
<1>5. TcpTypeOK'
  BY <1>1, Typing DEF TcpInv, TcpTypeOK
<1>6. SocketsAreOpen'
  BY <1>2, Typing DEF TcpInv, SocketsAreOpen
<1>7. SourcesAreKnown'
  BY <1>3, Typing DEF TcpInv, SourcesAreKnown
<1>8. ArmedIsWaiting'
  <2>1. \A u \in Socks : at'[u] = "wait" => at[u] = "wait" /\ u # t /\ Holding(u)
    BY <1>1, Typing DEF Holding
  <2>2. \A u \in Socks : at'[u] = "wait" => sock[u] \in armed' \/ u \in unarmed'
    BY <1>1, <1>4, <2>1 DEF TcpInv, ArmedIsWaiting
  <2>3. \A fd \in armed' : at'[handle[fd]] = "wait"
    <3>. SUFFICES ASSUME NEW fd \in armed' PROVE at'[handle[fd]] = "wait"
      OBVIOUS
    <3>1. fd \in armed /\ fd \in Fds /\ handle[fd] \in Socks /\ at[handle[fd]] = "wait"
      BY Typing DEF TcpInv, ArmedIsWaiting
    <3>2. handle[fd] # None
      BY <3>1, Typing
    <3>3. sock[handle[fd]] = fd
      BY <3>1, <3>2 DEF TcpInv, SourcesAreKnown
    <3>. QED  BY <1>1, <3>1, <3>3, Typing
  <2>4. \A u \in unarmed : u # t /\ u \in Socks
    BY Typing DEF TcpInv, ArmedIsWaiting
  <2>5. \A u \in unarmed : at'[u] \in {"wait", "killed"} /\ sock[u] \notin armed'
    BY <1>1, <2>4, Typing DEF TcpInv, ArmedIsWaiting
  <2>. QED  BY <1>1, <2>2, <2>3, <2>5 DEF ArmedIsWaiting
<1>9. MarksFollow'
  <2>1. \A u \in Socks : Fresh(u)' => Fresh(u)
    BY <1>1, Typing DEF Fresh
  <2>. QED  BY <1>1, <1>3, <2>1 DEF TcpInv, MarksFollow
<1>10. BacklogIsNew' /\ TasksAreOfClients'
  BY BacklogStays
<1>. QED  BY <1>5, <1>6, <1>7, <1>8, <1>9, <1>10 DEF TcpInv

(* The first conjuncts do not depend on clients and backlogs.              *)
LEMMA TasksUnchanged ==
    ASSUME TcpInv, UNCHANGED <<taskVars, file, epollVars>>
    PROVE  /\ SocketsAreOpen' /\ SourcesAreKnown' /\ MarksFollow' /\ ArmedIsWaiting'
           /\ backlog' \in [Addrs -> Seq(Conns)] /\ client' \in [Conns -> {"away", "here", "gone"}]
                /\ inbox' \in [Conns -> 0 .. MaxData] => TcpTypeOK'
<1>. USE DEF taskVars, sourceVars, epollVars
<1>1. \A t \in Socks : (Holding(t)' <=> Holding(t)) /\ (Watched(t)' <=> Watched(t))
  BY DEF Holding, Watched
<1>2. SocketsAreOpen'
  BY <1>1, Typing DEF TcpInv, SocketsAreOpen
<1>3. SourcesAreKnown'
  BY <1>1, Typing DEF TcpInv, SourcesAreKnown
<1>4. ArmedIsWaiting'
  BY DEF TcpInv, ArmedIsWaiting
<1>5. ASSUME backlog' \in [Addrs -> Seq(Conns)], client' \in [Conns -> {"away", "here", "gone"}],
             inbox' \in [Conns -> 0 .. MaxData]
      PROVE  TcpTypeOK'
  BY <1>5, ElementOfSeq DEF TcpInv, TcpTypeOK
<1>6. MarksFollow'
  BY <1>1 DEF TcpInv, MarksFollow, Fresh
<1>. QED  BY <1>2, <1>3, <1>4, <1>5, <1>6

-----------------------------------------------------------------------------
(* The remaining steps.                                                    *)

(* TcpManager::Create.                                                     *)
LEMMA CreateKeeps == ASSUME TcpInv, TcpManagerCreate PROVE TcpInv'
<1>1. /\ \A t \in Socks : at[t] = "none"
      /\ \A t \in Socks : at'[t] = IF t \in Addrs THEN "queued" ELSE "none"
      /\ UNCHANGED <<sock, added, marking, unarmed, file, epollVars, backlog, client, inbox>>
  BY DEF TcpManagerCreate, sourceVars
<1>2. \A t \in Socks : ~Holding(t) /\ ~Holding(t)' /\ ~Watched(t) /\ ~Watched(t)'
  BY <1>1, Typing DEF Holding, Watched
<1>3. \A c \in Conns : at'[c] = "none"
  BY <1>1, Typing
<1>4. TcpTypeOK'
  BY <1>1, Typing DEF TcpInv, TcpTypeOK, epollVars, TcpManagerCreate
<1>5. SocketsAreOpen'
  BY <1>1, <1>2, Typing DEF TcpInv, SocketsAreOpen
<1>6. SourcesAreKnown'
  BY <1>1, <1>2, Typing DEF TcpInv, SourcesAreKnown, epollVars
<1>7. ArmedIsWaiting'
  BY <1>1, Typing DEF TcpInv, ArmedIsWaiting, epollVars
<1>8. BacklogIsNew'
  <2>1. \A a \in Addrs : \A i \in 1 .. Len(backlog[a]) : backlog[a][i] \in Conns
    BY Typing, ElementOfSeq
  <2>. QED  BY <1>1, <1>3, <2>1 DEF TcpInv, BacklogIsNew
<1>9. TasksAreOfClients'
  BY <1>3 DEF TasksAreOfClients
<1>10. MarksFollow'
  BY <1>1, <1>2 DEF TcpInv, MarksFollow, Fresh
<1>. QED  BY <1>4, <1>5, <1>6, <1>7, <1>8, <1>9, <1>10 DEF TcpInv

(* An accept task that has no socket ends.                                 *)
LEMMA OpenFailsKeeps == ASSUME TcpInv, NEW a \in Addrs, OpenFails(a) PROVE TcpInv'
<1>1. /\ at[a] = "queued" /\ at' = [at EXCEPT ![a] = "done"] /\ a \in Socks
      /\ UNCHANGED <<sock, added, marking, unarmed, file, handle, armed, backlog, client, inbox>>
  BY Typing DEF OpenFails, Goes, sourceVars, epollVars
<1>2. \A t \in Socks : (Holding(t)' <=> Holding(t)) /\ (Watched(t)' <=> Watched(t))
  BY <1>1, Typing DEF Holding, Watched
<1>3. TcpTypeOK'
  BY <1>1, Typing DEF TcpInv, TcpTypeOK
<1>4. SocketsAreOpen'
  BY <1>1, <1>2, Typing DEF TcpInv, SocketsAreOpen
<1>5. SourcesAreKnown'
  BY <1>1, <1>2, Typing DEF TcpInv, SourcesAreKnown
<1>6. ArmedIsWaiting'
  BY <1>1, Typing DEF TcpInv, ArmedIsWaiting
<1>7. BacklogIsNew' /\ TasksAreOfClients'
  BY <1>1, BacklogStays DEF OpenFails
<1>8. MarksFollow'
  <2>1. \A t \in Socks : Fresh(t)' => Fresh(t)
    BY <1>1, Typing DEF Fresh
  <2>. QED  BY <1>1, <1>2, <2>1 DEF TcpInv, MarksFollow
<1>. QED  BY <1>3, <1>4, <1>5, <1>6, <1>7, <1>8 DEF TcpInv

(* A task that held nothing gets the lowest free descriptor, in socket or  *)
(* in accept: it is nobody's, and epoll does not know it.                  *)
LEMMA NewDescriptor ==
    ASSUME TcpInv, NEW t \in Socks, NEW fd \in Fds, ~Holding(t), Lowest(fd)
    PROVE  /\ file[fd] = None /\ handle[fd] = None /\ fd \notin armed
           /\ \A u \in Socks : sock[u] # fd
<1>1. file[fd] = None
  BY DEF Lowest
<1>2. \A u \in Socks : sock[u] # fd
  <2>. SUFFICES ASSUME NEW u \in Socks, sock[u] = fd PROVE FALSE
    OBVIOUS
  <2>. QED  BY <1>1, Typing DEF TcpInv, SocketsAreOpen
<1>3. handle[fd] = None
  BY <1>2, Typing DEF TcpInv, SourcesAreKnown
<1>. QED  BY <1>1, <1>2, <1>3, Typing

(* The accept task opens its listening socket and keeps the invariant.      *)
LEMMA OpenKeeps ==
    ASSUME TcpInv, NEW a \in Addrs, NEW fd \in Fds, Open(a, fd)
    PROVE  TcpInv'
<1>1. /\ at[a] = "queued" /\ at' = [at EXCEPT ![a] = "setup"] /\ a \in Socks
      /\ file' = [file EXCEPT ![fd] = a] /\ sock' = [sock EXCEPT ![a] = fd]
      /\ UNCHANGED <<added, marking, unarmed, handle, armed, backlog, client, inbox>>
  BY Typing DEF Open, Goes, sourceVars, epollVars
<1>2. ~Holding(a) /\ ~Watched(a)
  BY <1>1, Typing DEF Holding, Watched
<1>3. /\ file[fd] = None /\ handle[fd] = None /\ fd \notin armed
      /\ \A u \in Socks : sock[u] # fd
  BY <1>1, <1>2, NewDescriptor DEF Open
<1>4. \A t \in Socks : (Holding(t)' <=> Holding(t) \/ t = a) /\ (Watched(t)' <=> Watched(t))
  BY <1>1, Typing DEF Holding, Watched
<1>5. TcpTypeOK'
  BY <1>1, Typing DEF TcpInv, TcpTypeOK
<1>6. SocketsAreOpen'
  <2>1. \A t \in Socks : Holding(t)' => sock'[t] \in Fds /\ file'[sock'[t]] = t
    BY <1>1, <1>3, <1>4, Typing DEF TcpInv, SocketsAreOpen
  <2>2. \A t \in Socks : ~Holding(t)' => sock'[t] = 0
    BY <1>1, <1>4, Typing DEF TcpInv, SocketsAreOpen
  <2>3. ASSUME NEW g \in Fds, file'[g] # None
        PROVE  Holding(file[g])' /\ sock'[file'[g]] = g
    <3>1. CASE g = fd
      BY <1>1, <3>1, Typing DEF Holding
    <3>2. CASE g # fd
      <4>1. file'[g] = file[g] /\ file[g] \in Socks /\ file[g] # None
        BY <1>1, <2>3, <3>2, Typing
      <4>2. Holding(file[g]) /\ sock[file[g]] = g /\ file[g] # a
        BY <1>2, <4>1 DEF TcpInv, SocketsAreOpen
      <4>3. at'[file[g]] = at[file[g]] /\ sock'[file[g]] = sock[file[g]]
        BY <1>1, <4>1, <4>2, Typing
      <4>. QED  BY <4>1, <4>2, <4>3 DEF Holding
    <3>. QED  BY <3>1, <3>2
  <2>. QED  BY <2>1, <2>2, <2>3 DEF SocketsAreOpen
<1>7. SourcesAreKnown'
  <2>1. \A t \in Socks : Watched(t) => t # a /\ sock'[t] = sock[t]
    BY <1>1, <1>2, Typing
  <2>2. \A g \in Fds : handle[g] # None => handle[g] \in Socks
    BY Typing
  <2>. QED  BY <1>1, <1>4, <2>1, <2>2, Typing DEF TcpInv, SourcesAreKnown
<1>8. ArmedIsWaiting'
  <2>1. \A t \in Socks :
          (at'[t] = "wait" <=> at[t] = "wait") /\ (at[t] = "wait" => sock'[t] = sock[t])
    BY <1>1, Typing
  <2>2. \A t \in unarmed : t \in Socks /\ t # a /\ at'[t] = at[t] /\ sock'[t] = sock[t]
    BY <1>1, Typing DEF TcpInv, ArmedIsWaiting
  <2>. QED  BY <1>1, <2>1, <2>2, Typing DEF TcpInv, ArmedIsWaiting
<1>9. BacklogIsNew' /\ TasksAreOfClients'
  BY <1>1, BacklogStays DEF Open
<1>10. MarksFollow'
  <2>1. \A t \in Socks : Fresh(t)' => Fresh(t)
    BY <1>1, Typing DEF Fresh
  <2>. QED  BY <1>1, <1>4, <2>1 DEF TcpInv, MarksFollow
<1>. QED  BY <1>5, <1>6, <1>7, <1>8, <1>9, <1>10 DEF TcpInv

(* accept: the connection gets a descriptor, its task is queued or not,    *)
(* and the accept task waits for the next.                                 *)
LEMMA AcceptKeeps ==
    ASSUME TcpInv, NEW a \in Addrs, NEW fd \in Fds, Accept(a, fd)
    PROVE  TcpInv'
<1>1. backlog[a] \in Seq(Conns) /\ backlog[a] # <<>> /\ at[a] = "ready" /\ a \in Socks
  BY Typing DEF Accept
<1>2. Len(backlog[a]) \in Nat /\ 1 \in 1 .. Len(backlog[a]) /\ Head(backlog[a]) = backlog[a][1]
  BY <1>1, EmptySeq, LenProperties, HeadTailProperties
<1>3. PICK c \in Conns : c = backlog[a][1]
  BY <1>1, <1>2, ElementOfSeq
<1>4. at[c] = "none" /\ client[c] # "away" /\ c \in Socks /\ c # a
  BY <1>2, <1>3, Typing DEF TcpInv, BacklogIsNew
<1>5. PICK label \in {"queued", "dropped"} :
          /\ at' = [at EXCEPT ![a] = "wait", ![c] = label]
          /\ file' = [file EXCEPT ![fd] = c]
          /\ sock' = [sock EXCEPT ![c] = fd]
  BY <1>2, <1>3 DEF Accept
<1>6. /\ backlog' = [backlog EXCEPT ![a] = Tail(@)]
      /\ UNCHANGED <<client, inbox>>
  BY DEF Accept
<1>7. Holding(a) /\ Watched(a) /\ ~Holding(c) /\ ~Watched(c)
  BY <1>1, <1>4 DEF Holding, Watched
<1>8. /\ file[fd] = None /\ handle[fd] = None /\ fd \notin armed
      /\ \A u \in Socks : sock[u] # fd
  BY <1>4, <1>7, NewDescriptor DEF Accept
<1>9. /\ handle' = [handle EXCEPT ![sock[a]] = a]
      /\ \/ armed' = armed \cup {sock[a]} /\ unarmed' = unarmed
         \/ armed' = armed /\ unarmed' = unarmed \cup {a}
      /\ added' = added /\ marking' \subseteq Socks
      /\ added[a] = TRUE \/ a \in marking'
      /\ \A u \in Socks : u # a => (u \in marking' <=> u \in marking)
      /\ sock[a] \notin armed /\ a \notin unarmed
  BY <1>1, <1>7, AddEventArms DEF Accept
<1>10. sock[a] \in Fds /\ handle[sock[a]] = a
  BY <1>1, <1>7, HandleOfTask
<1>11. handle' = handle /\ added' = added
  BY <1>9, <1>10, Typing
<1>12. at'[a] = "wait" /\ at'[c] = label /\ \A u \in Socks : u # a /\ u # c => at'[u] = at[u]
  BY <1>1, <1>4, <1>5, Typing
<1>13. \A t \in Socks : (Holding(t)' <=> Holding(t) \/ t = c) /\ (Watched(t)' <=> Watched(t))
  BY <1>1, <1>4, <1>12 DEF Holding, Watched
<1>14. \A t \in Socks : t # c => sock'[t] = sock[t]
  BY <1>5, Typing
<1>15. TcpTypeOK'
  <2>1. backlog'[a] \in Seq(Conns)
    BY <1>1, <1>6, HeadTailProperties, Typing
  <2>2. backlog' \in [Addrs -> Seq(Conns)]
    BY <1>1, <1>6, <2>1, HeadTailProperties, Typing
  <2>3. \A b \in Addrs : \A i \in 1 .. Len(backlog'[b]) : backlog'[b][i] \in Conns
    BY <2>2, ElementOfSeq
  <2>4. at' \in [Socks -> {"none", "queued", "setup", "wait", "ready", "serve",
                           "removed", "done", "dropped", "killed"}]
    BY <1>5, Typing
  <2>5. /\ sock' \in [Socks -> 0 .. MaxFds] /\ added' \in [Socks -> BOOLEAN]
        /\ file' \in [Fds -> Socks \cup {None}] /\ handle' \in [Fds -> Socks \cup {None}]
        /\ marking' \in SUBSET Socks /\ unarmed' \in SUBSET Socks
    BY <1>1, <1>4, <1>5, <1>9, <1>11, Typing
  <2>6. armed' \in SUBSET {g \in Fds : handle'[g] # None}
    BY <1>9, <1>10, <1>11, Typing
  <2>. QED  BY <1>6, <2>3, <2>4, <2>5, <2>6, Typing DEF TcpTypeOK
<1>16. SocketsAreOpen'
  <2>1. \A t \in Socks : Holding(t)' => sock'[t] \in Fds /\ file'[sock'[t]] = t
    BY <1>4, <1>5, <1>8, <1>13, <1>14, Typing DEF TcpInv, SocketsAreOpen
  <2>2. \A t \in Socks : ~Holding(t)' => sock'[t] = 0
    BY <1>13, <1>14, Typing DEF TcpInv, SocketsAreOpen
  <2>3. ASSUME NEW g \in Fds, file'[g] # None
        PROVE  Holding(file[g])' /\ sock'[file'[g]] = g
    <3>1. CASE g = fd
      <4>1. file'[g] = c
        BY <1>5, <3>1, Typing
      <4>2. at'[c] \in {"queued", "dropped"} /\ sock'[c] = fd
        BY <1>4, <1>5, <1>12, Typing
      <4>. QED  BY <3>1, <4>1, <4>2 DEF Holding
    <3>2. CASE g # fd
      <4>1. file'[g] = file[g] /\ file[g] \in Socks /\ file[g] # None
        BY <1>5, <2>3, <3>2, Typing
      <4>2. Holding(file[g]) /\ sock[file[g]] = g /\ file[g] # c
        BY <1>7, <4>1 DEF TcpInv, SocketsAreOpen
      <4>3. sock'[file[g]] = sock[file[g]] /\ (file[g] # a => at'[file[g]] = at[file[g]])
        BY <1>12, <1>14, <4>1, <4>2
      <4>. QED  BY <1>12, <4>1, <4>2, <4>3 DEF Holding
    <3>. QED  BY <3>1, <3>2
  <2>. QED  BY <2>1, <2>2, <2>3 DEF SocketsAreOpen
<1>17. SourcesAreKnown'
  <2>1. \A t \in Socks : Watched(t) => t # c /\ sock'[t] = sock[t]
    BY <1>7, <1>14
  <2>2. \A g \in Fds : handle[g] # None => handle[g] \in Socks
    BY Typing
  <2>. QED  BY <1>11, <1>13, <2>1, <2>2, Typing DEF TcpInv, SourcesAreKnown
<1>18. ArmedIsWaiting' /\ MarksFollow'
  <2>1. ASSUME NEW t \in Socks, at'[t] = "wait" PROVE sock'[t] \in armed' \/ t \in unarmed'
    <3>1. t # c /\ (t = a \/ at[t] = "wait")
      BY <1>12, <2>1
    <3>. QED  BY <1>9, <1>14, <3>1 DEF TcpInv, ArmedIsWaiting
  <2>2. \A g \in armed' : at'[handle'[g]] = "wait"
    <3>. SUFFICES ASSUME NEW g \in armed' PROVE at'[handle[g]] = "wait"
      BY <1>11
    <3>1. g = sock[a] \/ (g \in armed /\ at[handle[g]] = "wait" /\ handle[g] \in Socks)
      BY <1>9, Typing DEF TcpInv, ArmedIsWaiting
    <3>. QED  BY <1>1, <1>4, <1>10, <1>12, <3>1
  <2>3. ASSUME NEW t \in unarmed' PROVE at'[t] \in {"wait", "killed"} /\ sock'[t] \notin armed'
    <3>1. CASE t = a
      BY <1>4, <1>9, <1>12, <1>14, <3>1, Typing
    <3>2. CASE t # a
      <4>1. /\ t \in unarmed /\ t \in Socks
            /\ at[t] \in {"wait", "killed"} /\ sock[t] \notin armed
        BY <1>9, <2>3, <3>2, Typing DEF TcpInv, ArmedIsWaiting
      <4>2. t # c /\ at'[t] = at[t] /\ sock'[t] = sock[t]
        BY <1>4, <1>12, <1>14, <3>2, <4>1
      <4>3. sock[t] # sock[a]
        BY <1>1, <1>7, <1>10, <3>2, <4>1, HeldApart, Typing DEF Holding, TcpInv, SocketsAreOpen
      <4>. QED  BY <1>9, <4>1, <4>2, <4>3
    <3>. QED  BY <3>1, <3>2
  <2>4. \A t \in Socks : (Fresh(t)' <=> Fresh(t)) /\ (Fresh(t) => t # a)
    BY <1>1, <1>4, <1>12 DEF Fresh
  <2>5. MarksFollow'
    BY <1>1, <1>9, <1>13, <2>4 DEF TcpInv, MarksFollow
  <2>. QED  BY <2>1, <2>2, <2>3, <2>5 DEF ArmedIsWaiting
<1>19. BacklogIsNew'
  <2>1. /\ backlog' \in [Addrs -> Seq(Conns)]
        /\ \A b \in Addrs : b # a => backlog'[b] = backlog[b]
        /\ Len(backlog'[a]) = Len(backlog[a]) - 1
        /\ \A i \in 1 .. Len(backlog'[a]) : backlog'[a][i] = backlog[a][i + 1]
    BY <1>1, <1>6, HeadTailProperties, Typing
  <2>2. \A i \in 1 .. Len(backlog'[a]) : i + 1 \in 1 .. Len(backlog[a]) /\ i + 1 # 1
    BY <1>2, <2>1
  <2>3. ASSUME NEW b \in Addrs, NEW i \in 1 .. Len(backlog'[b])
        PROVE  \E k \in 1 .. Len(backlog[b]) :
                  /\ backlog'[b][i] = backlog[b][k] /\ backlog[b][k] # c
                  /\ k = IF b = a THEN i + 1 ELSE i
    <3>0. \A e \in Addrs : \A k \in 1 .. Len(backlog[e]) :
             backlog[e][k] = c => e = a /\ k = 1
      BY <1>2, <1>3 DEF TcpInv, BacklogIsNew
    <3>1. CASE b = a
      <4>1. i \in 1 .. Len(backlog'[a])
        BY <2>3, <3>1
      <4>2. /\ i + 1 \in 1 .. Len(backlog[a]) /\ i + 1 # 1
            /\ backlog'[a][i] = backlog[a][i + 1]
        BY <2>1, <2>2, <4>1
      <4>3. backlog[a][i + 1] # c
        BY <3>0, <4>2
      <4>. QED  BY <3>1, <4>2, <4>3
    <3>2. CASE b # a
      <4>1. backlog'[b] = backlog[b]
        BY <2>1, <3>2
      <4>2. i \in 1 .. Len(backlog[b])
        BY <2>3, <4>1
      <4>3. backlog[b][i] # c
        BY <3>0, <3>2, <4>2
      <4>. QED  BY <3>2, <4>1, <4>2, <4>3
    <3>. QED  BY <3>1, <3>2
  <2>4. ASSUME NEW b \in Addrs, NEW i \in 1 .. Len(backlog'[b])
        PROVE  at'[backlog'[b][i]] = "none" /\ client'[backlog'[b][i]] # "away"
    <3>1. PICK k \in 1 .. Len(backlog[b]) : backlog'[b][i] = backlog[b][k] /\ backlog[b][k] # c
      BY <2>3, <2>4
    <3>2. backlog[b][k] \in Conns /\ backlog[b][k] \in Socks /\ backlog[b][k] # a
      BY Typing, ElementOfSeq
    <3>. QED  BY <1>6, <1>12, <3>1, <3>2 DEF TcpInv, BacklogIsNew
  <2>5. ASSUME NEW b \in Addrs, NEW d \in Addrs, NEW i \in 1 .. Len(backlog'[b]),
               NEW j \in 1 .. Len(backlog'[d]), backlog'[b][i] = backlog'[d][j]
        PROVE  b = d /\ i = j
    <3>1. PICK k \in 1 .. Len(backlog[b]) : /\ backlog'[b][i] = backlog[b][k]
                                            /\ k = IF b = a THEN i + 1 ELSE i
      BY <2>3, <2>5
    <3>2. PICK l \in 1 .. Len(backlog[d]) : /\ backlog'[d][j] = backlog[d][l]
                                            /\ l = IF d = a THEN j + 1 ELSE j
      BY <2>3, <2>5
    <3>3. b = d /\ k = l
      <4>1. backlog[b][k] = backlog[d][l]
        BY <2>5, <3>1, <3>2
      <4>. QED  BY <4>1 DEF TcpInv, BacklogIsNew
    <3>. QED  BY <3>1, <3>2, <3>3
  <2>. QED  BY <2>1, <2>4, <2>5 DEF BacklogIsNew
<1>20. TasksAreOfClients'
  BY <1>4, <1>6, <1>12, Typing DEF TcpInv, TasksAreOfClients
<1>. QED  BY <1>15, <1>16, <1>17, <1>18, <1>19, <1>20 DEF TcpInv

(* epoll_wait resumes the task behind an armed descriptor: one that waits. *)
LEMMA DeliverKeeps == ASSUME TcpInv, NEW fd \in Fds, Deliver(fd) PROVE TcpInv'
<1>1. /\ fd \in armed /\ armed' = armed \ {fd} /\ Goes(handle[fd], "ready")
      /\ UNCHANGED <<sock, sourceVars, file, handle, backlog, client, inbox>>
  BY DEF Deliver
<1>2. handle[fd] \in Socks /\ handle[fd] # None /\ at[handle[fd]] = "wait"
  BY <1>1, Typing DEF TcpInv, ArmedIsWaiting
<1>3. sock[handle[fd]] = fd
  BY <1>2 DEF TcpInv, SourcesAreKnown
<1>. QED  BY <1>1, <1>2, <1>3, Typing, GoesOnKeeps

(* ~TcpStream: epoll forgets the source.                                   *)
LEMMA StreamEndsKeeps == ASSUME TcpInv, NEW c \in Conns, StreamEnds(c) PROVE TcpInv'
<1>1. /\ at[c] \in {"ready", "serve"} /\ c \in Socks
      /\ at' = [at EXCEPT ![c] = "removed"] /\ UNCHANGED <<sock, file, backlog, client, inbox>>
  BY Typing DEF StreamEnds, Goes
<1>2. Holding(c) /\ Watched(c)
  BY <1>1 DEF Holding, Watched
<1>3. sock[c] \in Fds /\ handle[sock[c]] = c /\ c # None
  BY <1>1, <1>2, HandleOfTask, Typing
<1>4. /\ handle' = [handle EXCEPT ![sock[c]] = None] /\ armed' = armed \ {sock[c]}
      /\ added' = [added EXCEPT ![c] = FALSE] /\ marking' = marking /\ unarmed' = unarmed
  BY <1>3 DEF StreamEnds, RemoveEvent
<1>5. \A u \in Socks : Holding(u) /\ u # c => sock[u] # sock[c]
  BY <1>1, <1>2, HeldApart
<1>6. \A u \in Socks : (Holding(u)' <=> Holding(u)) /\ (Watched(u)' <=> Watched(u) /\ u # c)
  BY <1>1, Typing DEF Holding, Watched
<1>7. \A u \in Socks : Watched(u) => Holding(u)
  BY DEF Watched, Holding
<1>8. TcpTypeOK'
  BY <1>1, <1>3, <1>4, Typing DEF TcpInv, TcpTypeOK
<1>9. SocketsAreOpen'
  BY <1>1, <1>6, Typing DEF TcpInv, SocketsAreOpen
<1>10. SourcesAreKnown'
  <2>2. \A u \in Socks : Watched(u)' => handle'[sock'[u]] = u
    <3>. SUFFICES ASSUME NEW u \in Socks, Watched(u), u # c PROVE handle'[sock[u]] = u
      BY <1>1, <1>6
    <3>1. sock[u] # sock[c] /\ sock[u] \in Fds /\ handle[sock[u]] = u
      BY <1>5, <1>7, HandleOfTask
    <3>. QED  BY <1>4, <3>1, Typing
  <2>3. ASSUME NEW fd \in Fds, handle'[fd] # None
        PROVE  Watched(handle[fd])' /\ sock'[handle'[fd]] = fd
    <3>1. fd # sock[c] /\ handle'[fd] = handle[fd] /\ handle[fd] \in Socks
      BY <1>3, <1>4, <2>3, Typing
    <3>2. Watched(handle[fd]) /\ sock[handle[fd]] = fd /\ handle[fd] # c
      BY <2>3, <3>1 DEF TcpInv, SourcesAreKnown
    <3>3. at'[handle[fd]] = at[handle[fd]]
      BY <1>1, <3>1, <3>2, Typing
    <3>. QED  BY <1>1, <3>1, <3>2, <3>3 DEF Watched
  <2>. QED  BY <2>2, <2>3 DEF SourcesAreKnown
<1>11. ArmedIsWaiting'
  <2>1. ASSUME NEW u \in Socks, at'[u] = "wait" PROVE sock'[u] \in armed' \/ u \in unarmed'
    <3>1. u # c /\ at[u] = "wait"
      BY <1>1, <2>1, Typing
    <3>2. Holding(u) /\ (sock[u] \in armed \/ u \in unarmed)
      BY <3>1 DEF Holding, TcpInv, ArmedIsWaiting
    <3>. QED  BY <1>1, <1>4, <1>5, <3>1, <3>2
  <2>2. ASSUME NEW fd \in armed' PROVE at'[handle'[fd]] = "wait"
    <3>1. fd \in armed /\ fd # sock[c] /\ fd \in Fds
      BY <1>4, <2>2, Typing
    <3>2. handle'[fd] = handle[fd] /\ handle[fd] \in Socks /\ at[handle[fd]] = "wait"
      BY <1>3, <1>4, <3>1, Typing DEF TcpInv, ArmedIsWaiting
    <3>. QED  BY <1>1, <3>2, Typing
  <2>3. ASSUME NEW u \in unarmed' PROVE at'[u] \in {"wait", "killed"} /\ sock'[u] \notin armed'
    <3>1. /\ u \in Socks /\ at[u] \in {"wait", "killed"} /\ sock[u] \notin armed
      BY <1>4, <2>3, Typing DEF TcpInv, ArmedIsWaiting
    <3>. QED  BY <1>1, <1>4, <3>1, Typing
  <2>. QED  BY <2>1, <2>2, <2>3 DEF ArmedIsWaiting
<1>12. BacklogIsNew' /\ TasksAreOfClients'
  BY <1>1, BacklogStays DEF StreamEnds
<1>13. MarksFollow'
  <2>1. \A u \in Socks : Fresh(u)' => Fresh(u) /\ u # c
    BY <1>1, Typing DEF Fresh
  <2>2. \A u \in Socks : u # c => added'[u] = added[u]
    BY <1>4, Typing
  <2>. QED  BY <1>4, <1>6, <2>1, <2>2 DEF TcpInv, MarksFollow
<1>. QED  BY <1>8, <1>9, <1>10, <1>11, <1>12, <1>13 DEF TcpInv

(* SIGPIPE: nobody holds anything.                                         *)
LEMMA SendKillsKeeps == ASSUME TcpInv, NEW c \in Conns, SendKills(c) PROVE TcpInv'
<1>1. /\ at' = [t \in Socks |-> IF at[t] = "none" THEN "none" ELSE "killed"]
      /\ sock' = [t \in Socks |-> 0] /\ file' = [fd \in Fds |-> None]
      /\ handle' = [fd \in Fds |-> None] /\ armed' = {}
      /\ backlog' = [a \in Addrs |-> <<>>] /\ marking' = {}
      /\ UNCHANGED <<added, unarmed, client, inbox>>
  BY DEF SendKills
<1>2. \A t \in Socks : ~Holding(t)' /\ ~Watched(t)' /\ (Fresh(t)' => Fresh(t))
  BY <1>1, Typing DEF Holding, Watched, Fresh
<1>3. TcpTypeOK'
  BY <1>1, TcpAssumption, Typing DEF TcpTypeOK
<1>4. SocketsAreOpen' /\ SourcesAreKnown'
  BY <1>1, <1>2 DEF SocketsAreOpen, SourcesAreKnown
<1>5. MarksFollow'
  BY <1>1, <1>2 DEF TcpInv, MarksFollow
<1>6. ArmedIsWaiting'
  BY <1>1, Typing DEF TcpInv, ArmedIsWaiting
<1>7. BacklogIsNew'
  BY <1>1 DEF BacklogIsNew
<1>8. TasksAreOfClients'
  BY <1>1, Typing DEF TcpInv, TasksAreOfClients
<1>. QED  BY <1>3, <1>4, <1>5, <1>6, <1>7, <1>8 DEF TcpInv

(* The store of is_added_, made late.                                      *)
LEMMA MarkAddedKeeps == ASSUME TcpInv, NEW t \in Socks, MarkAdded(t) PROVE TcpInv'
<1>1. /\ t \in marking /\ added' = [added EXCEPT ![t] = TRUE] /\ marking' = marking \ {t}
      /\ UNCHANGED <<at, sock, unarmed, file, handle, armed, backlog, client, inbox>>
  BY DEF MarkAdded, epollVars
<1>2. \A u \in Socks : /\ (Holding(u)' <=> Holding(u)) /\ (Watched(u)' <=> Watched(u))
                       /\ (Fresh(u)' <=> Fresh(u))
  BY <1>1 DEF Holding, Watched, Fresh
<1>3. TcpTypeOK'
  <2>1. added' \in [Socks -> BOOLEAN]
    BY <1>1, Typing, Zenon
  <2>. QED  BY <1>1, <2>1, Typing DEF TcpInv, TcpTypeOK
<1>4. SocketsAreOpen' /\ SourcesAreKnown'
  BY <1>1, <1>2, Typing DEF TcpInv, SocketsAreOpen, SourcesAreKnown
<1>5. MarksFollow'
  <2>1. ASSUME NEW u \in Socks, Fresh(u) PROVE added'[u] = FALSE /\ u \notin marking'
    <3>1. added[u] = FALSE /\ u \notin marking /\ u # t
      BY <1>1, <2>1 DEF TcpInv, MarksFollow
    <3>. QED  BY <1>1, <3>1, Typing
  <2>2. ASSUME NEW u \in Socks, Watched(u) PROVE added'[u] = TRUE \/ u \in marking'
    <3>1. CASE u = t
      BY <1>1, <3>1, Typing
    <3>2. CASE u # t
      <4>1. added[u] = TRUE \/ u \in marking
        BY <2>2 DEF TcpInv, MarksFollow
      <4>. QED  BY <1>1, <3>2, <4>1, Typing
    <3>. QED  BY <3>1, <3>2
  <2>. QED  BY <1>2, <2>1, <2>2 DEF MarksFollow
<1>6. ArmedIsWaiting' /\ BacklogIsNew' /\ TasksAreOfClients'
  BY <1>1 DEF TcpInv, ArmedIsWaiting, BacklogIsNew, TasksAreOfClients
<1>. QED  BY <1>3, <1>4, <1>5, <1>6 DEF TcpInv

(* A client comes: it was in no backlog.                                   *)
LEMMA ConnectKeeps ==
    ASSUME TcpInv, NEW c \in Conns, NEW a \in Addrs, Connect(c, a)
    PROVE  TcpInv'
<1>1. /\ client[c] = "away" /\ client' = [client EXCEPT ![c] = "here"]
      /\ backlog' = [backlog EXCEPT ![a] = Append(@, c)]
      /\ UNCHANGED <<taskVars, file, epollVars, inbox>> /\ at' = at
  BY DEF Connect, taskVars
<1>2. at[c] = "none" /\ \A b \in Addrs : \A i \in 1 .. Len(backlog[b]) : backlog[b][i] # c
  <2>1. at[c] = "none"
    BY <1>1 DEF TcpInv, TasksAreOfClients
  <2>2. ASSUME NEW b \in Addrs, NEW i \in 1 .. Len(backlog[b]) PROVE backlog[b][i] # c
    <3>1. client[backlog[b][i]] # "away"
      BY DEF TcpInv, BacklogIsNew
    <3>. QED  BY <1>1, <3>1
  <2>. QED  BY <2>1, <2>2
<1>3. /\ backlog' \in [Addrs -> Seq(Conns)]
      /\ \A b \in Addrs : b # a => backlog'[b] = backlog[b]
      /\ Len(backlog'[a]) = Len(backlog[a]) + 1 /\ Len(backlog[a]) \in Nat
      /\ \A i \in 1 .. Len(backlog[a]) : backlog'[a][i] = backlog[a][i]
      /\ backlog'[a][Len(backlog[a]) + 1] = c
  BY <1>1, Typing, AppendProperties, LenProperties
<1>4. ASSUME NEW b \in Addrs, NEW i \in 1 .. Len(backlog'[b])
      PROVE  \/ i \in 1 .. Len(backlog[b]) /\ backlog'[b][i] = backlog[b][i]
             \/ b = a /\ i = Len(backlog[a]) + 1 /\ backlog'[b][i] = c
  <2>1. CASE b = a
    <3>1. i \in 1 .. Len(backlog[a]) \/ i = Len(backlog[a]) + 1
      BY <1>3, <1>4, <2>1
    <3>. QED  BY <1>3, <2>1, <3>1
  <2>. QED  BY <1>3, <1>4, <2>1
<1>5. BacklogIsNew'
  <2>1. ASSUME NEW b \in Addrs, NEW i \in 1 .. Len(backlog'[b])
        PROVE  at'[backlog'[b][i]] = "none" /\ client'[backlog'[b][i]] # "away"
    <3>1. CASE i \in 1 .. Len(backlog[b]) /\ backlog'[b][i] = backlog[b][i]
      <4>1. backlog[b][i] # c /\ at[backlog[b][i]] = "none" /\ client[backlog[b][i]] # "away"
        BY <1>2, <3>1 DEF TcpInv, BacklogIsNew
      <4>2. backlog[b][i] \in Conns
        BY <3>1, Typing, ElementOfSeq
      <4>. QED  BY <1>1, <3>1, <4>1, <4>2, Typing
    <3>2. CASE backlog'[b][i] = c
      BY <1>1, <1>2, <3>2, Typing
    <3>. QED  BY <1>4, <2>1, <3>1, <3>2
  <2>2. ASSUME NEW b \in Addrs, NEW d \in Addrs, NEW i \in 1 .. Len(backlog'[b]),
               NEW j \in 1 .. Len(backlog'[d]), backlog'[b][i] = backlog'[d][j]
        PROVE  b = d /\ i = j
    <3>1. \/ i \in 1 .. Len(backlog[b]) /\ backlog'[b][i] = backlog[b][i]
          \/ b = a /\ i = Len(backlog[a]) + 1 /\ backlog'[b][i] = c
      BY <1>4, <2>2
    <3>2. \/ j \in 1 .. Len(backlog[d]) /\ backlog'[d][j] = backlog[d][j]
          \/ d = a /\ j = Len(backlog[a]) + 1 /\ backlog'[d][j] = c
      BY <1>4, <2>2
    <3>3. CASE /\ i \in 1 .. Len(backlog[b]) /\ backlog'[b][i] = backlog[b][i]
               /\ j \in 1 .. Len(backlog[d]) /\ backlog'[d][j] = backlog[d][j]
      <4>1. backlog[b][i] = backlog[d][j]
        BY <2>2, <3>3
      <4>. QED  BY <3>3, <4>1 DEF TcpInv, BacklogIsNew
    <3>. QED  BY <1>2, <2>2, <3>1, <3>2, <3>3
  <2>. QED  BY <1>3, <2>1, <2>2 DEF BacklogIsNew
<1>6. TasksAreOfClients'
  BY <1>1, Typing DEF TcpInv, TasksAreOfClients
<1>7. client' \in [Conns -> {"away", "here", "gone"}] /\ inbox' \in [Conns -> 0 .. MaxData]
  BY <1>1, Typing
<1>. QED  BY <1>1, <1>3, <1>5, <1>6, <1>7, TasksUnchanged DEF TcpInv

(* A client leaves, and the kernel may take it out of the backlog.         *)
LEMMA ClientLeavesKeeps == ASSUME TcpInv, NEW c \in Conns, ClientLeaves(c) PROVE TcpInv'
<1>1. /\ client[c] = "here" /\ client' = [client EXCEPT ![c] = "gone"]
      /\ UNCHANGED <<taskVars, file, epollVars, inbox>> /\ at' = at
  BY DEF ClientLeaves, taskVars
<1>2. client' \in [Conns -> {"away", "here", "gone"}] /\ inbox' \in [Conns -> 0 .. MaxData]
  BY <1>1, Typing
<1>3. \A d \in Conns : client'[d] = "away" <=> client[d] = "away"
  BY <1>1, Typing
<1>4. TasksAreOfClients'
  BY <1>1, <1>3 DEF TcpInv, TasksAreOfClients
<1>5. CASE UNCHANGED backlog
  <2>1. \A b \in Addrs : \A i \in 1 .. Len(backlog[b]) : backlog[b][i] \in Conns
    BY Typing, ElementOfSeq
  <2>2. BacklogIsNew'
    BY <1>1, <1>3, <1>5, <2>1 DEF TcpInv, BacklogIsNew
  <2>. QED  BY <1>1, <1>2, <1>4, <1>5, <2>2, TasksUnchanged, Typing DEF TcpInv
<1>6. ASSUME NEW a \in Addrs, NEW k \in 1 .. Len(backlog[a]), backlog[a][k] = c,
             backlog' = [backlog EXCEPT ![a] = RemoveAt(@, k)]
      PROVE  TcpInv'
  <2>1. backlog[a] \in Seq(Conns) /\ Len(backlog[a]) \in Nat
    BY Typing, LenProperties
  <2>2. /\ RemoveAt(backlog[a], k) \in Seq(Conns)
        /\ Len(RemoveAt(backlog[a], k)) = Len(backlog[a]) - 1
        /\ \A i \in 1 .. Len(backlog[a]) - 1 :
              RemoveAt(backlog[a], k)[i] = backlog[a][IF i < k THEN i ELSE i + 1]
    BY <1>6, <2>1, RemoveAtProperties
  <2>3. /\ backlog' \in [Addrs -> Seq(Conns)] /\ backlog'[a] = RemoveAt(backlog[a], k)
        /\ \A b \in Addrs : b # a => backlog'[b] = backlog[b]
    BY <1>6, <2>2, Typing
  <2>4. ASSUME NEW b \in Addrs, NEW i \in 1 .. Len(backlog'[b])
        PROVE  \E m \in 1 .. Len(backlog[b]) :
                  /\ backlog'[b][i] = backlog[b][m]
                  /\ m = IF b = a /\ i >= k THEN i + 1 ELSE i
    <3>1. CASE b = a /\ i >= k
      <4>1. i \in 1 .. Len(backlog[a]) - 1 /\ i + 1 \in 1 .. Len(backlog[a]) /\ ~(i < k)
        BY <2>1, <2>2, <2>3, <2>4, <3>1
      <4>. QED  BY <2>2, <2>3, <3>1, <4>1
    <3>2. CASE b = a /\ i < k
      <4>1. i \in 1 .. Len(backlog[a]) - 1 /\ i \in 1 .. Len(backlog[a]) /\ ~(i >= k)
        BY <2>1, <2>2, <2>3, <2>4, <3>2
      <4>. QED  BY <2>2, <2>3, <3>2, <4>1
    <3>3. CASE b # a
      BY <2>3, <2>4, <3>3
    <3>4. i < k \/ i >= k
      BY <2>1
    <3>. QED  BY <3>1, <3>2, <3>3, <3>4
  <2>5. ASSUME NEW b \in Addrs, NEW i \in 1 .. Len(backlog'[b])
        PROVE  at'[backlog'[b][i]] = "none" /\ client'[backlog'[b][i]] # "away"
    <3>1. PICK m \in 1 .. Len(backlog[b]) : backlog'[b][i] = backlog[b][m]
      BY <2>4, <2>5
    <3>2. backlog[b][m] \in Conns
      BY Typing, ElementOfSeq
    <3>. QED  BY <1>1, <1>3, <3>1, <3>2 DEF TcpInv, BacklogIsNew
  <2>6. ASSUME NEW b \in Addrs, NEW d \in Addrs, NEW i \in 1 .. Len(backlog'[b]),
               NEW j \in 1 .. Len(backlog'[d]), backlog'[b][i] = backlog'[d][j]
        PROVE  b = d /\ i = j
    <3>1. PICK m \in 1 .. Len(backlog[b]) : /\ backlog'[b][i] = backlog[b][m]
                                            /\ m = IF b = a /\ i >= k THEN i + 1 ELSE i
      BY <2>4, <2>6
    <3>2. PICK n \in 1 .. Len(backlog[d]) : /\ backlog'[d][j] = backlog[d][n]
                                            /\ n = IF d = a /\ j >= k THEN j + 1 ELSE j
      BY <2>4, <2>6
    <3>3. b = d /\ m = n
      <4>1. backlog[b][m] = backlog[d][n]
        BY <2>6, <3>1, <3>2
      <4>. QED  BY <4>1 DEF TcpInv, BacklogIsNew
    <3>. QED  BY <3>1, <3>2, <3>3
  <2>7. BacklogIsNew'
    BY <2>3, <2>5, <2>6 DEF BacklogIsNew
  <2>. QED  BY <1>1, <1>2, <1>4, <2>3, <2>7, TasksUnchanged DEF TcpInv
<1>. QED  BY <1>5, <1>6 DEF ClientLeaves

-----------------------------------------------------------------------------
(* The theorems.                                                           *)

(* The invariant holds initially, and each action keeps it.                 *)
LEMMA TcpInvariant == TcpSpec => []TcpInv
<1>1. TcpInit => TcpInv
  <2>. SUFFICES ASSUME TcpInit PROVE TcpInv
    OBVIOUS
  <2>. USE DEF TcpInit
  <2>1. \A t \in Socks : ~Holding(t) /\ ~Watched(t) /\ at[t] = "none"
    BY DEF Holding, Watched
  <2>2. TcpTypeOK
    BY TcpAssumption DEF TcpTypeOK
  <2>3. SocketsAreOpen /\ SourcesAreKnown /\ MarksFollow /\ ArmedIsWaiting
    BY <2>1 DEF SocketsAreOpen, SourcesAreKnown, MarksFollow, ArmedIsWaiting
  <2>4. BacklogIsNew
    BY DEF BacklogIsNew
  <2>5. TasksAreOfClients
    BY <2>1 DEF TasksAreOfClients, Socks
  <2>. QED  BY <2>2, <2>3, <2>4, <2>5 DEF TcpInv
<1>2. TcpInv /\ [TcpNext]_tcpVars => TcpInv'
  <2>. SUFFICES ASSUME TcpInv, [TcpNext]_tcpVars PROVE TcpInv'
    OBVIOUS
  <2>1. CASE TcpManagerCreate
    BY <2>1, CreateKeeps
  <2>2. ASSUME NEW a \in Addrs, AcceptStep(a)
        PROVE  TcpInv'
    <3>0. a \in Socks
      BY Typing
    <3>1. CASE OpenFails(a)
      BY <3>1, OpenFailsKeeps
    <3>2. CASE SetupFails(a)
      BY <3>0, <3>2, CloseKeeps DEF SetupFails, Holding, Watched
    <3>3. CASE Listen(a)
      BY <3>0, <3>3, WaitKeeps DEF Listen, Holding, Fresh
    <3>4. CASE AcceptFails(a)
      BY <3>0, <3>4, WaitKeeps DEF AcceptFails, Holding
    <3>5. ASSUME NEW fd \in Fds, Open(a, fd) \/ Accept(a, fd) PROVE TcpInv'
      BY <3>5, OpenKeeps, AcceptKeeps
    <3>. QED  BY <2>2, <3>1, <3>2, <3>3, <3>4, <3>5 DEF AcceptStep
  <2>3. ASSUME NEW c \in Conns, HandlerStep(c)
        PROVE  TcpInv'
    <3>0. c \in Socks
      BY Typing
    <3>1. CASE Start(c)
      BY <3>0, <3>1, WaitKeeps DEF Start, Holding, Fresh
    <3>2. CASE Recv(c)
      <4>1. inbox' \in [Conns -> 0 .. MaxData]
        BY <3>2, Typing, TcpAssumption DEF Recv
      <4>. QED  BY <3>0, <3>2, <4>1, GoesOnKeeps DEF Recv, epollVars
    <3>3. CASE ReadAgain(c)
      BY <3>0, <3>3, WaitKeeps DEF ReadAgain, Holding
    <3>4. CASE StreamEnds(c)
      BY <3>4, StreamEndsKeeps
    <3>5. CASE CloseSocket(c)
      BY <3>0, <3>5, CloseKeeps DEF CloseSocket, Holding, Watched
    <3>6. CASE SendKills(c)
      BY <3>6, SendKillsKeeps
    <3>. QED  BY <2>3, <3>1, <3>2, <3>3, <3>4, <3>5, <3>6 DEF HandlerStep
  <2>4. ASSUME NEW c \in Conns, ClientStep(c)
        PROVE  TcpInv'
    <3>1. CASE ClientSends(c)
      <4>1. /\ inbox' \in [Conns -> 0 .. MaxData] /\ UNCHANGED <<at, backlog, client>>
            /\ UNCHANGED <<taskVars, file, epollVars>>
        BY <3>1, Typing, TcpAssumption DEF ClientSends, taskVars
      <4>2. BacklogIsNew' /\ TasksAreOfClients'
        BY <4>1 DEF TcpInv, BacklogIsNew, TasksAreOfClients
      <4>. QED  BY <4>1, <4>2, Typing, TasksUnchanged DEF TcpInv
    <3>2. CASE ClientLeaves(c)
      BY <3>2, ClientLeavesKeeps
    <3>3. ASSUME NEW a \in Addrs, Connect(c, a) PROVE TcpInv'
      BY <3>3, ConnectKeeps
    <3>. QED  BY <2>4, <3>1, <3>2, <3>3 DEF ClientStep
  <2>5. ASSUME NEW fd \in Fds, Deliver(fd) PROVE TcpInv'
    BY <2>5, DeliverKeeps
  <2>6. CASE UNCHANGED tcpVars
    BY <2>6 DEF tcpVars, taskVars, sourceVars, epollVars, TcpInv, TcpTypeOK, SocketsAreOpen,
       SourcesAreKnown, MarksFollow, ArmedIsWaiting, BacklogIsNew, TasksAreOfClients, Holding,
       Watched, Fresh
  <2>7. ASSUME NEW t \in Socks, MarkAdded(t) PROVE TcpInv'
    BY <2>7, MarkAddedKeeps
  <2>. QED  BY <2>1, <2>2, <2>3, <2>4, <2>5, <2>6, <2>7 DEF TcpNext
<1>. QED  BY <1>1, <1>2, PTL DEF TcpSpec

(* A task that waits in WaitEvent waits on its own open socket, which epoll *)
(* knows in its name and watches, however descriptors are closed and handed *)
(* out again. The one way not to be watched is the failed epoll_ctl of a    *)
(* task that waits again before is_added_ has been stored.                  *)
THEOREM WaitingIsWatched == TcpSpec => []Wakeable
<1>1. TcpInv => Wakeable
  <2>. SUFFICES ASSUME TcpInv, NEW t \in Socks
                PROVE  /\ at[t] = "wait" =>
                             /\ file[sock[t]] = t
                             /\ handle[sock[t]] = t
                             /\ sock[t] \in armed \/ t \in unarmed
                       /\ at[t] \in {"ready", "serve"} =>
                             t \notin unarmed /\ (EpollCtlFails(t) => t \in marking)
    BY DEF Wakeable
  <2>1. ASSUME at[t] = "wait"
        PROVE  file[sock[t]] = t /\ handle[sock[t]] = t /\ (sock[t] \in armed \/ t \in unarmed)
    BY <2>1 DEF TcpInv, SocketsAreOpen, SourcesAreKnown, ArmedIsWaiting, Holding, Watched
  <2>2. ASSUME at[t] \in {"ready", "serve"}
        PROVE  t \notin unarmed /\ (EpollCtlFails(t) => t \in marking)
    <3>1. Holding(t) /\ Watched(t)
      BY <2>2 DEF Holding, Watched
    <3>2. handle[sock[t]] = t /\ t # None
      BY <3>1, HandleOfTask, Typing
    <3>3. added[t] = TRUE \/ t \in marking
      BY <3>1 DEF TcpInv, MarksFollow
    <3>4. t \notin unarmed
      BY <2>2 DEF TcpInv, ArmedIsWaiting
    <3>. QED  BY <3>2, <3>3, <3>4 DEF EpollCtlFails
  <2>. QED  BY <2>1, <2>2
<1>. QED  BY <1>1, TcpInvariant, PTL

(* Every open descriptor is held by a task that has still to close it, or  *)
(* by the one whose task found no room in the queue.                       *)
THEOREM NoDescriptorLeaks == TcpSpec => []DescriptorInv
<1>1. TcpInv => DescriptorInv
  BY Typing DEF TcpInv, SocketsAreOpen, DescriptorInv, DescriptorsHeld, Holding
<1>. QED  BY <1>1, TcpInvariant, PTL
=============================================================================
