------------------------------ MODULE SlangEnv ------------------------------
(***************************************************************************)
(* The commands of main/slang_env.cc that touch shared state (defstruct,   *)
(* create, select), executed by client sessions (main/endpoint.cc) over    *)
(* the type vaults and the storage.                                        *)
(*                                                                         *)
(* A session is a task: it runs on one worker thread at a time and may be  *)
(* on another one for its next command, but it keeps the SharedDeps, and   *)
(* with them the TypeVault, of the thread on which ServeCommandMode began. *)
(***************************************************************************)
EXTENDS Storage

CONSTANTS
    Commands,     \* the commands sessions may send,
    Targets,      \* the type names they are about
    FieldTypes,   \* and the types they give to fields
    MaxCommands,  \* bound on the commands of one session
    Pinned        \* no session is ever stolen by another thread

ASSUME EnvAssumption ==
    /\ Commands \subseteq {"defstruct", "create", "select"}
    /\ Targets \subseteq Names
    /\ FieldTypes \subseteq Names
    /\ MaxCommands \in Nat
    /\ Pinned \in BOOLEAN

VARIABLES
    thread,       \* the worker thread each session runs on
    sent          \* how many commands it has sent

vars == <<vaultVars, sessionVars, storageVars, thread, sent>>

(* The types of the vaults, the storage and the sessions: no cached schema *)
(* and no object handle ever points outside its list.                      *)
TypeOK ==
    /\ VaultTypeOK
    /\ StorageTypeOK
    /\ thread \in [Sessions -> Vaults]
    /\ sent \in [Sessions -> 0 .. MaxCommands]

Init ==
    /\ VaultInit
    /\ StorageInit
    /\ thread = home
    /\ sent = [s \in Sessions |-> 0]

(* Session s begins a command on thread t, which executes no other task.   *)
Begin(s, t, c, n, label) ==
    /\ pc[s] = "idle"
    /\ c \in Commands
    /\ sent[s] < MaxCommands
    /\ home[s] \in vaults
    /\ t \in vaults
    /\ Pinned => t = home[s]
    /\ \A z \in Sessions \ {s} : pc[z] = "idle" \/ thread[z] # t
    /\ thread' = [thread EXCEPT ![s] = t]
    /\ sent' = [sent EXCEPT ![s] = @ + 1]
    /\ command' = [command EXCEPT ![s] = c]
    /\ name' = [name EXCEPT ![s] = n]
    /\ before' = [before EXCEPT ![s] = defined]
    /\ Goto(s, label)
    /\ UNCHANGED <<vaultVars, home, answer, todo>>

(* (defstruct n :x f)                                                      *)
Defstruct(s, t, n, f) ==
    /\ Begin(s, t, "defstruct", n, "find")
    /\ field' = [field EXCEPT ![s] = f]
    /\ UNCHANGED storageVars

(* (create n ...) with k fields                                            *)
Create(s, t, n, k) ==
    /\ Begin(s, t, "create", n, "ensure")
    /\ missing' = [missing EXCEPT ![s] = k]
    /\ UNCHANGED <<field, objectVault, storageLock, vaultLock, lastGuid,
                   store, index, made, guid, object, seen, expected>>

(* (select n)                                                              *)
Select(s, t, n) ==
    /\ Begin(s, t, "select", n, "selecting")
    /\ expected' = [expected EXCEPT ![s] =
                       {i \in 1 .. Len(store[n]) : store[n][i].created}]
    /\ UNCHANGED <<field, objectVault, storageLock, vaultLock, lastGuid,
                   store, index, made, guid, object, missing, seen>>

SessionStep(s) ==
    \/ VaultStep(s) /\ UNCHANGED <<storageVars, thread, sent>>
    \/ StorageStep(s) /\ UNCHANGED <<thread, sent>>

Arrives(s) ==
    \E t \in Vaults, n \in Targets :
        \/ \E f \in FieldTypes : Defstruct(s, t, n, f)
        \/ \E k \in 0 .. MaxFields : Create(s, t, n, k)
        \/ Select(s, t, n)

(* Every session has sent its last command and waits for input.            *)
Finished ==
    /\ \A s \in Sessions : pc[s] = "idle" /\ sent[s] = MaxCommands
    /\ UNCHANGED vars

Next ==
    \/ CreateVault /\ UNCHANGED <<storageVars, thread, sent>>
    \/ \E s \in Sessions : Arrives(s) \/ SessionStep(s)
    \/ Finished

Spec == Init /\ [][Next]_vars

(* A worker executes the command of a task to its end.                     *)
FairSpec == Spec /\ \A s \in Sessions : WF_vars(SessionStep(s))

-----------------------------------------------------------------------------
(* Properties.                                                             *)

(* Session s is in FindSchema, or in CreateSchema, which calls it.         *)
InVault(s) == pc[s] \in {"find", "refresh", "dup", "handler", "invalidate"}

(* type_vault.h:43: FindSchema is "Not thread-safe, expected to be called  *)
(* from a single thread": no two sessions are inside of one vault.         *)
VaultConfined ==
    \A s, z \in Sessions :
        s # z /\ InVault(s) /\ InVault(z) => home[s] # home[z]

First(n, i) == types[i] = n /\ \A j \in 1 .. i - 1 : types[j] # n

(* All threads agree on what a name means, whenever each of them refreshes *)
(* its cache and also if two threads define one name: a cached schema, and *)
(* the schema of an object vault, is the first of that name in the list;   *)
(* and a cache holds the names of all nodes up to current_.                *)
Agreement ==
    /\ \A v \in Vaults, n \in Names :
          IF cache[v][n] # 0 THEN First(n, cache[v][n])
          ELSE \A i \in 1 .. current[v] : types[i] # n
    /\ \A n \in Names : objectVault[n] # 0 => First(n, objectVault[n])

(* A type is known everywhere as soon as its defstruct has returned: no    *)
(* create that begins later misses it, and no defstruct that begins later  *)
(* defines it again.                                                       *)
Fresh ==
    \A s \in Sessions :
        /\ pc[s] = "invalidate" => name[s] \notin before[s]
        /\ command[s] = "create" /\ pc[s] \in {"ensured", "object"}
              /\ answer[s] = 0 => name[s] \notin before[s]

(* Under the exclusive lock FindSchema never finds the cache dirty: it     *)
(* would wait for the lock its own thread holds.                           *)
NeverWaitsForItself ==
    \A s \in Sessions : pc[s] \in {"dup", "handler"} => updated[home[s]]

(* The caches are up to date where a command relies on them, and Create-  *)
(* Schema does not wait for the lock it holds.                             *)
CacheInv == TypeOK /\ Fresh /\ NeverWaitsForItself

(* Two creates that meet never make two object vaults for one type.        *)
OneVaultPerType == \A n \in Names : made[n] <= 1

(* A select returns every object whose create had returned when it began.  *)
SelectComplete ==
    \A s \in Sessions : pc[s] = "output" => expected[s] \subseteq seen[s]

(* Every command is answered: lock_, rw_lock_ and the locks of the object  *)
(* vaults are always released and never waited for in a circle.            *)
CommandsFinish == \A s \in Sessions : pc[s] # "idle" ~> pc[s] = "idle"
=============================================================================
