----------------------------- MODULE TypeVault -----------------------------
(***************************************************************************)
(* TypeManager and its TypeVaults (types/type_vault.h, .cc): one list of   *)
(* type schemas under a readers-writer lock, and for every worker thread a *)
(* vault that caches the list as a map, told by an atomic flag when the    *)
(* cache is dirty.                                                         *)
(*                                                                         *)
(* The callers are client sessions (Endpoint::ServeCommandMode). A session *)
(* uses the vault of the thread it was first served on, its home. A schema *)
(* is named by its place in the list; 0 is k_types_invalid_schema.         *)
(***************************************************************************)
EXTENDS Naturals, Sequences

CONSTANTS
    Sessions,    \* client sessions
    Vaults,      \* the worker threads' vaults
    LateVault,   \* the vault of worker 0, created after the others run tasks
    UserNames,   \* names that defstruct may define
    Basic,       \* a basic type, in the list from the start
    NoSession,   \* nobody holds the lock
    MaxTypes     \* bound on the length of the list

Names == UserNames \cup {Basic}

ASSUME VaultAssumption ==
    /\ LateVault \in Vaults
    /\ Basic \notin UserNames
    /\ NoSession \notin Sessions
    /\ MaxTypes \in Nat \ {0}

VARIABLES
    types,       \* types_list_
    writer,      \* who holds rw_lock_ exclusively; readers hold it in a step
    vaults,      \* vaults_
    updated,     \* updated_ of each vault
    cache,       \* schemas_map_ of each vault
    current,     \* current_ of each vault: the last node in its cache
    home,        \* the vault each session uses
    pc,          \* where each session is
    command,     \* the command it executes
    name,        \* the type name it is about
    field,       \* defstruct: the type of a field, or the name itself
    answer,      \* the schema the last lookup or CreateSchema returned
    todo,        \* InvalidateCaches: the vaults still to be marked
    defined,     \* history: names whose CreateSchema has returned
    before       \* history: defined when the session's command began

vaultVars == <<types, writer, vaults, updated, cache, current, defined>>
sessionVars == <<home, pc, command, name, field, answer, todo, before>>

PCs == {"idle", "find", "refresh", "lock", "dup", "handler", "invalidate",
        "ensure", "ensured", "object", "guid", "write", "selecting",
        "enumerate", "output"}

VaultTypeOK ==
    /\ types \in Seq(Names)
    /\ writer \in Sessions \cup {NoSession}
    /\ vaults \in SUBSET Vaults
    /\ updated \in [Vaults -> BOOLEAN]
    /\ cache \in [Vaults -> [Names -> 0 .. MaxTypes]]
    /\ current \in [Vaults -> 0 .. Len(types)]
    /\ home \in [Sessions -> Vaults]
    /\ pc \in [Sessions -> PCs]
    /\ command \in [Sessions -> {"none", "defstruct", "create", "select"}]
    /\ name \in [Sessions -> Names]
    /\ field \in [Sessions -> Names]
    /\ answer \in [Sessions -> 0 .. MaxTypes]
    /\ todo \in [Sessions -> SUBSET Vaults]
    /\ defined \in SUBSET Names
    /\ before \in [Sessions -> SUBSET Names]

(* The constructor enqueues the basic types; every vault starts dirty.     *)
VaultInit ==
    /\ types = <<Basic>>
    /\ writer = NoSession
    /\ vaults = Vaults \ {LateVault}
    /\ updated = [v \in Vaults |-> FALSE]
    /\ cache = [v \in Vaults |-> [n \in Names |-> 0]]
    /\ current = [v \in Vaults |-> 0]
    /\ home \in [Sessions -> Vaults]
    /\ pc = [s \in Sessions |-> "idle"]
    /\ command = [s \in Sessions |-> "none"]
    /\ name = [s \in Sessions |-> Basic]
    /\ field = [s \in Sessions |-> Basic]
    /\ answer = [s \in Sessions |-> 0]
    /\ todo = [s \in Sessions |-> {}]
    /\ defined = {Basic}
    /\ before = [s \in Sessions |-> {}]

Goto(s, label) == pc' = [pc EXCEPT ![s] = label]

-----------------------------------------------------------------------------
(* CreateVault, called from the before_thread_start hook of worker 0 while *)
(* the other workers may be running tasks.                                 *)
CreateVault ==
    /\ LateVault \notin vaults
    /\ vaults' = vaults \cup {LateVault}
    /\ UNCHANGED <<types, writer, updated, cache, current, defined, sessionVars>>

(* Where FindSchema returns to: HasType of defstruct goes on to create the *)
(* schema if there is none, EnsureVaultWithType goes on in any case.       *)
AfterFind(s, schema) ==
    CASE command[s] = "create" -> "ensured"
      [] command[s] = "defstruct" /\ schema = 0 -> "lock"
      [] OTHER -> "idle"

(* FindSchema with a clean cache.                                          *)
FindCached(s) ==
    /\ pc[s] = "find"
    /\ updated[home[s]]
    /\ answer' = [answer EXCEPT ![s] = cache[home[s]][name[s]]]
    /\ Goto(s, AfterFind(s, cache[home[s]][name[s]]))
    /\ UNCHANGED <<vaultVars, home, command, name, field, todo, before>>

(* FindSchema with a dirty one: test_and_set comes first ...               *)
FindDirty(s) ==
    /\ pc[s] = "find"
    /\ ~updated[home[s]]
    /\ updated' = [updated EXCEPT ![home[s]] = TRUE]
    /\ Goto(s, "refresh")
    /\ UNCHANGED <<types, writer, vaults, cache, current, defined, home,
                   command, name, field, answer, todo, before>>

(* Fault: the last of several nodes with one name wins.                    *)
RefreshedOverwrites(v) ==
    [n \in Names |->
        LET new == {i \in 1 .. Len(types) : i > current[v] /\ types[i] = n} IN
        IF new = {} THEN cache[v][n]
        ELSE CHOOSE i \in new : \A j \in new : i >= j]

(* The nodes behind current_ go into the map; insert keeps what is there.  *)
Refreshed(v) ==
    [n \in Names |->
        LET new == {i \in 1 .. Len(types) : i > current[v] /\ types[i] = n} IN
        IF cache[v][n] # 0 \/ new = {} THEN cache[v][n]
        ELSE CHOOSE i \in new : \A j \in new : i <= j]

(* ... and RunShared reads the list second, waiting for the writer.        *)
Refresh(s) ==
    LET v == home[s] IN
    /\ pc[s] = "refresh"
    /\ writer = NoSession
    /\ cache' = [cache EXCEPT ![v] = Refreshed(v)]
    /\ current' = [current EXCEPT ![v] = Len(types)]
    /\ answer' = [answer EXCEPT ![s] = Refreshed(v)[name[s]]]
    /\ Goto(s, AfterFind(s, Refreshed(v)[name[s]]))
    /\ UNCHANGED <<types, writer, vaults, updated, defined, home, command,
                   name, field, todo, before>>
-----------------------------------------------------------------------------
(* CreateSchema, all of it under the exclusive lock.                       *)

(* Fault: the cache is left to be refreshed under the exclusive lock.      *)
CreateBeginDirty(s) ==
    /\ pc[s] = "lock"
    /\ writer = NoSession
    /\ writer' = s
    /\ Goto(s, "dup")
    /\ UNCHANGED <<types, vaults, updated, cache, current, defined, home,
                   command, name, field, answer, todo, before>>

(* The flag is set so that FindSchema takes no lock while this one is held *)
(* - and looks into a cache that need not be up to date.                   *)
CreateBegin(s) ==
    /\ pc[s] = "lock"
    /\ writer = NoSession
    /\ writer' = s
    /\ updated' = [updated EXCEPT ![home[s]] = TRUE]
    /\ Goto(s, "dup")
    /\ UNCHANGED <<types, vaults, cache, current, defined, home, command,
                   name, field, answer, todo, before>>

(* CreateSchema returns the invalid schema: the cache is dirty again.      *)
CreateGivesUp(s) ==
    /\ updated' = [updated EXCEPT ![home[s]] = FALSE]
    /\ writer' = NoSession
    /\ answer' = [answer EXCEPT ![s] = 0]
    /\ Goto(s, "idle")
    /\ UNCHANGED <<types, vaults, cache, current, defined, home, command,
                   name, field, todo, before>>

CreateDuplicate(s) ==
    /\ pc[s] = "dup"
    /\ updated[home[s]]
    /\ cache[home[s]][name[s]] # 0
    /\ CreateGivesUp(s)

AllocateSchema(s) ==
    /\ pc[s] = "dup"
    /\ updated[home[s]]
    /\ cache[home[s]][name[s]] = 0
    /\ Goto(s, "handler")
    /\ UNCHANGED <<vaultVars, home, command, name, field, answer, todo, before>>

(* The handler of defstruct finds an argument it does not expect, or the   *)
(* type of a field is not in the cache.                                    *)
HandlerFails(s) ==
    /\ pc[s] = "handler"
    /\ updated[home[s]]
    /\ CreateGivesUp(s)

(* Fault: only the vault that created the type is marked dirty.            *)
EnqueueSchemaLocally(s) ==
    /\ pc[s] = "handler"
    /\ updated[home[s]]
    /\ cache[home[s]][field[s]] # 0
    /\ Len(types) < MaxTypes
    /\ types' = Append(types, name[s])
    /\ answer' = [answer EXCEPT ![s] = Len(types) + 1]
    /\ todo' = [todo EXCEPT ![s] = {home[s]}]
    /\ Goto(s, "invalidate")
    /\ UNCHANGED <<writer, vaults, updated, cache, current, defined, home,
                   command, name, field, before>>

(* The handler succeeds; EnqueueSchema appends the node ...                *)
EnqueueSchema(s) ==
    /\ pc[s] = "handler"
    /\ updated[home[s]]
    /\ cache[home[s]][field[s]] # 0
    /\ Len(types) < MaxTypes
    /\ types' = Append(types, name[s])
    /\ answer' = [answer EXCEPT ![s] = Len(types) + 1]
    /\ todo' = [todo EXCEPT ![s] = vaults]
    /\ Goto(s, "invalidate")
    /\ UNCHANGED <<writer, vaults, updated, cache, current, defined, home,
                   command, name, field, before>>

(* ... and InvalidateCaches marks the vaults one by one, while the threads *)
(* they belong to look at their flags.                                     *)
InvalidateCache(s, v) ==
    /\ pc[s] = "invalidate"
    /\ v \in todo[s]
    /\ updated' = [updated EXCEPT ![v] = FALSE]
    /\ todo' = [todo EXCEPT ![s] = @ \ {v}]
    /\ UNCHANGED <<types, writer, vaults, cache, current, defined, home, pc,
                   command, name, field, answer, before>>

CreateReturns(s) ==
    /\ pc[s] = "invalidate"
    /\ todo[s] = {}
    /\ writer' = NoSession
    /\ defined' = defined \cup {name[s]}
    /\ Goto(s, "idle")
    /\ UNCHANGED <<types, vaults, updated, cache, current, home, command,
                   name, field, answer, todo, before>>

VaultStep(s) ==
    \/ FindCached(s)
    \/ FindDirty(s)
    \/ Refresh(s)
    \/ CreateBegin(s)
    \/ CreateDuplicate(s)
    \/ AllocateSchema(s)
    \/ HandlerFails(s)
    \/ EnqueueSchema(s)
    \/ \E v \in Vaults : InvalidateCache(s, v)
    \/ CreateReturns(s)
=============================================================================
