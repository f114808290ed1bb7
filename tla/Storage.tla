------------------------------ MODULE Storage ------------------------------
(***************************************************************************)
(* Storage and ObjectVault (storage/storage.cc, object_vault.cc) as the    *)
(* commands create and select use them: a map from type names to object    *)
(* vaults under one lock, a lock per object vault, and a counter for the   *)
(* guids that all object vaults share.                                     *)
(*                                                                         *)
(* An object is named by its place in its vault. Of its data only the      *)
(* number of fields that its create has still to write is kept.            *)
(***************************************************************************)
EXTENDS TypeVault

CONSTANT MaxFields   \* bound on the fields one create writes

ASSUME StorageAssumption == MaxFields \in Nat

VARIABLES
    objectVault, \* objects_: the schema of each type's object vault, or 0
    storageLock, \* lock_
    vaultLock,   \* m_lock of each object vault
    lastGuid,    \* the static x of ObjectVault::CreateObject
    store,       \* store_ of each object vault
    index,       \* object_id_index_ of each object vault
    made,        \* history: how many object vaults were made for a type
    guid,        \* create: the value of x it has read
    object,      \* create: the object it has made
    missing,     \* create: fields still to be written
    seen,        \* select: the objects Enumerate has passed
    expected     \* history: the objects created when select began

storageVars == <<objectVault, storageLock, vaultLock, lastGuid, store, index,
                 made, guid, object, missing, seen, expected>>

Objects == [guid : Nat, missing : 0 .. MaxFields, created : BOOLEAN]

StorageTypeOK ==
    /\ objectVault \in [Names -> 0 .. MaxTypes]
    /\ storageLock \in Sessions \cup {NoSession}
    /\ vaultLock \in [Names -> Sessions \cup {NoSession}]
    /\ lastGuid \in Nat
    /\ store \in [Names -> Seq(Objects)]
    /\ \A n \in Names :
          index[n] \in [DOMAIN index[n] -> 1 .. Len(store[n])]
    /\ made \in [Names -> Nat]
    /\ guid \in [Sessions -> Nat]
    /\ object \in [Sessions -> Nat]
    /\ missing \in [Sessions -> 0 .. MaxFields]
    /\ seen \in [Sessions -> SUBSET Nat]
    /\ expected \in [Sessions -> SUBSET Nat]

StorageInit ==
    /\ objectVault = [n \in Names |-> 0]
    /\ storageLock = NoSession
    /\ vaultLock = [n \in Names |-> NoSession]
    /\ lastGuid = 0
    /\ store = [n \in Names |-> <<>>]
    /\ index = [n \in Names |-> <<>>]
    /\ made = [n \in Names |-> 0]
    /\ guid = [s \in Sessions |-> 0]
    /\ object = [s \in Sessions |-> 0]
    /\ missing = [s \in Sessions |-> 0]
    /\ seen = [s \in Sessions |-> {}]
    /\ expected = [s \in Sessions |-> {}]

-----------------------------------------------------------------------------
(* EnsureVaultWithType.                                                    *)

(* The type has an object vault already.                                   *)
EnsureFinds(s) ==
    /\ pc[s] = "ensure"
    /\ storageLock = NoSession
    /\ objectVault[name[s]] # 0
    /\ answer' = [answer EXCEPT ![s] = objectVault[name[s]]]
    /\ Goto(s, "object")
    /\ UNCHANGED <<vaultVars, home, command, name, field, todo, before,
                   storageVars>>

(* Fault: the lock is released while the schema is looked for.             *)
EnsureMissesUnlocked(s) ==
    /\ pc[s] = "ensure"
    /\ storageLock = NoSession
    /\ objectVault[name[s]] = 0
    /\ Goto(s, "find")
    /\ UNCHANGED <<vaultVars, home, command, name, field, answer, todo,
                   before, storageVars>>

(* It has none: FindSchema, with lock_ held, which may wait for rw_lock_.  *)
EnsureMisses(s) ==
    /\ pc[s] = "ensure"
    /\ storageLock = NoSession
    /\ objectVault[name[s]] = 0
    /\ storageLock' = s
    /\ Goto(s, "find")
    /\ UNCHANGED <<vaultVars, home, command, name, field, answer, todo,
                   before, objectVault, vaultLock, lastGuid, store, index,
                   made, guid, object, missing, seen, expected>>

(* The type is unknown or basic: no object vault.                          *)
EnsureRefuses(s) ==
    /\ pc[s] = "ensured"
    /\ answer[s] = 0 \/ name[s] = Basic
    /\ storageLock' = NoSession
    /\ Goto(s, "object")
    /\ UNCHANGED <<vaultVars, home, command, name, field, answer, todo,
                   before, objectVault, vaultLock, lastGuid, store, index,
                   made, guid, object, missing, seen, expected>>

(* objects_.insert keeps an entry that is there.                           *)
EnsureInserts(s) ==
    /\ pc[s] = "ensured"
    /\ answer[s] # 0 /\ name[s] # Basic
    /\ made' = [made EXCEPT ![name[s]] = @ + 1]
    /\ objectVault' = IF objectVault[name[s]] # 0 THEN objectVault
                      ELSE [objectVault EXCEPT ![name[s]] = answer[s]]
    /\ storageLock' = NoSession
    /\ Goto(s, "object")
    /\ UNCHANGED <<vaultVars, home, command, name, field, answer, todo,
                   before, vaultLock, lastGuid, store, index, guid, object,
                   missing, seen, expected>>

-----------------------------------------------------------------------------
(* CreateObject, and the fields create then writes.                        *)

(* objects_.find, without lock_: "No storage for type".                    *)
CreateObjectFails(s) ==
    /\ pc[s] = "object"
    /\ objectVault[name[s]] = 0
    /\ Goto(s, "idle")
    /\ UNCHANGED <<vaultVars, home, command, name, field, answer, todo,
                   before, storageVars>>

(* m_lock of this object vault; then x is read ...                         *)
ReadGuid(s) ==
    /\ pc[s] = "object"
    /\ objectVault[name[s]] # 0
    /\ vaultLock[name[s]] = NoSession
    /\ vaultLock' = [vaultLock EXCEPT ![name[s]] = s]
    /\ guid' = [guid EXCEPT ![s] = lastGuid]
    /\ Goto(s, "guid")
    /\ UNCHANGED <<vaultVars, home, command, name, field, answer, todo,
                   before, objectVault, storageLock, lastGuid, store, index,
                   made, object, missing, seen, expected>>

(* ... and incremented, which no lock makes one step with the read when    *)
(* objects of another type are created. The object can be seen from here.  *)
StoreObject(s) ==
    LET n == name[s]
        g == guid[s] + 1
        i == Len(store[n]) + 1
    IN
    /\ pc[s] = "guid"
    /\ lastGuid' = g
    /\ store' = [store EXCEPT ![n] = Append(@, [guid |-> g,
                                                missing |-> missing[s],
                                                created |-> FALSE])]
    /\ index' = [index EXCEPT ![n] = [h \in DOMAIN @ \cup {g} |->
                                         IF h = g THEN i ELSE @[h]]]
    /\ vaultLock' = [vaultLock EXCEPT ![n] = NoSession]
    /\ guid' = [guid EXCEPT ![s] = 0]
    /\ object' = [object EXCEPT ![s] = i]
    /\ Goto(s, "write")
    /\ UNCHANGED <<vaultVars, home, command, name, field, answer, todo,
                   before, objectVault, storageLock, made, missing, seen,
                   expected>>

(* WriteTyped stores one field; nothing locks the object.                  *)
WriteTyped(s) ==
    /\ pc[s] = "write"
    /\ missing[s] > 0
    /\ missing' = [missing EXCEPT ![s] = @ - 1]
    /\ store' = [store EXCEPT ![name[s]][object[s]].missing = @ - 1]
    /\ UNCHANGED <<vaultVars, sessionVars, objectVault, storageLock,
                   vaultLock, lastGuid, index, made, guid, object, seen,
                   expected>>

(* An argument is no field name, a value is missing, or WriteTyped refuses *)
(* the field: create fails, and the object stays where it is.              *)
CreateFails(s) ==
    /\ pc[s] = "write"
    /\ missing[s] > 0
    /\ missing' = [missing EXCEPT ![s] = 0]
    /\ object' = [object EXCEPT ![s] = 0]
    /\ Goto(s, "idle")
    /\ UNCHANGED <<vaultVars, home, command, name, field, answer, todo,
                   before, objectVault, storageLock, vaultLock, lastGuid,
                   store, index, made, guid, seen, expected>>

CreateSucceeds(s) ==
    /\ pc[s] = "write"
    /\ missing[s] = 0
    /\ store' = [store EXCEPT ![name[s]][object[s]].created = TRUE]
    /\ object' = [object EXCEPT ![s] = 0]
    /\ Goto(s, "idle")
    /\ UNCHANGED <<vaultVars, home, command, name, field, answer, todo,
                   before, objectVault, storageLock, vaultLock, lastGuid,
                   index, made, guid, missing, seen, expected>>

-----------------------------------------------------------------------------
(* Enumerate.                                                              *)

(* FindVaultWithType; with no object vault select has nothing to send.     *)
FindVaultWithType(s) ==
    /\ pc[s] = "selecting"
    /\ storageLock = NoSession
    /\ Goto(s, IF objectVault[name[s]] = 0 THEN "output" ELSE "enumerate")
    /\ UNCHANGED <<vaultVars, home, command, name, field, answer, todo,
                   before, storageVars>>

(* Fault: the last object is left out.                                     *)
EnumerateShort(s) ==
    /\ pc[s] = "enumerate"
    /\ vaultLock[name[s]] = NoSession
    /\ seen' = [seen EXCEPT ![s] = 1 .. Len(store[name[s]]) - 1]
    /\ Goto(s, "output")
    /\ UNCHANGED <<vaultVars, home, command, name, field, answer, todo,
                   before, objectVault, storageLock, vaultLock, lastGuid,
                   store, index, made, guid, object, missing, expected>>

(* The handler keeps a pointer to the data of each object.                 *)
Enumerate(s) ==
    /\ pc[s] = "enumerate"
    /\ vaultLock[name[s]] = NoSession
    /\ seen' = [seen EXCEPT ![s] = 1 .. Len(store[name[s]])]
    /\ Goto(s, "output")
    /\ UNCHANGED <<vaultVars, home, command, name, field, answer, todo,
                   before, objectVault, storageLock, vaultLock, lastGuid,
                   store, index, made, guid, object, missing, expected>>

(* The data is read through the pointers when the response is serialized,  *)
(* after every lock was released.                                          *)
Serialize(s) ==
    /\ pc[s] = "output"
    /\ seen' = [seen EXCEPT ![s] = {}]
    /\ expected' = [expected EXCEPT ![s] = {}]
    /\ Goto(s, "idle")
    /\ UNCHANGED <<vaultVars, home, command, name, field, answer, todo,
                   before, objectVault, storageLock, vaultLock, lastGuid,
                   store, index, made, guid, object, missing>>

StorageStep(s) ==
    \/ EnsureFinds(s)
    \/ EnsureMisses(s)
    \/ EnsureRefuses(s)
    \/ EnsureInserts(s)
    \/ CreateObjectFails(s)
    \/ ReadGuid(s)
    \/ StoreObject(s)
    \/ WriteTyped(s)
    \/ CreateFails(s)
    \/ CreateSucceeds(s)
    \/ FindVaultWithType(s)
    \/ Enumerate(s)
    \/ Serialize(s)
=============================================================================
