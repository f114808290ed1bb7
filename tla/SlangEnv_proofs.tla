--------------------------- MODULE SlangEnv_proofs --------------------------
(***************************************************************************)
(* What the commands of client sessions keep true of the type vaults and   *)
(* the storage, for every number of sessions, vaults, types and commands.  *)
(***************************************************************************)
EXTENDS SlangEnv, TLAPS, SequenceTheorems, FiniteSetTheorems,
        WellFoundedInduction

-----------------------------------------------------------------------------
(* The types, and the objects that are being written.                      *)

(* The list of types is as long as the bound allows, and as far as any     *)
(* cache was refreshed.                                                    *)
Bounded == Len(types) <= MaxTypes

(* A create that writes fields writes to an object that is there, nobody   *)
(* else does, and the object lacks the fields the create has still to      *)
(* write.                                                                  *)
Writing ==
    /\ \A s \in Sessions : pc[s] = "write" =>
          /\ object[s] \in 1 .. Len(store[name[s]])
          /\ store[name[s]][object[s]].missing = missing[s]
    /\ \A s, z \in Sessions :
          pc[s] = "write" /\ pc[z] = "write" /\ s # z /\ name[s] = name[z]
             => object[s] # object[z]

(* Every object vault has its object_id_index_.                            *)
Indexed == index = [n \in Names |-> index[n]]

TypesInv == TypeOK /\ Bounded /\ Indexed /\ Writing

-----------------------------------------------------------------------------
(* Locks.                                                                  *)

(* Who is inside CreateSchema holds rw_lock_ exclusively, and nobody else  *)
(* changes the list or marks a vault.                                      *)
Exclusive ==
    \A s \in Sessions : pc[s] \in {"dup", "handler", "invalidate"} => writer = s

HoldsStorage(s) ==
    \/ pc[s] \in {"find", "refresh"} /\ command[s] = "create"
    \/ pc[s] = "ensured"

(* A create that looks for the schema of a type without an object vault    *)
(* holds lock_, so that the type still has none when it inserts one.       *)
Ensuring ==
    /\ \A s \in Sessions : pc[s] = "ensure" => command[s] = "create"
    /\ \A s \in Sessions :
          HoldsStorage(s) => storageLock = s /\ objectVault[name[s]] = 0

MadeOnce == \A n \in Names : made[n] = IF objectVault[n] = 0 THEN 0 ELSE 1

(* Objects are in object vaults.                                           *)
StoredInVault ==
    /\ \A n \in Names : objectVault[n] = 0 => Len(store[n]) = 0
    /\ \A s \in Sessions : pc[s] = "guid" => objectVault[name[s]] # 0

(* A select looks for what is in the store.                                *)
Selecting ==
    /\ \A s \in Sessions : pc[s] \in {"selecting", "enumerate"} =>
          expected[s] \subseteq 1 .. Len(store[name[s]])
    /\ SelectComplete

(* A schema that was found for a create is the first of its name.          *)
FoundIsFirst ==
    \A s \in Sessions : pc[s] = "ensured" /\ answer[s] # 0 =>
        answer[s] \in 1 .. Len(types) /\ First(name[s], answer[s])

(* What a cache or an object vault refers to is in the list.               *)
RefersToList ==
    /\ \A v \in Vaults, n \in Names : cache[v][n] # 0 => cache[v][n] \in 1 .. Len(types)
    /\ \A n \in Names : objectVault[n] # 0 => objectVault[n] \in 1 .. Len(types)

EnvInv ==
    /\ TypesInv
    /\ Exclusive /\ NeverWaitsForItself
    /\ Ensuring /\ MadeOnce
    /\ StoredInVault /\ Selecting
    /\ RefersToList /\ Agreement /\ FoundIsFirst

-----------------------------------------------------------------------------
(* Freshness, as long as no two sessions are inside of one vault.          *)

(* A command uses a vault that was created.                                *)
VaultIsCreated == \A s \in Sessions : pc[s] # "idle" => home[s] \in vaults

(* Vault v knows the name n, will look for it, or is being brought up to   *)
(* date by the command that uses it.                                       *)
Reaches(v, n) ==
    \/ cache[v][n] # 0
    \/ ~updated[v]
    \/ \E s \in Sessions :
          /\ home[s] = v
          /\ \/ pc[s] \in {"refresh", "dup", "handler"}
             \/ pc[s] = "invalidate" /\ v \in todo[s]

(* A defined name is in the list and reaches every vault; so does the name *)
(* a defstruct is defining once it has marked the vault.                   *)
DefinedReaches ==
    /\ \A n \in defined : \E i \in 1 .. Len(types) : types[i] = n
    /\ \A n \in defined, v \in Vaults : Reaches(v, n)
    /\ \A s \in Sessions : pc[s] = "invalidate" =>
          /\ \E i \in 1 .. Len(types) : types[i] = name[s]
          /\ \A v \in Vaults \ todo[s] : Reaches(v, name[s])
    /\ \A v \in Vaults \ vaults : ~updated[v]

(* A command that did not find the name had no chance to.                  *)
NotBefore ==
    /\ \A s \in Sessions : before[s] \subseteq defined
    /\ \A s \in Sessions : pc[s] \in {"lock", "dup", "handler"} => name[s] \notin before[s]
    /\ Fresh

FreshInv == EnvInv /\ VaultIsCreated /\ DefinedReaches /\ NotBefore

-----------------------------------------------------------------------------
(* Types.                                                                  *)

(* The variables and their types, one by one.                              *)
LEMMA Typing ==
    ASSUME TypeOK
    PROVE  /\ types \in Seq(Names) /\ Len(types) \in Nat
           /\ writer \in Sessions \cup {NoSession} /\ vaults \in SUBSET Vaults
           /\ updated \in [Vaults -> BOOLEAN]
           /\ cache \in [Vaults -> [Names -> 0 .. MaxTypes]]
           /\ current \in [Vaults -> 0 .. Len(types)]
           /\ home \in [Sessions -> Vaults] /\ pc \in [Sessions -> PCs]
           /\ command \in [Sessions -> {"none", "defstruct", "create", "select"}]
           /\ name \in [Sessions -> Names] /\ field \in [Sessions -> Names]
           /\ answer \in [Sessions -> 0 .. MaxTypes]
           /\ todo \in [Sessions -> SUBSET Vaults]
           /\ defined \in SUBSET Names /\ before \in [Sessions -> SUBSET Names]
           /\ MaxTypes \in Nat
BY VaultAssumption, LenProperties DEF TypeOK, VaultTypeOK

(* A step that only moves pcs, and none to the writing of fields, leaves   *)
(* what is written alone.                                                  *)
LEMMA WritingStays ==
    ASSUME Writing, UNCHANGED <<store, object, missing, name>>,
           \A z \in Sessions : pc'[z] = "write" => pc[z] = "write"
    PROVE  Writing'
BY DEF Writing

(* The least node of a name among the new ones.                            *)
LEMMA LeastNew ==
    ASSUME NEW T, T \subseteq Nat, T # {}
    PROVE  /\ (CHOOSE i \in T : \A j \in T : i <= j) \in T
           /\ \A j \in T : (CHOOSE i \in T : \A k \in T : i <= k) <= j
<1>1. PICK m \in T : \A k \in T : ~(<<k, m>> \in OpToRel(<, Nat))
  BY NatLessThanWellFounded, WFMin
<1>2. \A k \in T : ~(k < m)
  BY <1>1 DEF OpToRel
<1>3. \A k \in T : m <= k
  BY <1>2
<1>. QED  BY <1>3

(* What a refreshed cache says of a name.                                  *)
LEMMA RefreshedIs ==
    ASSUME TypesInv, NEW v \in Vaults, NEW n \in Names
    PROVE  /\ Refreshed(v)[n] \in 0 .. MaxTypes
           /\ cache[v][n] # 0 => Refreshed(v)[n] = cache[v][n]
           /\ Refreshed(v)[n] = 0 => \A i \in 1 .. Len(types) : i > current[v] => types[i] # n
           /\ cache[v][n] = 0 /\ Refreshed(v)[n] # 0 =>
                 /\ Refreshed(v)[n] \in 1 .. Len(types) /\ types[Refreshed(v)[n]] = n
                 /\ \A i \in 1 .. Len(types) :
                       i > current[v] /\ types[i] = n => Refreshed(v)[n] <= i
<1>. DEFINE new == {i \in 1 .. Len(types) : i > current[v] /\ types[i] = n}
<1>1. Refreshed(v)[n] = IF cache[v][n] # 0 \/ new = {} THEN cache[v][n]
                        ELSE CHOOSE i \in new : \A j \in new : i <= j
  BY DEF Refreshed
<1>2. /\ Len(types) \in Nat /\ Len(types) <= MaxTypes
      /\ cache[v][n] \in 0 .. MaxTypes /\ MaxTypes \in Nat
  BY Typing DEF TypesInv, Bounded
<1>3. CASE cache[v][n] # 0
  BY <1>1, <1>2, <1>3
<1>4. CASE cache[v][n] = 0 /\ new = {}
  BY <1>1, <1>2, <1>4
<1>5. CASE cache[v][n] = 0 /\ new # {}
  <2>1. Refreshed(v)[n] \in new /\ \A j \in new : Refreshed(v)[n] <= j
    <3>1. new \subseteq Nat
      BY <1>2
    <3>2. Refreshed(v)[n] = CHOOSE i \in new : \A j \in new : i <= j
      BY <1>1, <1>5
    <3>. HIDE DEF new
    <3>. QED  BY <1>5, <3>1, <3>2, LeastNew
  <2>2. Refreshed(v)[n] \in 1 .. Len(types) /\ types[Refreshed(v)[n]] = n
    BY <2>1
  <2>3. Refreshed(v)[n] # 0 /\ Refreshed(v)[n] \in 0 .. MaxTypes
    BY <1>2, <2>2
  <2>. QED  BY <1>5, <2>1, <2>2, <2>3
<1>. QED  BY <1>3, <1>4, <1>5

(* Where FindSchema returns to.                                            *)
LEMMA AfterFindIs ==
    ASSUME NEW s, NEW x
    PROVE  /\ AfterFind(s, x) \in {"ensured", "lock", "idle"}
           /\ AfterFind(s, x) = "ensured" <=> command[s] = "create"
           /\ AfterFind(s, x) = "lock" <=> command[s] = "defstruct" /\ x = 0
BY DEF AfterFind

(* The initial types.                                                      *)
LEMMA InitTypes == Init => TypesInv
<1>. SUFFICES ASSUME Init  PROVE TypesInv
  OBVIOUS
<1>1. /\ LateVault \in Vaults /\ MaxTypes \in Nat /\ MaxTypes >= 1 /\ Basic \in Names
      /\ MaxFields \in Nat /\ MaxCommands \in Nat
  BY VaultAssumption, StorageAssumption, EnvAssumption DEF Names
<1>2. VaultInit /\ StorageInit /\ thread = home /\ sent = [s \in Sessions |-> 0]
  BY DEF Init
<1>3. types \in Seq(Names) /\ Len(types) = 1
  BY <1>1, <1>2 DEF VaultInit
<1>4. VaultTypeOK
  BY <1>1, <1>2, <1>3 DEF VaultInit, VaultTypeOK, PCs
<1>5. StorageTypeOK
  BY <1>1, <1>2 DEF StorageInit, StorageTypeOK
<1>6. TypeOK
  BY <1>1, <1>2, <1>4, <1>5 DEF TypeOK, VaultTypeOK
<1>7. \A s \in Sessions : pc[s] = "idle"
  BY <1>2 DEF VaultInit
<1>8. Indexed
  BY <1>2 DEF StorageInit, Indexed
<1>. QED  BY <1>1, <1>3, <1>6, <1>7, <1>8 DEF TypesInv, Bounded, Writing

(* A command begins.                                                       *)
LEMMA ArrivesTypes ==
    ASSUME TypesInv, NEW s \in Sessions, Arrives(s)
    PROVE  TypesInv'
<1>0. TypeOK /\ VaultTypeOK /\ StorageTypeOK /\ Writing /\ Bounded /\ Indexed
  BY DEF TypesInv, TypeOK
<1>1. PICK t \in Vaults, n \in Targets :
         \/ \E f \in FieldTypes : Defstruct(s, t, n, f)
         \/ \E k \in 0 .. MaxFields : Create(s, t, n, k)
         \/ Select(s, t, n)
  BY DEF Arrives
<1>2. n \in Names /\ MaxCommands \in Nat /\ MaxFields \in Nat
  BY EnvAssumption, StorageAssumption
<1>3. PICK c \in Commands, label \in {"find", "ensure", "selecting"} : Begin(s, t, c, n, label)
  BY <1>1 DEF Defstruct, Create, Select, Begin
<1>4. /\ pc[s] = "idle" /\ sent[s] < MaxCommands
      /\ thread' = [thread EXCEPT ![s] = t] /\ sent' = [sent EXCEPT ![s] = @ + 1]
      /\ command' = [command EXCEPT ![s] = c] /\ name' = [name EXCEPT ![s] = n]
      /\ before' = [before EXCEPT ![s] = defined] /\ pc' = [pc EXCEPT ![s] = label]
      /\ UNCHANGED <<types, writer, vaults, updated, cache, current, defined, home, answer, todo>>
  BY <1>3 DEF Begin, Goto, vaultVars
<1>5. c \in {"defstruct", "create", "select"} /\ label \in PCs
  BY EnvAssumption DEF PCs
<1>6. field' \in [Sessions -> Names]
  BY <1>0, <1>1, EnvAssumption DEF Defstruct, Create, Select, VaultTypeOK
<1>7. VaultTypeOK'
  BY <1>0, <1>2, <1>4, <1>5, <1>6 DEF VaultTypeOK
<1>8. /\ UNCHANGED <<objectVault, storageLock, vaultLock, lastGuid, store, index, made,
                     guid, object, seen>>
      /\ missing' \in [Sessions -> 0 .. MaxFields]
      /\ \A z \in Sessions : z # s => missing'[z] = missing[z]
      /\ expected' \in [Sessions -> SUBSET Nat]
  <2>1. CASE \E f \in FieldTypes : Defstruct(s, t, n, f)
    BY <1>0, <2>1 DEF Defstruct, storageVars, StorageTypeOK
  <2>2. CASE \E k \in 0 .. MaxFields : Create(s, t, n, k)
    BY <1>0, <2>2 DEF Create, StorageTypeOK
  <2>3. CASE Select(s, t, n)
    <3>1. /\ expected' = [expected EXCEPT ![s] = {i \in 1 .. Len(store[n]) : store[n][i].created}]
          /\ UNCHANGED <<objectVault, storageLock, vaultLock, lastGuid, store, index, made,
                         guid, object, missing, seen>>
      BY <2>3 DEF Select
    <3>2. Len(store[n]) \in Nat
      BY <1>0, <1>2, LenProperties DEF StorageTypeOK
    <3>3. {i \in 1 .. Len(store[n]) : store[n][i].created} \in SUBSET Nat
      BY <3>2
    <3>. QED  BY <1>0, <3>1, <3>3 DEF StorageTypeOK
  <2>. QED  BY <1>1, <2>1, <2>2, <2>3
<1>9. StorageTypeOK'
  BY <1>0, <1>8 DEF StorageTypeOK
<1>10. thread' \in [Sessions -> Vaults] /\ sent' \in [Sessions -> 0 .. MaxCommands]
  BY <1>0, <1>2, <1>4 DEF TypeOK
<1>11. Writing'
  <2>1. \A z \in Sessions : pc'[z] = "write" => z # s /\ pc[z] = "write"
    BY <1>0, <1>4 DEF VaultTypeOK
  <2>2. \A z \in Sessions : z # s => name'[z] = name[z] /\ missing'[z] = missing[z]
    BY <1>0, <1>4, <1>8 DEF VaultTypeOK
  <2>. QED  BY <1>0, <1>8, <2>1, <2>2 DEF Writing
<1>. QED  BY <1>0, <1>4, <1>7, <1>8, <1>9, <1>10, <1>11 DEF TypesInv, TypeOK,
         Bounded, Indexed

(* A step of the type vaults.                                              *)
LEMMA VaultStepTypes ==
    ASSUME TypesInv, NEW s \in Sessions, VaultStep(s), UNCHANGED <<storageVars, thread, sent>>
    PROVE  TypesInv'
<1>0. TypeOK /\ VaultTypeOK /\ StorageTypeOK /\ Writing /\ Bounded /\ Indexed
  BY DEF TypesInv, TypeOK
<1>1. home[s] \in Vaults /\ name[s] \in Names /\ MaxTypes \in Nat
  BY <1>0, Typing
<1>2. cache[home[s]][name[s]] \in 0 .. MaxTypes /\ 0 \in 0 .. MaxTypes
  BY <1>0, <1>1, Typing
<1>3. PICK label \in PCs \ {"write"} : pc' = pc \/ pc' = [pc EXCEPT ![s] = label]
  BY AfterFindIs DEF VaultStep, FindCached, FindDirty, Refresh, CreateBegin,
     CreateDuplicate,
     CreateGivesUp, AllocateSchema, HandlerFails, EnqueueSchema, InvalidateCache,
     CreateReturns, Goto, PCs
<1>4. pc' \in [Sessions -> PCs] /\ \A z \in Sessions : pc'[z] = "write" => pc[z] = "write"
  BY <1>0, <1>3, Typing
<1>5. UNCHANGED <<home, command, name, field, before>>
  BY DEF VaultStep, FindCached, FindDirty, Refresh, CreateBegin,
     CreateDuplicate,
     CreateGivesUp, AllocateSchema, HandlerFails, EnqueueSchema, InvalidateCache, CreateReturns
<1>6. /\ writer' \in Sessions \cup {NoSession}
      /\ UNCHANGED vaults
      /\ updated' \in [Vaults -> BOOLEAN]
      /\ todo' \in [Sessions -> SUBSET Vaults]
      /\ defined' \in SUBSET Names
  <2>1. writer' \in {writer, s, NoSession}
    BY DEF VaultStep, FindCached, FindDirty, Refresh, CreateBegin,
       CreateDuplicate, CreateGivesUp,
       AllocateSchema, HandlerFails, EnqueueSchema, InvalidateCache, CreateReturns, vaultVars
  <2>2. vaults' = vaults
    BY DEF VaultStep, FindCached, FindDirty, Refresh, CreateBegin,
       CreateDuplicate, CreateGivesUp,
       AllocateSchema, HandlerFails, EnqueueSchema, InvalidateCache, CreateReturns, vaultVars
  <2>3. updated' = updated \/ \E v \in Vaults, b \in BOOLEAN : updated' = [updated EXCEPT ![v] = b]
    BY <1>1 DEF VaultStep, FindCached, FindDirty, Refresh, CreateBegin,
       CreateDuplicate, CreateGivesUp,
       AllocateSchema, HandlerFails, EnqueueSchema, InvalidateCache, CreateReturns, vaultVars
  <2>4. todo' = todo \/ \E T \in SUBSET Vaults : todo' = [todo EXCEPT ![s] = T]
    BY <1>0, Typing DEF VaultStep, FindCached, FindDirty, Refresh,
       CreateBegin, CreateDuplicate, CreateGivesUp,
       AllocateSchema, HandlerFails, EnqueueSchema, InvalidateCache, CreateReturns, vaultVars
  <2>5. defined' = defined \/ defined' = defined \cup {name[s]}
    BY DEF VaultStep, FindCached, FindDirty, Refresh, CreateBegin,
       CreateDuplicate, CreateGivesUp,
       AllocateSchema, HandlerFails, EnqueueSchema, InvalidateCache, CreateReturns, vaultVars
  <2>6. updated' \in [Vaults -> BOOLEAN]
    BY <1>0, <2>3, Typing
  <2>7. todo' \in [Sessions -> SUBSET Vaults]
    BY <1>0, <2>4, Typing
  <2>. QED  BY <1>0, <1>1, <2>1, <2>2, <2>5, <2>6, <2>7, Typing
<1>7. /\ types' \in Seq(Names) /\ Len(types') <= MaxTypes
      /\ cache' \in [Vaults -> [Names -> 0 .. MaxTypes]]
      /\ current' \in [Vaults -> 0 .. Len(types')]
      /\ answer' \in [Sessions -> 0 .. MaxTypes]
  <2>1. CASE Refresh(s)
    <3>1. /\ cache' = [cache EXCEPT ![home[s]] = Refreshed(home[s])]
          /\ current' = [current EXCEPT ![home[s]] = Len(types)]
          /\ answer' = [answer EXCEPT ![s] = Refreshed(home[s])[name[s]]]
          /\ types' = types
      BY <2>1 DEF Refresh
    <3>2. Refreshed(home[s]) = [n \in Names |-> Refreshed(home[s])[n]]
      BY DEF Refreshed
    <3>3. \A n \in Names : Refreshed(home[s])[n] \in 0 .. MaxTypes
      BY <1>1, RefreshedIs
    <3>4. Refreshed(home[s]) \in [Names -> 0 .. MaxTypes]
      BY <3>2, <3>3
    <3>5. cache' \in [Vaults -> [Names -> 0 .. MaxTypes]]
      BY <1>0, <3>1, <3>4, Typing
    <3>6. answer' \in [Sessions -> 0 .. MaxTypes]
      BY <1>0, <1>1, <3>1, <3>3, Typing
    <3>7. Len(types) \in 0 .. Len(types)
      BY <1>0, Typing
    <3>8. current' \in [Vaults -> 0 .. Len(types)]
      BY <1>0, <3>1, <3>7, Typing
    <3>. QED  BY <1>0, <3>1, <3>5, <3>6, <3>8, Typing DEF Bounded
  <2>2. CASE EnqueueSchema(s)
    <3>1. /\ Len(types) < MaxTypes /\ types' = Append(types, name[s])
          /\ answer' = [answer EXCEPT ![s] = Len(types) + 1] /\ UNCHANGED <<cache, current>>
      BY <2>2 DEF EnqueueSchema
    <3>2. types' \in Seq(Names) /\ Len(types') = Len(types) + 1
      BY <1>0, <1>1, <3>1, Typing, AppendProperties
    <3>3. PICK k \in Nat : k = Len(types)
      BY <1>0, Typing
    <3>4. k + 1 \in 0 .. MaxTypes /\ k + 1 <= MaxTypes /\ 0 .. k \subseteq 0 .. k + 1
      BY <1>1, <3>1, <3>3
    <3>5. current \in [Vaults -> 0 .. k + 1]
      BY <1>0, <3>3, <3>4, Typing
    <3>6. answer' \in [Sessions -> 0 .. MaxTypes]
      BY <1>0, <3>1, <3>3, <3>4, Typing
    <3>. QED  BY <1>0, <3>1, <3>2, <3>3, <3>4, <3>5, <3>6, Typing
  <2>3. CASE ~Refresh(s) /\ ~EnqueueSchema(s)
    <3>1. UNCHANGED <<types, cache, current>>
      BY <2>3 DEF VaultStep, FindCached, FindDirty, CreateBegin,
         CreateDuplicate, CreateGivesUp,
         AllocateSchema, HandlerFails, InvalidateCache, CreateReturns, vaultVars
    <3>2. \E x \in 0 .. MaxTypes : answer' = answer \/ answer' = [answer EXCEPT ![s] = x]
      BY <1>2, <2>3 DEF VaultStep, FindCached, FindDirty, CreateBegin,
         CreateDuplicate,
         CreateGivesUp, AllocateSchema, HandlerFails, InvalidateCache, CreateReturns
    <3>. QED  BY <1>0, <3>1, <3>2, Typing DEF Bounded
  <2>. QED  BY <2>1, <2>2, <2>3
<1>8. VaultTypeOK'
  BY <1>0, <1>4, <1>5, <1>6, <1>7, Typing DEF VaultTypeOK
<1>9. StorageTypeOK'
  BY <1>0 DEF StorageTypeOK, storageVars
<1>10. Writing'
  BY <1>0, <1>4, <1>5, WritingStays DEF storageVars
<1>. QED  BY <1>0, <1>7, <1>8, <1>9, <1>10 DEF TypesInv, TypeOK, Bounded,
         Indexed, storageVars

(* What an update of one object in one vault leaves in its place.          *)
LEMMA StoreUpdated ==
    ASSUME NEW f \in [Names -> Seq(Objects)], NEW n \in Names, NEW i \in 1 .. Len(f[n]),
           NEW o \in Objects, NEW g, g = [f EXCEPT ![n] = [f[n] EXCEPT ![i] = o]]
    PROVE  /\ g \in [Names -> Seq(Objects)]
           /\ \A m \in Names : Len(g[m]) = Len(f[m])
           /\ \A m \in Names : \A j \in 1 .. Len(f[m]) :
                 g[m][j] = IF m = n /\ j = i THEN o ELSE f[m][j]
<1>1. f[n] \in Seq(Objects)
  OBVIOUS
<1>2. PICK q : q = [f[n] EXCEPT ![i] = o]
  OBVIOUS
<1>3. /\ q \in Seq(Objects) /\ Len(q) = Len(f[n])
      /\ \A j \in 1 .. Len(f[n]) : q[j] = IF j = i THEN o ELSE f[n][j]
  BY <1>1, <1>2, ExceptSeq
<1>4. g = [f EXCEPT ![n] = q]
  BY <1>2
<1>. QED  BY <1>3, <1>4

(* Reading x and storing the new object.                                   *)
LEMMA StoreObjectTypes ==
    ASSUME TypesInv, NEW s \in Sessions, StoreObject(s)
    PROVE  StorageTypeOK' /\ Writing'
<1>0. StorageTypeOK /\ Writing /\ TypeOK
  BY DEF TypesInv, TypeOK
<1>1. PICK n \in Names : n = name[s]
  BY <1>0, Typing
<1>2. guid[s] \in Nat /\ guid[s] + 1 \in Nat /\ missing[s] \in 0 .. MaxFields
  BY <1>0 DEF StorageTypeOK
<1>3. PICK k \in Nat : k = Len(store[n])
  BY <1>0, LenProperties DEF StorageTypeOK
<1>4. PICK o : o = [guid |-> guid[s] + 1, missing |-> missing[s], created |-> FALSE]
  OBVIOUS
<1>5. o \in Objects /\ o.missing = missing[s]
  BY <1>2, <1>4 DEF Objects
<1>6. /\ pc[s] = "guid" /\ lastGuid' = guid[s] + 1
      /\ store' = [store EXCEPT ![n] = Append(store[n], o)]
      /\ index' = [index EXCEPT ![n] = [h \in DOMAIN index[n] \cup {guid[s] + 1} |->
                                           IF h = guid[s] + 1 THEN k + 1 ELSE index[n][h]]]
      /\ vaultLock' = [vaultLock EXCEPT ![n] = NoSession]
      /\ guid' = [guid EXCEPT ![s] = 0] /\ object' = [object EXCEPT ![s] = k + 1]
      /\ pc' = [pc EXCEPT ![s] = "write"]
      /\ UNCHANGED <<objectVault, storageLock, made, missing, seen, expected, name>>
  BY <1>1, <1>3, <1>4 DEF StoreObject, Goto
<1>7. store \in [Names -> Seq(Objects)] /\ store[n] \in Seq(Objects)
  BY <1>0 DEF StorageTypeOK
<1>8. PICK q : q = Append(store[n], o)
  OBVIOUS
<1>9. /\ q \in Seq(Objects) /\ Len(q) = k + 1 /\ q[k + 1] = o
      /\ \A j \in 1 .. k : q[j] = store[n][j]
  BY <1>3, <1>5, <1>7, <1>8, AppendProperties
<1>10. \A m \in Names : store'[m] = IF m = n THEN q ELSE store[m]
  BY <1>6, <1>7, <1>8
<1>11. store' \in [Names -> Seq(Objects)]
  BY <1>6, <1>7, <1>8, <1>9
<1>12. \A m \in Names : index'[m] \in [DOMAIN index'[m] -> 1 .. Len(store'[m])]
  <2>1. \A m \in Names : index[m] \in [DOMAIN index[m] -> 1 .. Len(store[m])]
    BY <1>0 DEF StorageTypeOK
  <2>. SUFFICES ASSUME NEW m \in Names
                PROVE  index'[m] \in [DOMAIN index'[m] -> 1 .. Len(store'[m])]
    OBVIOUS
  <2>2. CASE m # n
    <3>1. index'[m] = index[m] /\ store'[m] = store[m]
      BY <1>6, <1>10, <2>2
    <3>. QED  BY <2>1, <3>1
  <2>3. CASE m = n
    <3>1. PICK x : x = [h \in DOMAIN index[n] \cup {guid[s] + 1} |->
                          IF h = guid[s] + 1 THEN k + 1 ELSE index[n][h]]
      OBVIOUS
    <3>2. index'[n] = x
      BY <1>6, <3>1 DEF TypesInv, Indexed
    <3>3. \A h \in DOMAIN index[n] : index[n][h] \in 1 .. k
      BY <1>3, <2>1
    <3>4. k + 1 \in 1 .. k + 1 /\ 1 .. k \subseteq 1 .. k + 1
      OBVIOUS
    <3>5. x \in [DOMAIN x -> 1 .. k + 1]
      BY <3>1, <3>3, <3>4
    <3>. QED  BY <1>9, <1>10, <2>3, <3>2, <3>5
  <2>. QED  BY <2>2, <2>3
<1>13. k + 1 \in Nat
  OBVIOUS
<1>14. StorageTypeOK'
  BY <1>0, <1>2, <1>6, <1>11, <1>12, <1>13 DEF StorageTypeOK
<1>15. Writing'
  <2>1. \A z \in Sessions : z # s => pc'[z] = pc[z] /\ object'[z] = object[z]
    BY <1>0, <1>6, Typing DEF StorageTypeOK
  <2>2. object'[s] = k + 1
    BY <1>0, <1>6 DEF StorageTypeOK
  <2>3. ASSUME NEW z \in Sessions, z # s, pc[z] = "write"
        PROVE  /\ object[z] \in 1 .. Len(store'[name[z]])
               /\ store'[name[z]][object[z]] = store[name[z]][object[z]]
               /\ name[z] = n => object[z] # k + 1
    <3>1. object[z] \in 1 .. Len(store[name[z]]) /\ name[z] \in Names
      BY <1>0, <2>3, Typing DEF Writing
    <3>2. CASE name[z] = n
      <4>1. object[z] \in 1 .. k
        BY <1>3, <3>1, <3>2
      <4>2. object[z] \in 1 .. k + 1 /\ object[z] # k + 1
        BY <4>1
      <4>. QED  BY <1>9, <1>10, <3>1, <3>2, <4>1, <4>2
    <3>3. CASE name[z] # n
      BY <1>10, <3>1, <3>3
    <3>. QED  BY <3>2, <3>3
  <2>4. object'[s] \in 1 .. Len(store'[name[s]]) /\ store'[name[s]][object'[s]].missing = missing[s]
    <3>1. k + 1 \in 1 .. k + 1
      OBVIOUS
    <3>. QED  BY <1>1, <1>5, <1>9, <1>10, <2>2, <3>1
  <2>5. \A z \in Sessions : pc'[z] = "write" =>
           /\ object'[z] \in 1 .. Len(store'[name[z]])
           /\ store'[name[z]][object'[z]].missing = missing[z]
    BY <1>0, <2>1, <2>3, <2>4 DEF Writing
  <2>6. \A y, z \in Sessions :
           pc'[y] = "write" /\ pc'[z] = "write" /\ y # z /\ name[y] = name[z]
              => object'[y] # object'[z]
    BY <1>0, <1>1, <2>1, <2>2, <2>3 DEF Writing
  <2>. QED  BY <1>6, <2>5, <2>6 DEF Writing
<1>. QED  BY <1>14, <1>15

(* A field is written to the object, or the create is marked as done.      *)
LEMMA WriteTypes ==
    ASSUME TypesInv, NEW s \in Sessions, WriteTyped(s) \/ CreateSucceeds(s)
    PROVE  /\ StorageTypeOK' /\ Writing'
           /\ \A m \in Names : Len(store'[m]) = Len(store[m])
<1>0. StorageTypeOK /\ Writing /\ TypeOK
  BY DEF TypesInv, TypeOK
<1>1. PICK n \in Names : n = name[s]
  BY <1>0, Typing
<1>2. pc[s] = "write"
  BY DEF WriteTyped, CreateSucceeds
<1>3. PICK i \in 1 .. Len(store[n]) : i = object[s] /\ store[n][i].missing = missing[s]
  BY <1>0, <1>1, <1>2 DEF Writing
<1>4. store \in [Names -> Seq(Objects)] /\ store[n][i] \in Objects
  <2>1. store \in [Names -> Seq(Objects)]
    BY <1>0 DEF StorageTypeOK
  <2>2. store[n] \in Seq(Objects)
    BY <2>1
  <2>. QED  BY <2>1, <2>2, ElementOfSeq
<1>5. missing \in [Sessions -> 0 .. MaxFields] /\ MaxFields \in Nat
  BY <1>0, StorageAssumption DEF StorageTypeOK
<1>6. PICK o \in Objects :
         /\ store' = [store EXCEPT ![n] = [store[n] EXCEPT ![i] = o]]
         /\ pc'[s] = "write" => o.missing = missing'[s]
         /\ missing' \in [Sessions -> 0 .. MaxFields]
         /\ \A z \in Sessions : z # s => missing'[z] = missing[z] /\ object'[z] = object[z]
         /\ pc'[s] = "write" => object'[s] = object[s]
         /\ object' \in [Sessions -> Nat]
         /\ \A z \in Sessions : z # s => pc'[z] = pc[z]
  <2>1. CASE WriteTyped(s)
    <3>1. /\ missing[s] > 0 /\ missing' = [missing EXCEPT ![s] = @ - 1]
          /\ UNCHANGED <<pc, object>>
          /\ store' = [store EXCEPT ![n] = [store[n] EXCEPT ![i] =
                                              [store[n][i] EXCEPT !.missing = @ - 1]]]
      BY <1>1, <1>3, <2>1 DEF WriteTyped, sessionVars
    <3>2. PICK o : o = [store[n][i] EXCEPT !.missing = @ - 1]
      OBVIOUS
    <3>3. missing[s] - 1 \in 0 .. MaxFields /\ missing[s] \in Int
      BY <1>5, <3>1
    <3>4. o \in Objects /\ o.missing = missing[s] - 1
      BY <1>3, <1>4, <3>2, <3>3 DEF Objects
    <3>5. missing' \in [Sessions -> 0 .. MaxFields] /\ missing'[s] = missing[s] - 1
      BY <1>5, <3>1, <3>3
    <3>6. \A z \in Sessions : z # s => missing'[z] = missing[z]
      BY <1>5, <3>1
    <3>. QED  BY <1>0, <3>1, <3>2, <3>4, <3>5, <3>6 DEF StorageTypeOK
  <2>2. CASE CreateSucceeds(s)
    <3>1. /\ object' = [object EXCEPT ![s] = 0] /\ pc' = [pc EXCEPT ![s] = "idle"]
          /\ UNCHANGED missing
          /\ store' = [store EXCEPT ![n] = [store[n] EXCEPT ![i] =
                                              [store[n][i] EXCEPT !.created = TRUE]]]
      BY <1>1, <1>3, <2>2 DEF CreateSucceeds, Goto
    <3>2. PICK o : o = [store[n][i] EXCEPT !.created = TRUE]
      OBVIOUS
    <3>3. o \in Objects
      BY <1>4, <3>2 DEF Objects
    <3>4. object \in [Sessions -> Nat] /\ DOMAIN pc = Sessions
      BY <1>0, Typing DEF StorageTypeOK
    <3>5. pc'[s] = "idle"
      BY <3>1, <3>4
    <3>. QED  BY <1>5, <3>1, <3>2, <3>3, <3>4, <3>5
  <2>. QED  BY <2>1, <2>2
<1>7. /\ store' \in [Names -> Seq(Objects)]
      /\ \A m \in Names : Len(store'[m]) = Len(store[m])
      /\ \A m \in Names : \A j \in 1 .. Len(store[m]) :
            store'[m][j] = IF m = n /\ j = i THEN o ELSE store[m][j]
  BY <1>4, <1>6, StoreUpdated
<1>8. UNCHANGED <<objectVault, storageLock, vaultLock, lastGuid, index, made, guid, seen,
                  expected, name>>
  BY DEF WriteTyped, CreateSucceeds, sessionVars
<1>9. \A m \in Names : index'[m] \in [DOMAIN index'[m] -> 1 .. Len(store'[m])]
  BY <1>0, <1>7, <1>8 DEF StorageTypeOK
<1>10. StorageTypeOK'
  BY <1>0, <1>6, <1>7, <1>8, <1>9 DEF StorageTypeOK
<1>11. Writing'
  <2>1. ASSUME NEW z \in Sessions, z # s, pc[z] = "write"
        PROVE  /\ object[z] \in 1 .. Len(store'[name[z]])
               /\ store'[name[z]][object[z]].missing = missing[z]
    <3>1. /\ object[z] \in 1 .. Len(store[name[z]]) /\ name[z] \in Names
          /\ store[name[z]][object[z]].missing = missing[z]
          /\ name[z] = n => object[z] # i
      BY <1>0, <1>1, <1>2, <1>3, <2>1, Typing DEF Writing
    <3>. QED  BY <1>7, <3>1
  <2>2. pc'[s] = "write" => /\ object'[s] \in 1 .. Len(store'[name[s]])
                            /\ store'[name[s]][object'[s]].missing = missing'[s]
    BY <1>1, <1>3, <1>6, <1>7
  <2>3. \A z \in Sessions : pc'[z] = "write" =>
           /\ object'[z] \in 1 .. Len(store'[name[z]])
           /\ store'[name[z]][object'[z]].missing = missing'[z]
    BY <1>6, <2>1, <2>2
  <2>4. \A y, z \in Sessions :
           pc'[y] = "write" /\ pc'[z] = "write" /\ y # z /\ name[y] = name[z]
              => object'[y] # object'[z]
    <3>1. \A z \in Sessions : pc'[z] = "write" => pc[z] = "write" /\ object'[z] = object[z]
      BY <1>2, <1>6
    <3>. QED  BY <1>0, <3>1 DEF Writing
  <2>. QED  BY <1>8, <2>3, <2>4 DEF Writing
<1>. QED  BY <1>7, <1>10, <1>11

(* A step of the storage.                                                  *)
LEMMA StorageStepTypes ==
    ASSUME TypesInv, NEW s \in Sessions, StorageStep(s), UNCHANGED <<thread, sent>>
    PROVE  TypesInv'
<1>0. TypeOK /\ VaultTypeOK /\ StorageTypeOK /\ Writing /\ Bounded /\ Indexed
  BY DEF TypesInv, TypeOK
<1>1. name[s] \in Names /\ MaxFields \in Nat
  BY <1>0, Typing, StorageAssumption
<1>2. /\ UNCHANGED <<types, writer, vaults, updated, cache, current, defined>>
      /\ UNCHANGED <<home, command, name, field, todo, before>>
  BY DEF StorageStep, EnsureFinds, EnsureMisses, EnsureRefuses,
     EnsureInserts, CreateObjectFails,
     ReadGuid, StoreObject, WriteTyped, CreateFails, CreateSucceeds, FindVaultWithType,
     Enumerate, Serialize,
     vaultVars, sessionVars
<1>3. pc' \in [Sessions -> PCs]
  <2>1. pc' = pc \/ \E label \in PCs : pc' = [pc EXCEPT ![s] = label]
    BY DEF StorageStep, EnsureFinds, EnsureMisses, EnsureRefuses,
       EnsureInserts, CreateObjectFails,
     ReadGuid, StoreObject, WriteTyped, CreateFails, CreateSucceeds, FindVaultWithType,
     Enumerate, Serialize,
       Goto, sessionVars, PCs
  <2>. QED  BY <1>0, <2>1, Typing
<1>4. answer' \in [Sessions -> 0 .. MaxTypes]
  <2>1. answer' = answer \/ answer' = [answer EXCEPT ![s] = objectVault[name[s]]]
    BY DEF StorageStep, EnsureFinds, EnsureMisses, EnsureRefuses,
       EnsureInserts, CreateObjectFails,
     ReadGuid, StoreObject, WriteTyped, CreateFails, CreateSucceeds, FindVaultWithType,
     Enumerate, Serialize,
       sessionVars
  <2>2. objectVault[name[s]] \in 0 .. MaxTypes
    BY <1>0, <1>1 DEF StorageTypeOK
  <2>. QED  BY <1>0, <2>1, <2>2, Typing
<1>5. VaultTypeOK'
  BY <1>0, <1>2, <1>3, <1>4 DEF VaultTypeOK
<1>6. StorageTypeOK' /\ Writing'
  <2>1. CASE StoreObject(s)
    BY <2>1, StoreObjectTypes
  <2>2. CASE WriteTyped(s) \/ CreateSucceeds(s)
    BY <2>2, WriteTypes
  <2>3. CASE CreateFails(s)
    <3>1. /\ missing' = [missing EXCEPT ![s] = 0] /\ object' = [object EXCEPT ![s] = 0]
          /\ pc' = [pc EXCEPT ![s] = "idle"]
          /\ UNCHANGED <<objectVault, storageLock, vaultLock, lastGuid, store, index, made,
                         guid, seen, expected>>
      BY <2>3 DEF CreateFails, Goto
    <3>2. /\ missing \in [Sessions -> 0 .. MaxFields] /\ object \in [Sessions -> Nat]
          /\ DOMAIN pc = Sessions
      BY <1>0, Typing DEF StorageTypeOK
    <3>3. StorageTypeOK'
      BY <1>0, <1>1, <3>1, <3>2 DEF StorageTypeOK
    <3>4. \A z \in Sessions : pc'[z] = "write" =>
             z # s /\ pc[z] = "write" /\ missing'[z] = missing[z] /\ object'[z] = object[z]
      BY <3>1, <3>2
    <3>. QED  BY <1>0, <1>2, <3>1, <3>3, <3>4 DEF Writing
  <2>4. CASE /\ ~StoreObject(s) /\ ~WriteTyped(s) /\ ~CreateSucceeds(s) /\ ~CreateFails(s)
    <3>1. /\ UNCHANGED <<store, object, missing, lastGuid, index>>
          /\ \A z \in Sessions : pc'[z] = "write" => pc[z] = "write"
      BY <1>0, <2>4, Typing DEF StorageStep, EnsureFinds, EnsureMisses,
         EnsureRefuses,
         EnsureInserts, CreateObjectFails, ReadGuid, FindVaultWithType, Enumerate,
         Serialize, Goto, storageVars
    <3>2. Writing'
      BY <1>0, <1>2, <3>1, WritingStays
    <3>3. CASE EnsureInserts(s)
      <4>1. answer[s] \in 0 .. MaxTypes
        BY <1>0, Typing
      <4>2. /\ made' = [made EXCEPT ![name[s]] = @ + 1] /\ storageLock' = NoSession
            /\ \/ objectVault' = objectVault
               \/ objectVault' = [objectVault EXCEPT ![name[s]] = answer[s]]
            /\ UNCHANGED <<vaultLock, guid, seen, expected>>
        BY <3>3 DEF EnsureInserts
      <4>3. made' \in [Names -> Nat]
        BY <1>0, <1>1, <4>2 DEF StorageTypeOK
      <4>. QED  BY <1>0, <1>1, <3>1, <3>2, <4>1, <4>2, <4>3 DEF StorageTypeOK
    <3>4. CASE ReadGuid(s)
      BY <1>0, <1>1, <3>1, <3>2, <3>4 DEF StorageTypeOK, ReadGuid
    <3>5. CASE Enumerate(s)
      <4>1. 1 .. Len(store[name[s]]) \in SUBSET Nat
        BY <1>0, <1>1, LenProperties DEF StorageTypeOK
      <4>. QED  BY <1>0, <3>1, <3>2, <3>5, <4>1 DEF StorageTypeOK, Enumerate
    <3>6. CASE EnsureFinds(s) \/ EnsureMisses(s) \/ EnsureRefuses(s) \/ CreateObjectFails(s)
               \/ FindVaultWithType(s) \/ Serialize(s)
      BY <1>0, <3>1, <3>2, <3>6 DEF StorageTypeOK, EnsureFinds, EnsureMisses,
         EnsureRefuses,
         CreateObjectFails, FindVaultWithType, Serialize, storageVars
    <3>. QED  BY <2>4, <3>3, <3>4, <3>5, <3>6 DEF StorageStep
  <2>. QED  BY <2>1, <2>2, <2>3, <2>4
<1>7. Indexed'
  <2>1. CASE StoreObject(s)
    <3>1. PICK x : index' = [index EXCEPT ![name[s]] = x]
      BY <2>1 DEF StoreObject
    <3>. QED  BY <3>1 DEF TypesInv, Indexed
  <2>2. CASE ~StoreObject(s)
    <3>1. index' = index
      BY <2>2 DEF StorageStep, EnsureFinds, EnsureMisses, EnsureRefuses,
         EnsureInserts,
         CreateObjectFails, ReadGuid, WriteTyped, CreateFails, CreateSucceeds,
         FindVaultWithType, Enumerate, Serialize, storageVars
    <3>. QED  BY <3>1 DEF TypesInv, Indexed
  <2>. QED  BY <2>1, <2>2
<1>. QED  BY <1>0, <1>2, <1>5, <1>6, <1>7 DEF TypesInv, TypeOK, Bounded

-----------------------------------------------------------------------------
(* Locks, object vaults and selects.                                       *)

(* What a step of a session leaves alone: its command, and the others.     *)
LEMMA Frame ==
    ASSUME TypeOK, NEW s \in Sessions, VaultStep(s) \/ StorageStep(s)
    PROVE  /\ UNCHANGED <<home, command, name, field, before, vaults>>
           /\ \A z \in Sessions :
                z # s => pc'[z] = pc[z] /\ answer'[z] = answer[z] /\ todo'[z] = todo[z]
<1>1. UNCHANGED <<home, command, name, field, before, vaults>>
  <2>1. CASE VaultStep(s)
    BY <2>1 DEF VaultStep, FindCached, FindDirty, Refresh, CreateBegin,
       CreateDuplicate, CreateGivesUp,
     AllocateSchema, HandlerFails, EnqueueSchema, InvalidateCache, CreateReturns, vaultVars
  <2>2. CASE StorageStep(s)
    BY <2>2 DEF StorageStep, EnsureFinds, EnsureMisses, EnsureRefuses,
       EnsureInserts, CreateObjectFails,
     ReadGuid, StoreObject, WriteTyped, CreateFails, CreateSucceeds, FindVaultWithType,
     Enumerate, Serialize, sessionVars, vaultVars
  <2>. QED  BY <2>1, <2>2
<1>2. /\ pc' = pc \/ \E x : pc' = [pc EXCEPT ![s] = x]
      /\ answer' = answer \/ \E x : answer' = [answer EXCEPT ![s] = x]
      /\ todo' = todo \/ \E x : todo' = [todo EXCEPT ![s] = x]
  <2>1. CASE VaultStep(s)
    BY <2>1 DEF VaultStep, FindCached, FindDirty, Refresh, CreateBegin,
       CreateDuplicate, CreateGivesUp,
     AllocateSchema, HandlerFails, EnqueueSchema, InvalidateCache, CreateReturns, Goto
  <2>2. CASE StorageStep(s)
    BY <2>2 DEF StorageStep, EnsureFinds, EnsureMisses, EnsureRefuses,
       EnsureInserts, CreateObjectFails,
     ReadGuid, StoreObject, WriteTyped, CreateFails, CreateSucceeds, FindVaultWithType,
     Enumerate, Serialize, Goto, sessionVars
  <2>. QED  BY <2>1, <2>2
<1>. QED  BY <1>1, <1>2, Typing

(* What the steps of the type vaults do to the locks.                      *)
LEMMA VaultStepLocks ==
    ASSUME EnvInv, NEW s \in Sessions, VaultStep(s), UNCHANGED storageVars
    PROVE  /\ Exclusive' /\ NeverWaitsForItself' /\ Ensuring' /\ MadeOnce'
           /\ StoredInVault' /\ Selecting'
<1>0. /\ TypeOK /\ Exclusive /\ NeverWaitsForItself /\ Ensuring /\ MadeOnce
      /\ StoredInVault /\ Selecting /\ NoSession \notin Sessions
  BY VaultAssumption DEF EnvInv, TypesInv
<1>1. /\ UNCHANGED <<home, command, name, field, before, vaults>>
      /\ \A z \in Sessions : z # s => pc'[z] = pc[z]
  BY <1>0, Frame
<1>2. /\ DOMAIN pc = Sessions /\ home \in [Sessions -> Vaults] /\ updated \in [Vaults -> BOOLEAN]
  BY <1>0, Typing
<1>3. UNCHANGED <<objectVault, storageLock, vaultLock, lastGuid, store, index,
                  made, guid, object, missing, seen, expected>>
  BY DEF storageVars
<1>4. /\ pc'[s] \in {"idle", "refresh", "lock", "dup", "handler", "invalidate", "ensured"}
      /\ pc'[s] \in {"refresh", "ensured"} => pc[s] \in {"find", "refresh"}
      /\ pc'[s] = "ensured" => command[s] = "create"
  BY <1>2, AfterFindIs DEF VaultStep, FindCached, FindDirty, Refresh,
     CreateBegin, CreateDuplicate, CreateGivesUp,
     AllocateSchema, HandlerFails, EnqueueSchema, InvalidateCache, CreateReturns, Goto
<1>5. \A z \in Sessions :
         /\ pc'[z] = "ensure" => pc[z] = "ensure"
         /\ pc'[z] = "guid" => pc[z] = "guid"
         /\ pc'[z] \in {"selecting", "enumerate"} => pc[z] \in {"selecting", "enumerate"}
         /\ pc'[z] = "output" => pc[z] = "output"
         /\ HoldsStorage(z)' => HoldsStorage(z)
  BY <1>1, <1>4 DEF HoldsStorage
<1>6. Ensuring' /\ MadeOnce'
  BY <1>0, <1>1, <1>3, <1>5 DEF Ensuring, MadeOnce
<1>7. StoredInVault' /\ Selecting'
  BY <1>0, <1>1, <1>3, <1>5 DEF StoredInVault, Selecting, SelectComplete
<1>8. Exclusive' /\ NeverWaitsForItself'
  <2>. SUFFICES ASSUME NEW z \in Sessions, pc'[z] \in {"dup", "handler", "invalidate"}
                PROVE  /\ writer' = z
                       /\ pc'[z] \in {"dup", "handler"} => updated'[home[z]]
    BY <1>1 DEF Exclusive, NeverWaitsForItself
  <2>1. CASE FindCached(s)
    BY <1>0, <1>1, <1>2, <2>1, AfterFindIs DEF FindCached, Goto, Exclusive,
       NeverWaitsForItself, vaultVars
  <2>2. CASE FindDirty(s)
    BY <1>0, <1>1, <1>2, <2>2 DEF FindDirty, Goto, Exclusive,
       NeverWaitsForItself
  <2>3. CASE Refresh(s)
    BY <1>0, <1>1, <1>2, <2>3, AfterFindIs DEF Refresh, Goto, Exclusive,
       NeverWaitsForItself
  <2>4. CASE CreateBegin(s)
    BY <1>0, <1>1, <1>2, <2>4 DEF CreateBegin, Goto, Exclusive,
       NeverWaitsForItself
  <2>5. CASE CreateDuplicate(s) \/ HandlerFails(s)
    <3>1. pc[s] \in {"dup", "handler"} /\ pc'[s] = "idle"
      BY <1>2, <2>5 DEF CreateDuplicate, HandlerFails, CreateGivesUp, Goto
    <3>2. z # s /\ pc[z] \in {"dup", "handler", "invalidate"}
      BY <1>1, <3>1
    <3>. QED  BY <1>0, <3>1, <3>2 DEF Exclusive
  <2>6. CASE AllocateSchema(s)
    BY <1>0, <1>1, <1>2, <2>6 DEF AllocateSchema, Goto, Exclusive,
       NeverWaitsForItself, vaultVars
  <2>7. CASE EnqueueSchema(s)
    BY <1>0, <1>1, <1>2, <2>7 DEF EnqueueSchema, Goto, Exclusive,
       NeverWaitsForItself
  <2>8. ASSUME NEW v \in Vaults, InvalidateCache(s, v)
        PROVE  /\ writer' = z
               /\ pc'[z] \in {"dup", "handler"} => updated'[home[z]]
    <3>1. pc[s] = "invalidate" /\ pc' = pc /\ writer' = writer
      BY <2>8 DEF InvalidateCache
    <3>. QED  BY <1>0, <3>1 DEF Exclusive
  <2>9. CASE CreateReturns(s)
    <3>1. pc[s] = "invalidate" /\ pc'[s] = "idle"
      BY <1>2, <2>9 DEF CreateReturns, Goto
    <3>2. z # s /\ pc[z] \in {"dup", "handler", "invalidate"}
      BY <1>1, <3>1
    <3>. QED  BY <1>0, <3>1, <3>2 DEF Exclusive
  <2>. QED  BY <2>1, <2>2, <2>3, <2>4, <2>5, <2>6, <2>7, <2>8, <2>9
           DEF VaultStep
<1>. QED  BY <1>6, <1>7, <1>8

(* What the steps of the storage do to them.                               *)
LEMMA StorageStepLocks ==
    ASSUME EnvInv, NEW s \in Sessions, StorageStep(s)
    PROVE  /\ Exclusive' /\ NeverWaitsForItself' /\ Ensuring' /\ MadeOnce'
           /\ StoredInVault' /\ Selecting'
<1>0. /\ TypeOK /\ TypesInv /\ Exclusive /\ NeverWaitsForItself /\ Ensuring /\ MadeOnce
      /\ StoredInVault /\ Selecting /\ NoSession \notin Sessions
  BY VaultAssumption DEF EnvInv, TypesInv
<1>1. /\ UNCHANGED <<home, command, name, field, before, vaults>>
      /\ \A z \in Sessions : z # s => pc'[z] = pc[z]
  BY <1>0, Frame
<1>2. /\ DOMAIN pc = Sessions /\ name \in [Sessions -> Names] /\ name[s] \in Names
      /\ objectVault \in [Names -> 0 .. MaxTypes] /\ made \in [Names -> Nat]
      /\ DOMAIN seen = Sessions /\ DOMAIN expected = Sessions
  BY <1>0, Typing DEF TypeOK, StorageTypeOK
<1>3. UNCHANGED <<writer, updated>>
  BY DEF StorageStep, EnsureFinds, EnsureMisses, EnsureRefuses,
     EnsureInserts, CreateObjectFails,
     ReadGuid, StoreObject, WriteTyped, CreateFails, CreateSucceeds, FindVaultWithType,
     Enumerate, Serialize, vaultVars
<1>4. pc'[s] \notin {"dup", "handler", "invalidate"} /\ pc'[s] # "refresh" /\ pc'[s] # "ensured"
      /\ pc'[s] # "ensure" /\ (pc'[s] = "find" => pc[s] = "ensure")
  BY <1>2 DEF StorageStep, EnsureFinds, EnsureMisses, EnsureRefuses,
     EnsureInserts, CreateObjectFails,
     ReadGuid, StoreObject, WriteTyped, CreateFails, CreateSucceeds, FindVaultWithType,
     Enumerate, Serialize, Goto, sessionVars
<1>5. Exclusive' /\ NeverWaitsForItself'
  BY <1>0, <1>1, <1>3, <1>4 DEF Exclusive, NeverWaitsForItself
<1>6. Ensuring' /\ MadeOnce'
  <2>1. CASE EnsureMisses(s)
    <3>1. /\ pc[s] = "ensure" /\ storageLock = NoSession /\ objectVault[name[s]] = 0
          /\ storageLock' = s /\ UNCHANGED <<objectVault, made>>
      BY <2>1 DEF EnsureMisses
    <3>2. \A z \in Sessions : z # s => ~HoldsStorage(z)
      BY <1>0, <3>1 DEF Ensuring
    <3>3. \A z \in Sessions : z # s => ~HoldsStorage(z)'
      BY <1>1, <3>2 DEF HoldsStorage
    <3>4. \A z \in Sessions : pc'[z] = "ensure" => pc[z] = "ensure"
      BY <1>1, <1>4
    <3>. QED  BY <1>0, <1>1, <3>1, <3>3, <3>4 DEF Ensuring, MadeOnce
  <2>2. CASE EnsureRefuses(s) \/ EnsureInserts(s)
    <3>1. pc[s] = "ensured" /\ pc'[s] = "object"
      BY <1>2, <2>2 DEF EnsureRefuses, EnsureInserts, Goto
    <3>2. storageLock = s /\ objectVault[name[s]] = 0
      BY <1>0, <3>1 DEF Ensuring, HoldsStorage
    <3>3. \A z \in Sessions : z # s => ~HoldsStorage(z)
      BY <1>0, <3>2 DEF Ensuring
    <3>4. \A z \in Sessions : ~HoldsStorage(z)'
      BY <1>1, <3>1, <3>3 DEF HoldsStorage
    <3>5. \A z \in Sessions : pc'[z] = "ensure" => pc[z] = "ensure"
      BY <1>1, <1>4
    <3>6. Ensuring'
      BY <1>0, <1>1, <3>4, <3>5 DEF Ensuring
    <3>7. MadeOnce'
      <4>1. CASE EnsureRefuses(s)
        BY <1>0, <4>1 DEF EnsureRefuses, MadeOnce
      <4>2. CASE EnsureInserts(s)
        <5>1. /\ made' = [made EXCEPT ![name[s]] = made[name[s]] + 1]
              /\ objectVault' = [objectVault EXCEPT ![name[s]] = answer[s]] /\ answer[s] # 0
          BY <3>2, <4>2 DEF EnsureInserts
        <5>2. made[name[s]] = 0
          BY <1>0, <1>2, <3>2 DEF MadeOnce
        <5>3. \A n \in Names : n # name[s] => made'[n] = made[n] /\ objectVault'[n] = objectVault[n]
          BY <1>2, <5>1
        <5>4. made'[name[s]] = 1 /\ objectVault'[name[s]] # 0
          BY <1>2, <5>1, <5>2
        <5>. QED  BY <1>0, <5>3, <5>4 DEF MadeOnce
      <4>. QED  BY <2>2, <4>1, <4>2
    <3>. QED  BY <3>6, <3>7
  <2>3. CASE ~EnsureMisses(s) /\ ~EnsureRefuses(s) /\ ~EnsureInserts(s)
    <3>1. UNCHANGED <<objectVault, storageLock, made>>
      BY <2>3 DEF StorageStep, EnsureFinds, EnsureMisses, EnsureRefuses,
         EnsureInserts, CreateObjectFails,
     ReadGuid, StoreObject, WriteTyped, CreateFails, CreateSucceeds, FindVaultWithType,
     Enumerate, Serialize, storageVars
    <3>2. pc'[s] # "find"
      BY <1>2, <2>3 DEF StorageStep, EnsureFinds, EnsureMisses,
         EnsureRefuses, EnsureInserts, CreateObjectFails,
     ReadGuid, StoreObject, WriteTyped, CreateFails, CreateSucceeds, FindVaultWithType,
     Enumerate, Serialize, Goto, sessionVars
    <3>3. \A z \in Sessions : HoldsStorage(z)' => HoldsStorage(z)
      BY <1>1, <1>4, <3>2 DEF HoldsStorage
    <3>4. \A z \in Sessions : pc'[z] = "ensure" => pc[z] = "ensure"
      BY <1>1, <1>4
    <3>. QED  BY <1>0, <1>1, <3>1, <3>3, <3>4 DEF Ensuring, MadeOnce
  <2>. QED  BY <2>1, <2>2, <2>3
<1>7. /\ \A n \in Names :
           Len(store'[n]) \in Nat /\ Len(store[n]) \in Nat /\ Len(store'[n]) >= Len(store[n])
      /\ \A n \in Names : objectVault[n] = 0 => Len(store'[n]) = 0
  <2>1. \A n \in Names : Len(store[n]) \in Nat
    BY <1>0, LenProperties DEF TypeOK, StorageTypeOK
  <2>2. CASE StoreObject(s)
    <3>1. PICK o : o = [guid |-> guid[s] + 1, missing |-> missing[s], created |-> FALSE]
      OBVIOUS
    <3>2. /\ pc[s] = "guid" /\ o \in Objects
          /\ store' = [store EXCEPT ![name[s]] = Append(store[name[s]], o)]
      <4>1. guid[s] + 1 \in Nat /\ missing[s] \in 0 .. MaxFields
        BY <1>0 DEF TypeOK, StorageTypeOK
      <4>2. o \in Objects
        BY <3>1, <4>1 DEF Objects
      <4>. QED  BY <2>2, <3>1, <4>2 DEF StoreObject
    <3>3. store \in [Names -> Seq(Objects)]
      BY <1>0 DEF TypeOK, StorageTypeOK
    <3>4. Len(Append(store[name[s]], o)) = Len(store[name[s]]) + 1
      BY <1>2, <3>2, <3>3, AppendProperties
    <3>5. \A n \in Names : Len(store'[n]) = IF n = name[s] THEN Len(store[n]) + 1 ELSE Len(store[n])
      BY <1>2, <3>2, <3>3, <3>4
    <3>6. objectVault[name[s]] # 0
      BY <1>0, <3>2 DEF StoredInVault
    <3>. QED  BY <1>0, <2>1, <3>5, <3>6 DEF StoredInVault
  <2>3. CASE WriteTyped(s) \/ CreateSucceeds(s)
    <3>1. \A n \in Names : Len(store'[n]) = Len(store[n])
      BY <1>0, <2>3, WriteTypes
    <3>. QED  BY <1>0, <2>1, <3>1 DEF StoredInVault
  <2>4. CASE ~StoreObject(s) /\ ~WriteTyped(s) /\ ~CreateSucceeds(s)
    <3>1. store' = store
      BY <2>4 DEF StorageStep, EnsureFinds, EnsureMisses, EnsureRefuses,
         EnsureInserts, CreateObjectFails,
     ReadGuid, StoreObject, WriteTyped, CreateFails, CreateSucceeds, FindVaultWithType,
     Enumerate, Serialize, storageVars
    <3>. QED  BY <1>0, <2>1, <3>1 DEF StoredInVault
  <2>. QED  BY <2>2, <2>3, <2>4
<1>8. \A n \in Names : objectVault[n] # 0 => objectVault'[n] # 0
  BY <1>2 DEF StorageStep, EnsureFinds, EnsureMisses, EnsureRefuses,
     EnsureInserts, CreateObjectFails,
     ReadGuid, StoreObject, WriteTyped, CreateFails, CreateSucceeds, FindVaultWithType,
     Enumerate, Serialize, storageVars
<1>9. StoredInVault'
  <2>1. \A n \in Names : objectVault'[n] = 0 => Len(store'[n]) = 0
    BY <1>7, <1>8
  <2>2. pc'[s] = "guid" => objectVault[name[s]] # 0
    BY <1>0, <1>2 DEF StoredInVault, StorageStep, EnsureFinds, EnsureMisses,
       EnsureRefuses, EnsureInserts, CreateObjectFails,
     ReadGuid, StoreObject, WriteTyped, CreateFails, CreateSucceeds, FindVaultWithType,
     Enumerate, Serialize, Goto, sessionVars
  <2>3. \A z \in Sessions : pc'[z] = "guid" => objectVault[name[z]] # 0 /\ name[z] \in Names
    BY <1>0, <1>1, <1>2, <2>2 DEF StoredInVault
  <2>. QED  BY <1>1, <1>8, <2>1, <2>3 DEF StoredInVault
<1>10. Selecting'
  <2>1. /\ pc'[s] = "enumerate" => pc[s] = "selecting" /\ UNCHANGED <<expected, seen, store>>
        /\ pc'[s] # "selecting"
        /\ pc[s] = "output" => pc'[s] # "output"
    BY <1>2 DEF StorageStep, EnsureFinds, EnsureMisses, EnsureRefuses,
       EnsureInserts, CreateObjectFails,
     ReadGuid, StoreObject, WriteTyped, CreateFails, CreateSucceeds, FindVaultWithType,
     Enumerate, Serialize, Goto, sessionVars, storageVars
  <2>2. \A z \in Sessions : z # s => expected'[z] = expected[z] /\ seen'[z] = seen[z]
    BY <1>2 DEF StorageStep, EnsureFinds, EnsureMisses, EnsureRefuses,
       EnsureInserts, CreateObjectFails,
     ReadGuid, StoreObject, WriteTyped, CreateFails, CreateSucceeds, FindVaultWithType,
     Enumerate, Serialize, storageVars
  <2>3. \A n \in Names : 1 .. Len(store[n]) \subseteq 1 .. Len(store'[n])
    BY <1>7
  <2>4. pc'[s] = "output" => expected'[s] \subseteq seen'[s]
    <3>1. CASE FindVaultWithType(s)
      <4>1. /\ pc[s] = "selecting" /\ UNCHANGED <<expected, seen>>
            /\ pc'[s] = IF objectVault[name[s]] = 0 THEN "output" ELSE "enumerate"
        BY <1>2, <3>1 DEF FindVaultWithType, Goto, storageVars
      <4>2. objectVault[name[s]] = 0 => Len(store[name[s]]) = 0
        BY <1>0, <1>2 DEF StoredInVault
      <4>3. expected[s] \subseteq 1 .. Len(store[name[s]])
        BY <1>0, <4>1 DEF Selecting
      <4>4. 1 .. 0 = {}
        OBVIOUS
      <4>. QED  BY <4>1, <4>2, <4>3, <4>4
    <3>2. CASE Enumerate(s)
      <4>1. pc[s] = "enumerate" /\ expected' = expected /\ seen'[s] = 1 .. Len(store[name[s]])
        BY <1>2, <3>2 DEF Enumerate
      <4>. QED  BY <1>0, <4>1 DEF Selecting
    <3>3. CASE ~FindVaultWithType(s) /\ ~Enumerate(s)
      <4>1. pc'[s] # "output"
        BY <1>2, <3>3 DEF StorageStep, EnsureFinds, EnsureMisses,
           EnsureRefuses, EnsureInserts, CreateObjectFails,
     ReadGuid, StoreObject, WriteTyped, CreateFails, CreateSucceeds, FindVaultWithType,
     Enumerate, Serialize, Goto, sessionVars
      <4>. QED  BY <4>1
    <3>. QED  BY <3>1, <3>2, <3>3
  <2>5. \A z \in Sessions : pc'[z] \in {"selecting", "enumerate"} =>
           expected'[z] \subseteq 1 .. Len(store'[name[z]])
    <3>. SUFFICES ASSUME NEW z \in Sessions, pc'[z] \in {"selecting", "enumerate"}
                  PROVE  expected'[z] \subseteq 1 .. Len(store'[name[z]])
      OBVIOUS
    <3>1. pc[z] \in {"selecting", "enumerate"} /\ expected'[z] = expected[z] /\ name[z] \in Names
      BY <1>1, <1>2, <2>1, <2>2
    <3>2. expected[z] \subseteq 1 .. Len(store[name[z]])
      BY <1>0, <3>1 DEF Selecting
    <3>. QED  BY <2>3, <3>1, <3>2
  <2>6. SelectComplete'
    BY <1>0, <1>1, <2>2, <2>4 DEF Selecting, SelectComplete
  <2>. QED  BY <1>1, <2>5, <2>6 DEF Selecting
<1>. QED  BY <1>5, <1>6, <1>9, <1>10

(* A command begins: it holds no lock, and a select looks for objects that *)
(* are there.                                                              *)
LEMMA ArrivesLocks ==
    ASSUME EnvInv, NEW s \in Sessions, Arrives(s)
    PROVE  /\ Exclusive' /\ NeverWaitsForItself' /\ Ensuring' /\ MadeOnce'
           /\ StoredInVault' /\ Selecting' /\ RefersToList' /\ Agreement' /\ FoundIsFirst'
<1>0. /\ TypeOK /\ Exclusive /\ NeverWaitsForItself /\ Ensuring /\ MadeOnce
      /\ StoredInVault /\ Selecting /\ RefersToList /\ Agreement /\ FoundIsFirst
  BY DEF EnvInv, TypesInv
<1>1. PICK t \in Vaults, n \in Targets :
         \/ \E f \in FieldTypes : Defstruct(s, t, n, f)
         \/ \E k \in 0 .. MaxFields : Create(s, t, n, k)
         \/ Select(s, t, n)
  BY DEF Arrives
<1>2. PICK c, label :
         /\ Begin(s, t, c, n, label) /\ label \in {"find", "ensure", "selecting"}
         /\ label = "find" => c = "defstruct"
         /\ label = "ensure" => c = "create"
         /\ label = "selecting" =>
               expected' = [expected EXCEPT ![s] = {i \in 1 .. Len(store[n]) : store[n][i].created}]
         /\ label # "selecting" => expected' = expected
  <2>1. CASE \E f \in FieldTypes : Defstruct(s, t, n, f)
    BY <2>1 DEF Defstruct, storageVars
  <2>2. CASE \E k \in 0 .. MaxFields : Create(s, t, n, k)
    BY <2>2 DEF Create
  <2>3. CASE Select(s, t, n)
    BY <2>3 DEF Select
  <2>. QED  BY <1>1, <2>1, <2>2, <2>3
<1>3. /\ UNCHANGED <<types, writer, vaults, updated, cache, current, defined, home, answer>>
      /\ pc' = [pc EXCEPT ![s] = label] /\ name' = [name EXCEPT ![s] = n]
      /\ command' = [command EXCEPT ![s] = c]
  BY <1>2 DEF Begin, Goto, vaultVars
<1>4. UNCHANGED <<objectVault, storageLock, store, made, seen>>
  BY <1>1 DEF Defstruct, Create, Select, storageVars
<1>5. /\ pc \in [Sessions -> PCs] /\ DOMAIN name = Sessions /\ DOMAIN command = Sessions
      /\ DOMAIN expected = Sessions
  BY <1>0, Typing DEF TypeOK, StorageTypeOK
<1>6. /\ \A z \in Sessions : z # s =>
            /\ pc'[z] = pc[z] /\ name'[z] = name[z] /\ command'[z] = command[z]
            /\ expected'[z] = expected[z]
      /\ pc'[s] = label /\ name'[s] = n /\ command'[s] = c
  BY <1>2, <1>3, <1>5
<1>7. Exclusive' /\ NeverWaitsForItself'
  BY <1>0, <1>2, <1>3, <1>6 DEF Exclusive, NeverWaitsForItself
<1>8. Ensuring' /\ MadeOnce'
  <2>1. \A z \in Sessions : HoldsStorage(z)' => z # s /\ HoldsStorage(z)
    BY <1>2, <1>6 DEF HoldsStorage
  <2>. QED  BY <1>0, <1>2, <1>4, <1>6, <2>1 DEF Ensuring, MadeOnce
<1>9. StoredInVault'
  BY <1>0, <1>2, <1>4, <1>6 DEF StoredInVault
<1>10. Selecting'
  <2>1. label = "selecting" => expected'[s] \subseteq 1 .. Len(store[n])
    BY <1>2, <1>5
  <2>2. \A z \in Sessions : pc'[z] \in {"selecting", "enumerate"} =>
           expected'[z] \subseteq 1 .. Len(store[name'[z]])
    BY <1>0, <1>2, <1>6, <2>1 DEF Selecting
  <2>3. SelectComplete'
    BY <1>0, <1>2, <1>4, <1>6 DEF Selecting, SelectComplete
  <2>. QED  BY <1>4, <2>2, <2>3 DEF Selecting
<1>11. RefersToList' /\ Agreement'
  BY <1>0, <1>3, <1>4 DEF RefersToList, Agreement, First
<1>12. FoundIsFirst'
  BY <1>0, <1>2, <1>3, <1>6 DEF FoundIsFirst, First
<1>. QED  BY <1>7, <1>8, <1>9, <1>10, <1>11, <1>12

-----------------------------------------------------------------------------
(* Agreement.                                                              *)

(* A step that adds nothing to the list or the caches and puts no schema   *)
(* into the storage changes nobody's mind.                                 *)
LEMMA AgreementStays ==
    ASSUME EnvInv, UNCHANGED <<types, cache, current, objectVault>>
    PROVE  RefersToList' /\ Agreement'
BY DEF EnvInv, RefersToList, Agreement, First

(* The steps of the type vaults.                                           *)
LEMMA VaultStepAgreement ==
    ASSUME EnvInv, NEW s \in Sessions, VaultStep(s), UNCHANGED storageVars
    PROVE  RefersToList' /\ Agreement' /\ FoundIsFirst'
<1>0. TypesInv /\ TypeOK /\ RefersToList /\ Agreement /\ FoundIsFirst
  BY DEF EnvInv, TypesInv
<1>1. /\ UNCHANGED <<home, command, name, field, before, vaults, objectVault>>
      /\ \A z \in Sessions : z # s => pc'[z] = pc[z] /\ answer'[z] = answer[z]
  BY <1>0, Frame DEF storageVars
<1>2. /\ DOMAIN pc = Sessions /\ DOMAIN answer = Sessions
      /\ home[s] \in Vaults /\ name \in [Sessions -> Names] /\ name[s] \in Names
      /\ cache \in [Vaults -> [Names -> 0 .. MaxTypes]] /\ current \in [Vaults -> 0 .. Len(types)]
      /\ types \in Seq(Names) /\ Len(types) \in Nat
  BY <1>0, Typing
<1>3. CASE Refresh(s)
  <2>1. PICK v \in Vaults : v = home[s]
    BY <1>2
  <2>2. /\ types' = types /\ cache' = [cache EXCEPT ![v] = Refreshed(v)]
        /\ current' = [current EXCEPT ![v] = Len(types)]
        /\ answer'[s] = Refreshed(v)[name[s]]
    BY <1>2, <1>3, <2>1 DEF Refresh
  <2>3. ASSUME NEW n \in Names
        PROVE  /\ Refreshed(v)[n] # 0 =>
                     Refreshed(v)[n] \in 1 .. Len(types) /\ First(n, Refreshed(v)[n])
               /\ Refreshed(v)[n] = 0 => \A i \in 1 .. Len(types) : types[i] # n
    <3>1. /\ cache[v][n] # 0 => cache[v][n] \in 1 .. Len(types) /\ First(n, cache[v][n])
          /\ cache[v][n] = 0 => \A i \in 1 .. current[v] : types[i] # n
          /\ current[v] \in 0 .. Len(types)
      BY <1>0, <1>2 DEF RefersToList, Agreement
    <3>2. /\ cache[v][n] # 0 => Refreshed(v)[n] = cache[v][n]
          /\ Refreshed(v)[n] = 0 => \A i \in 1 .. Len(types) : i > current[v] => types[i] # n
          /\ cache[v][n] = 0 /\ Refreshed(v)[n] # 0 =>
                 /\ Refreshed(v)[n] \in 1 .. Len(types) /\ types[Refreshed(v)[n]] = n
                 /\ \A i \in 1 .. Len(types) :
                       i > current[v] /\ types[i] = n => Refreshed(v)[n] <= i
      BY <1>0, RefreshedIs
    <3>3. CASE cache[v][n] # 0
      BY <3>1, <3>2, <3>3
    <3>4. CASE cache[v][n] = 0
      <4>1. PICK k \in Nat : k = Len(types)
        BY <1>2
      <4>2. PICK m \in 0 .. k : m = current[v]
        BY <3>1, <4>1
      <4>3. \A i \in 1 .. m : types[i] # n
        BY <3>1, <3>4, <4>2
      <4>4. CASE Refreshed(v)[n] = 0
        <5>1. \A i \in 1 .. k : i > m => types[i] # n
          BY <3>2, <4>1, <4>2, <4>4
        <5>2. \A i \in 1 .. k : i > m \/ i \in 1 .. m
          OBVIOUS
        <5>. QED  BY <4>1, <4>3, <4>4, <5>1, <5>2
      <4>5. CASE Refreshed(v)[n] # 0
        <5>1. PICK j \in 1 .. k : j = Refreshed(v)[n] /\ types[j] = n
          BY <3>2, <3>4, <4>1, <4>5
        <5>2. \A i \in 1 .. k : i > m /\ types[i] = n => j <= i
          BY <3>2, <3>4, <4>1, <4>2, <4>5, <5>1
        <5>3. \A i \in 1 .. j - 1 : i \in 1 .. k /\ ~(j <= i) /\ (i > m \/ i \in 1 .. m)
          OBVIOUS
        <5>4. First(n, j)
          BY <4>3, <5>1, <5>2, <5>3 DEF First
        <5>. QED  BY <4>1, <4>5, <5>1, <5>4
      <4>. QED  BY <4>4, <4>5
    <3>. QED  BY <3>3, <3>4
  <2>4. /\ cache'[v] = Refreshed(v) /\ current'[v] = Len(types)
        /\ \A u \in Vaults : u # v => cache'[u] = cache[u] /\ current'[u] = current[u]
    BY <1>2, <2>2
  <2>5. RefersToList'
    BY <1>0, <1>1, <2>2, <2>3, <2>4 DEF RefersToList
  <2>6. \A u \in Vaults, n \in Names :
           IF cache'[u][n] # 0 THEN First(n, cache'[u][n])
           ELSE \A i \in 1 .. current'[u] : types[i] # n
    BY <1>0, <2>3, <2>4 DEF Agreement
  <2>7. \A n \in Names : objectVault[n] # 0 => First(n, objectVault[n])
    BY <1>0 DEF Agreement
  <2>8. Agreement'
    BY <1>1, <2>2, <2>6, <2>7 DEF Agreement, First
  <2>9. answer'[s] # 0 => answer'[s] \in 1 .. Len(types) /\ First(name[s], answer'[s])
    BY <1>2, <2>2, <2>3
  <2>10. \A z \in Sessions : pc'[z] = "ensured" /\ answer'[z] # 0 =>
            answer'[z] \in 1 .. Len(types) /\ First(name[z], answer'[z])
    BY <1>0, <1>1, <2>9 DEF FoundIsFirst
  <2>11. FoundIsFirst'
    BY <1>1, <2>2, <2>10 DEF FoundIsFirst, First
  <2>. QED  BY <2>5, <2>8, <2>11
<1>4. CASE EnqueueSchema(s)
  <2>. DEFINE F(n, i) == types'[i] = n /\ \A j \in 1 .. i - 1 : types'[j] # n
  <2>1. /\ types' = Append(types, name[s]) /\ UNCHANGED <<cache, current>>
        /\ pc'[s] = "invalidate"
    BY <1>2, <1>4 DEF EnqueueSchema, Goto
  <2>2. PICK k \in Nat : k = Len(types)
    BY <1>2
  <2>3. Len(types') = k + 1 /\ \A i \in 1 .. k : types'[i] = types[i]
    BY <1>2, <2>1, <2>2, AppendProperties
  <2>4. 1 .. k \subseteq 1 .. k + 1
    OBVIOUS
  <2>5. RefersToList'
    BY <1>0, <1>1, <2>1, <2>2, <2>3, <2>4 DEF RefersToList
  <2>6. ASSUME NEW n \in Names, NEW i \in 1 .. k, First(n, i)
        PROVE  F(n, i)
    <3>1. \A j \in 1 .. i - 1 : j \in 1 .. k
      OBVIOUS
    <3>. QED  BY <2>3, <2>6, <3>1 DEF First
  <2>7. Agreement'
    <3>1. ASSUME NEW v \in Vaults, NEW n \in Names
          PROVE  IF cache[v][n] # 0 THEN F(n, cache[v][n])
                 ELSE \A i \in 1 .. current[v] : types'[i] # n
      <4>1. CASE cache[v][n] # 0
        <5>1. cache[v][n] \in 1 .. k /\ First(n, cache[v][n])
          BY <1>0, <2>2, <4>1 DEF RefersToList, Agreement
        <5>2. F(n, cache[v][n])
          <6>1. PICK i \in 1 .. k : i = cache[v][n]
            BY <5>1
          <6>2. F(n, i)
            BY <2>6, <5>1, <6>1
          <6>. QED  BY <6>1, <6>2
        <5>. QED  BY <4>1, <5>2
      <4>2. CASE cache[v][n] = 0
        <5>1. current[v] \in 0 .. k
          BY <1>2, <2>2
        <5>2. \A i \in 1 .. current[v] : i \in 1 .. k
          BY <5>1
        <5>3. \A i \in 1 .. current[v] : types[i] # n
          BY <1>0, <4>2 DEF Agreement
        <5>. QED  BY <2>3, <4>2, <5>2, <5>3
      <4>. QED  BY <4>1, <4>2
    <3>2. ASSUME NEW n \in Names, objectVault[n] # 0  PROVE F(n, objectVault[n])
      <4>1. objectVault[n] \in 1 .. k /\ First(n, objectVault[n])
        BY <1>0, <2>2, <3>2 DEF RefersToList, Agreement
      <4>2. PICK i \in 1 .. k : i = objectVault[n]
        BY <4>1
      <4>3. F(n, i)
        BY <2>6, <4>1, <4>2
      <4>. QED  BY <4>2, <4>3
    <3>3. \A v \in Vaults, n \in Names :
             IF cache'[v][n] # 0 THEN F(n, cache'[v][n])
             ELSE \A i \in 1 .. current'[v] : types'[i] # n
      <4>. HIDE DEF F
      <4>. QED  BY <2>1, <3>1
    <3>4. \A n \in Names : objectVault'[n] # 0 => F(n, objectVault'[n])
      <4>. HIDE DEF F
      <4>. QED  BY <1>1, <3>2
    <3>. QED  BY <3>3, <3>4, Zenon DEF Agreement, First
  <2>8. FoundIsFirst'
    <3>. SUFFICES ASSUME NEW z \in Sessions, pc'[z] = "ensured", answer'[z] # 0
                  PROVE  answer'[z] \in 1 .. Len(types') /\ F(name[z], answer'[z])
      BY <1>1 DEF FoundIsFirst, First
    <3>1. pc[z] = "ensured" /\ answer'[z] = answer[z]
      BY <1>1, <2>1
    <3>2. answer[z] \in 1 .. k /\ First(name[z], answer[z])
      BY <1>0, <2>2, <3>1 DEF FoundIsFirst
    <3>3. PICK i \in 1 .. k : i = answer[z]
      BY <3>2
    <3>4. F(name[z], i)
      <4>1. PICK n \in Names : n = name[z]
        BY <1>2
      <4>2. F(n, i)
        BY <2>6, <3>2, <3>3, <4>1
      <4>. QED  BY <4>1, <4>2
    <3>. QED  BY <1>1, <2>3, <2>4, <3>1, <3>3, <3>4
  <2>. QED  BY <2>5, <2>7, <2>8
<1>5. CASE ~Refresh(s) /\ ~EnqueueSchema(s)
  <2>1. UNCHANGED <<types, cache, current>>
    BY <1>5 DEF VaultStep, FindCached, FindDirty, Refresh, CreateBegin,
       CreateDuplicate, CreateGivesUp,
     AllocateSchema, HandlerFails, EnqueueSchema, InvalidateCache, CreateReturns, vaultVars
  <2>2. RefersToList' /\ Agreement'
    BY <1>1, <2>1, AgreementStays
  <2>3. pc'[s] = "ensured" => \/ answer'[s] = cache[home[s]][name[s]]
                              \/ pc[s] = "ensured" /\ answer' = answer
    BY <1>2, <1>5 DEF VaultStep, FindCached, FindDirty, Refresh, CreateBegin,
       CreateDuplicate, CreateGivesUp,
     AllocateSchema, HandlerFails, EnqueueSchema, InvalidateCache, CreateReturns, Goto
  <2>4. \A z \in Sessions : pc'[z] = "ensured" /\ answer'[z] # 0 =>
           answer'[z] \in 1 .. Len(types) /\ First(name[z], answer'[z])
    BY <1>0, <1>1, <1>2, <2>3 DEF FoundIsFirst, RefersToList, Agreement
  <2>5. FoundIsFirst'
    BY <1>1, <2>1, <2>4 DEF FoundIsFirst, First
  <2>. QED  BY <2>2, <2>5
<1>. QED  BY <1>3, <1>4, <1>5

(* The steps of the storage.                                               *)
LEMMA StorageStepAgreement ==
    ASSUME EnvInv, NEW s \in Sessions, StorageStep(s)
    PROVE  RefersToList' /\ Agreement' /\ FoundIsFirst'
<1>0. TypeOK /\ RefersToList /\ Agreement /\ FoundIsFirst
  BY DEF EnvInv, TypesInv
<1>1. /\ UNCHANGED <<home, command, name, field, before, vaults>>
      /\ \A z \in Sessions : z # s => pc'[z] = pc[z] /\ answer'[z] = answer[z]
  BY <1>0, Frame
<1>2. DOMAIN pc = Sessions /\ name[s] \in Names /\ objectVault \in [Names -> 0 .. MaxTypes]
  BY <1>0, Typing DEF TypeOK, StorageTypeOK
<1>3. UNCHANGED <<types, cache, current>> /\ pc'[s] # "ensured"
  BY <1>2 DEF StorageStep, EnsureFinds, EnsureMisses, EnsureRefuses,
     EnsureInserts, CreateObjectFails,
     ReadGuid, StoreObject, WriteTyped, CreateFails, CreateSucceeds, FindVaultWithType,
     Enumerate, Serialize, vaultVars, sessionVars, Goto
<1>4. FoundIsFirst'
  BY <1>0, <1>1, <1>3 DEF FoundIsFirst, First
<1>5. CASE EnsureInserts(s)
  <2>1. pc[s] = "ensured" /\ answer[s] # 0
        /\ \A n \in Names : \/ objectVault'[n] = objectVault[n]
                            \/ n = name[s] /\ objectVault'[n] = answer[s]
    BY <1>2, <1>5 DEF EnsureInserts
  <2>2. answer[s] \in 1 .. Len(types) /\ First(name[s], answer[s])
    BY <1>0, <2>1 DEF FoundIsFirst
  <2>3. \A n \in Names : objectVault'[n] # 0 =>
           objectVault'[n] \in 1 .. Len(types) /\ First(n, objectVault'[n])
    BY <1>0, <2>1, <2>2 DEF RefersToList, Agreement
  <2>4. RefersToList'
    BY <1>0, <1>3, <2>3 DEF RefersToList
  <2>5. Agreement'
    BY <1>0, <1>3, <2>3 DEF Agreement, First
  <2>. QED  BY <1>4, <2>4, <2>5
<1>6. CASE ~EnsureInserts(s)
  <2>1. objectVault' = objectVault
    BY <1>6 DEF StorageStep, EnsureFinds, EnsureMisses, EnsureRefuses,
       EnsureInserts, CreateObjectFails,
     ReadGuid, StoreObject, WriteTyped, CreateFails, CreateSucceeds, FindVaultWithType,
     Enumerate, Serialize, storageVars
  <2>. QED  BY <1>3, <1>4, <2>1, AgreementStays
<1>. QED  BY <1>5, <1>6

-----------------------------------------------------------------------------
(* The invariant holds at the start, and a vault made late or a pause of   *)
(* all sessions does not disturb it.                                       *)
LEMMA InitEnv == Init => EnvInv
<1>. SUFFICES ASSUME Init  PROVE EnvInv
  OBVIOUS
<1>0. TypesInv /\ VaultInit /\ StorageInit
  BY InitTypes DEF Init
<1>1. \A s \in Sessions : pc[s] = "idle"
  BY <1>0 DEF VaultInit
<1>2. \A n \in Names : objectVault[n] = 0 /\ made[n] = 0 /\ store[n] = << >>
  BY <1>0 DEF StorageInit
<1>3. \A v \in Vaults, n \in Names : cache[v][n] = 0 /\ current[v] = 0
  BY <1>0 DEF VaultInit
<1>4. Exclusive /\ NeverWaitsForItself /\ Ensuring /\ FoundIsFirst
  BY <1>1 DEF Exclusive, NeverWaitsForItself, Ensuring, HoldsStorage,
     FoundIsFirst
<1>5. MadeOnce
  BY <1>2 DEF MadeOnce
<1>6. StoredInVault /\ Selecting
  <2>1. Len(<< >>) = 0
    OBVIOUS
  <2>. QED  BY <1>1, <1>2, <2>1 DEF StoredInVault, Selecting, SelectComplete
<1>7. RefersToList
  BY <1>2, <1>3 DEF RefersToList
<1>8. Agreement
  <2>1. \A i \in 1 .. 0 : FALSE
    OBVIOUS
  <2>. QED  BY <1>2, <1>3, <2>1 DEF Agreement
<1>. QED  BY <1>0, <1>4, <1>5, <1>6, <1>7, <1>8 DEF EnvInv

(* CreateVault of worker 0.                                                *)
LEMMA CreateVaultKeeps ==
    ASSUME EnvInv, CreateVault, UNCHANGED <<storageVars, thread, sent>>
    PROVE  EnvInv'
<1>0. /\ TypeOK /\ VaultTypeOK /\ StorageTypeOK /\ LateVault \in Vaults
      /\ vaults' = vaults \cup {LateVault}
      /\ UNCHANGED <<types, writer, updated, cache, current, defined, home, pc, command, name,
                     field, answer, todo, before, objectVault, storageLock, vaultLock, lastGuid,
                     store, index, made, guid, object, missing, seen, expected>>
  BY VaultAssumption DEF CreateVault, sessionVars, storageVars, EnvInv,
     TypesInv, TypeOK
<1>1. VaultTypeOK' /\ StorageTypeOK'
  BY <1>0 DEF VaultTypeOK, StorageTypeOK
<1>2. TypesInv'
  BY <1>0, <1>1 DEF EnvInv, TypesInv, TypeOK, Bounded, Indexed, Writing
<1>3. (Exclusive /\ NeverWaitsForItself /\ Ensuring /\ MadeOnce)'
  BY <1>0 DEF EnvInv, Exclusive, NeverWaitsForItself, Ensuring, HoldsStorage,
     MadeOnce
<1>4. (StoredInVault /\ Selecting)'
  BY <1>0 DEF EnvInv, StoredInVault, Selecting, SelectComplete
<1>5. (RefersToList /\ Agreement /\ FoundIsFirst)'
  BY <1>0 DEF EnvInv, RefersToList, Agreement, First, FoundIsFirst
<1>. QED  BY <1>2, <1>3, <1>4, <1>5 DEF EnvInv

(* Nothing happens.                                                        *)
LEMMA StutterKeeps ==
    ASSUME EnvInv, UNCHANGED vars
    PROVE  EnvInv'
<1>0. UNCHANGED <<types, writer, vaults, updated, cache, current, defined, home, pc, command, name,
                  field, answer, todo, before, objectVault, storageLock, vaultLock, lastGuid,
                  store, index, made, guid, object, missing, seen, expected, thread, sent>>
  BY DEF vars, vaultVars, sessionVars, storageVars
<1>1. TypesInv'
  BY <1>0 DEF EnvInv, TypesInv, TypeOK, VaultTypeOK, StorageTypeOK, Bounded,
     Indexed, Writing
<1>2. (Exclusive /\ NeverWaitsForItself /\ Ensuring /\ MadeOnce)'
  BY <1>0 DEF EnvInv, Exclusive, NeverWaitsForItself, Ensuring, HoldsStorage,
     MadeOnce
<1>3. (StoredInVault /\ Selecting)'
  BY <1>0 DEF EnvInv, StoredInVault, Selecting, SelectComplete
<1>4. (RefersToList /\ Agreement /\ FoundIsFirst)'
  BY <1>0 DEF EnvInv, RefersToList, Agreement, First, FoundIsFirst
<1>. QED  BY <1>1, <1>2, <1>3, <1>4 DEF EnvInv

(* A step of a session.                                                    *)
LEMMA SessionKeeps ==
    ASSUME EnvInv, NEW s \in Sessions, Arrives(s) \/ SessionStep(s)
    PROVE  EnvInv'
<1>0. TypesInv
  BY DEF EnvInv
<1>1. CASE Arrives(s)
  BY <1>0, <1>1, ArrivesTypes, ArrivesLocks DEF EnvInv
<1>2. CASE VaultStep(s) /\ UNCHANGED <<storageVars, thread, sent>>
  BY <1>0, <1>2, VaultStepTypes, VaultStepLocks, VaultStepAgreement DEF EnvInv
<1>3. CASE StorageStep(s) /\ UNCHANGED <<thread, sent>>
  BY <1>0, <1>3, StorageStepTypes, StorageStepLocks, StorageStepAgreement
     DEF EnvInv
<1>. QED  BY <1>1, <1>2, <1>3 DEF SessionStep

(* The invariant of every specification of this module, whoever runs the   *)
(* sessions.                                                               *)
LEMMA EnvInvariant == Spec => []EnvInv
<1>1. Init => EnvInv
  BY InitEnv
<1>2. EnvInv /\ [Next]_vars => EnvInv'
  <2>. SUFFICES ASSUME EnvInv, [Next]_vars  PROVE EnvInv'
    OBVIOUS
  <2>1. CASE CreateVault /\ UNCHANGED <<storageVars, thread, sent>>
    BY <2>1, CreateVaultKeeps
  <2>2. ASSUME NEW s \in Sessions, Arrives(s) \/ SessionStep(s)  PROVE EnvInv'
    BY <2>2, SessionKeeps
  <2>3. CASE Finished
    BY <2>3, StutterKeeps DEF Finished
  <2>4. CASE UNCHANGED vars
    BY <2>4, StutterKeeps
  <2>. QED  BY <2>1, <2>2, <2>3, <2>4 DEF Next
<1>. QED  BY <1>1, <1>2, PTL DEF Spec

(* All threads and the storage agree on what a type name means, whatever   *)
(* the sessions define at the same time and whenever a thread refreshes    *)
(* its cache: the first schema of that name in the list.                   *)
THEOREM ThreadsAgree == Spec => []Agreement
<1>1. EnvInv => Agreement
  BY DEF EnvInv
<1>. QED  BY <1>1, EnvInvariant, PTL

(* However many creates meet, a type gets one object vault: lock_ is held  *)
(* from the lookup in objects_ to the insert.                              *)
THEOREM VaultsAreMadeOnce == Spec => []OneVaultPerType
<1>1. EnvInv => OneVaultPerType
  BY DEF EnvInv, MadeOnce, OneVaultPerType
<1>. QED  BY <1>1, EnvInvariant, PTL

(* A select returns every object whose create had returned when it began.  *)
THEOREM SelectsAreComplete == Spec => []SelectComplete
<1>1. EnvInv => SelectComplete
  BY DEF EnvInv, Selecting
<1>. QED  BY <1>1, EnvInvariant, PTL

-----------------------------------------------------------------------------
(* Freshness, as long as FindSchema is called as its comment expects.      *)

(* It holds before the first command: no vault has been used.               *)
LEMMA InitFresh == Init => FreshInv
<1>. SUFFICES ASSUME Init  PROVE FreshInv
  OBVIOUS
<1>0. EnvInv /\ VaultInit
  BY InitEnv DEF Init
<1>1. /\ \A s \in Sessions : pc[s] = "idle" /\ before[s] = {}
      /\ \A v \in Vaults : ~updated[v]
  BY <1>0 DEF VaultInit
<1>2. VaultIsCreated
  BY <1>1 DEF VaultIsCreated
<1>3. DefinedReaches
  <2>1. defined = {Basic} /\ types = <<Basic>>
    BY <1>0 DEF VaultInit
  <2>2. 1 \in 1 .. Len(types) /\ types[1] = Basic
    BY <2>1
  <2>. QED  BY <1>1, <2>1, <2>2 DEF DefinedReaches, Reaches
<1>4. NotBefore
  BY <1>1 DEF NotBefore, Fresh
<1>. QED  BY <1>0, <1>2, <1>3, <1>4 DEF FreshInv

(* A command that begins knows what is defined by then.                    *)
LEMMA ArrivesFresh ==
    ASSUME FreshInv, NEW s \in Sessions, Arrives(s)
    PROVE  VaultIsCreated' /\ DefinedReaches' /\ NotBefore'
<1>0. TypeOK /\ VaultIsCreated /\ DefinedReaches /\ NotBefore
  BY DEF FreshInv, EnvInv, TypesInv
<1>1. PICK t, n, c, label : Begin(s, t, c, n, label) /\ label \in {"find", "ensure", "selecting"}
  BY DEF Arrives, Defstruct, Create, Select
<1>2. /\ pc[s] = "idle" /\ home[s] \in vaults
      /\ command' = [command EXCEPT ![s] = c]
      /\ name' = [name EXCEPT ![s] = n] /\ before' = [before EXCEPT ![s] = defined]
      /\ pc' = [pc EXCEPT ![s] = label]
      /\ UNCHANGED <<types, writer, vaults, updated, cache, current, defined, home, answer, todo>>
  BY <1>1 DEF Begin, Goto, vaultVars
<1>3. /\ DOMAIN pc = Sessions /\ DOMAIN name = Sessions
      /\ DOMAIN before = Sessions /\ DOMAIN command = Sessions
  BY <1>0, Typing DEF TypeOK
<1>4. /\ pc'[s] = label /\ before'[s] = defined
      /\ \A z \in Sessions : z # s => /\ pc'[z] = pc[z] /\ name'[z] = name[z]
                                     /\ before'[z] = before[z] /\ command'[z] = command[z]
  BY <1>2, <1>3
<1>5. VaultIsCreated'
  BY <1>0, <1>2, <1>4 DEF VaultIsCreated
<1>6. \A v \in Vaults, m \in Names : Reaches(v, m) => Reaches(v, m)'
  BY <1>2, <1>4 DEF Reaches
<1>7. \A z \in Sessions :
        pc'[z] = "invalidate" => z # s /\ pc[z] = "invalidate" /\ name[z] \in Names
  BY <1>0, <1>1, <1>4, Typing
<1>8. defined \subseteq Names
  BY <1>0, Typing
<1>9. DefinedReaches'
  <2>1. \A m \in defined, v \in Vaults : Reaches(v, m)'
    BY <1>0, <1>6, <1>8 DEF DefinedReaches
  <2>2. \A z \in Sessions : pc'[z] = "invalidate" =>
           /\ \E i \in 1 .. Len(types) : types[i] = name'[z]
           /\ \A v \in Vaults \ todo[z] : Reaches(v, name[z])'
    BY <1>0, <1>4, <1>6, <1>7 DEF DefinedReaches
  <2>. QED  BY <1>0, <1>2, <2>1, <2>2 DEF DefinedReaches
<1>10. NotBefore'
  BY <1>0, <1>1, <1>2, <1>4 DEF NotBefore, Fresh
<1>. QED  BY <1>5, <1>9, <1>10

(* A session at work keeps its vault.                                      *)
LEMMA CreatedStays ==
    ASSUME FreshInv, NEW s \in Sessions, VaultStep(s) \/ StorageStep(s)
    PROVE  VaultIsCreated'
<1>0. TypeOK /\ VaultIsCreated
  BY DEF FreshInv, EnvInv, TypesInv
<1>1. /\ UNCHANGED <<home, vaults>>
      /\ \A z \in Sessions : z # s => pc'[z] = pc[z]
  BY <1>0, Frame
<1>2. pc[s] # "idle"
  BY DEF VaultStep, FindCached, FindDirty, Refresh, CreateBegin,
     CreateDuplicate, CreateGivesUp,
     AllocateSchema, HandlerFails, EnqueueSchema, InvalidateCache, CreateReturns, StorageStep,
     EnsureFinds, EnsureMisses, EnsureRefuses, EnsureInserts, CreateObjectFails,
     ReadGuid, StoreObject, WriteTyped, CreateFails, CreateSucceeds, FindVaultWithType,
     Enumerate, Serialize
<1>. QED  BY <1>0, <1>1, <1>2 DEF VaultIsCreated

(* The storage is looked at by creates that know their schema, or that     *)
(* began before it was defined.                                            *)
LEMMA StorageStepFresh ==
    ASSUME FreshInv, NEW s \in Sessions, StorageStep(s)
    PROVE  DefinedReaches' /\ NotBefore'
<1>0. TypeOK /\ DefinedReaches /\ NotBefore
  BY DEF FreshInv, EnvInv, TypesInv
<1>1. /\ UNCHANGED <<home, command, name, before, vaults>>
      /\ \A z \in Sessions : z # s => pc'[z] = pc[z] /\ answer'[z] = answer[z] /\ todo'[z] = todo[z]
  BY <1>0, Frame
<1>2. DOMAIN pc = Sessions /\ DOMAIN answer = Sessions
  BY <1>0, Typing
<1>3. UNCHANGED <<types, updated, cache, defined, todo>>
  BY DEF StorageStep, EnsureFinds, EnsureMisses, EnsureRefuses,
     EnsureInserts, CreateObjectFails,
     ReadGuid, StoreObject, WriteTyped, CreateFails, CreateSucceeds, FindVaultWithType,
     Enumerate, Serialize, vaultVars, sessionVars
<1>4. /\ pc[s] \notin {"refresh", "dup", "handler", "invalidate"}
      /\ pc'[s] \notin {"lock", "dup", "handler", "invalidate", "ensured"}
      /\ pc'[s] = "object" => answer'[s] # 0 \/ (pc[s] = "ensured" /\ answer' = answer)
  BY <1>2 DEF StorageStep, EnsureFinds, EnsureMisses, EnsureRefuses,
     EnsureInserts, CreateObjectFails,
     ReadGuid, StoreObject, WriteTyped, CreateFails, CreateSucceeds, FindVaultWithType,
     Enumerate, Serialize, Goto, sessionVars
<1>5. \A v, n : Reaches(v, n) => Reaches(v, n)'
  BY <1>1, <1>3, <1>4 DEF Reaches
<1>6. DefinedReaches'
  <2>1. \A n \in defined, v \in Vaults : Reaches(v, n)'
    BY <1>0, <1>5 DEF DefinedReaches
  <2>2. \A z \in Sessions : pc'[z] = "invalidate" =>
           /\ \E i \in 1 .. Len(types) : types[i] = name[z]
           /\ \A v \in Vaults \ todo[z] : Reaches(v, name[z])
    BY <1>0, <1>1, <1>4 DEF DefinedReaches
  <2>3. \A z \in Sessions :
          pc'[z] = "invalidate" => \A v \in Vaults \ todo[z] : Reaches(v, name[z])'
    BY <1>1, <1>5, <2>2
  <2>. QED  BY <1>0, <1>1, <1>3, <2>1, <2>2, <2>3 DEF DefinedReaches
<1>7. NotBefore'
  <2>1. \A z \in Sessions : pc'[z] \in {"ensured", "object"} /\ answer'[z] = 0 =>
           pc[z] \in {"ensured", "object"} /\ answer[z] = 0
    BY <1>1, <1>4
  <2>. QED  BY <1>0, <1>1, <1>3, <1>4, <2>1 DEF NotBefore, Fresh
<1>. QED  BY <1>6, <1>7

(* A lookup in a clean cache, or after a refresh, finds what was defined   *)
(* when the command began.                                                 *)
LEMMA LookupFinds ==
    ASSUME FreshInv, VaultConfined, NEW s \in Sessions, name[s] \in before[s],
           FindCached(s) \/ Refresh(s)
    PROVE  answer'[s] # 0
<1>0. TypesInv /\ TypeOK /\ VaultIsCreated /\ DefinedReaches /\ NotBefore /\ Agreement
  BY DEF FreshInv, EnvInv, TypesInv
<1>1. /\ DOMAIN answer = Sessions /\ home[s] \in Vaults /\ name[s] \in Names
      /\ current[home[s]] \in 0 .. Len(types) /\ Len(types) \in Nat
  BY <1>0, Typing
<1>2. name[s] \in defined
  BY <1>0 DEF NotBefore
<1>3. CASE FindCached(s)
  <2>1. pc[s] = "find" /\ updated[home[s]] /\ answer'[s] = cache[home[s]][name[s]]
    BY <1>1, <1>3 DEF FindCached
  <2>2. \A z \in Sessions : home[z] = home[s] => z = s \/ ~InVault(z)
    BY <2>1 DEF VaultConfined, InVault
  <2>3. Reaches(home[s], name[s])
    BY <1>0, <1>1, <1>2 DEF DefinedReaches
  <2>. QED  BY <2>1, <2>2, <2>3 DEF Reaches, InVault
<1>4. CASE Refresh(s)
  <2>1. answer'[s] = Refreshed(home[s])[name[s]]
    BY <1>1, <1>4 DEF Refresh
  <2>2. PICK i \in 1 .. Len(types) : types[i] = name[s]
    BY <1>0, <1>2 DEF DefinedReaches
  <2>3. Refreshed(home[s])[name[s]] = 0 => ~(i > current[home[s]]) /\ cache[home[s]][name[s]] = 0
    BY <1>0, <1>1, <2>2, RefreshedIs
  <2>4. cache[home[s]][name[s]] = 0 => i \notin 1 .. current[home[s]]
    BY <1>0, <1>1, <2>2 DEF Agreement
  <2>5. i > current[home[s]] \/ i \in 1 .. current[home[s]]
    BY <1>1
  <2>. QED  BY <2>1, <2>3, <2>4, <2>5
<1>. QED  BY <1>3, <1>4

(* A refreshed cache holds every name of the list.                         *)
LEMMA RefreshReaches ==
    ASSUME TypesInv, Agreement, NEW v \in Vaults, NEW n \in Names, NEW i \in 1 .. Len(types),
           types[i] = n
    PROVE  Refreshed(v)[n] # 0
<1>1. current[v] \in 0 .. Len(types) /\ Len(types) \in Nat
  BY Typing DEF TypesInv
<1>2. Refreshed(v)[n] = 0 => ~(i > current[v]) /\ cache[v][n] = 0
  BY RefreshedIs
<1>3. cache[v][n] = 0 => i \notin 1 .. current[v]
  BY DEF Agreement
<1>4. i > current[v] \/ i \in 1 .. current[v]
  BY <1>1
<1>. QED  BY <1>2, <1>3, <1>4

(* The type vaults keep every vault in reach of what was defined.          *)
LEMMA VaultStepReaches ==
    ASSUME FreshInv, NEW s \in Sessions, VaultStep(s)
    PROVE  DefinedReaches'
<1>0. /\ TypesInv /\ TypeOK /\ VaultIsCreated /\ DefinedReaches /\ Agreement /\ Exclusive
      /\ \A z \in Sessions : before[z] \subseteq defined
  BY DEF FreshInv, EnvInv, TypesInv, NotBefore
<1>1. /\ UNCHANGED <<home, command, name, before, vaults>>
      /\ \A z \in Sessions : z # s => pc'[z] = pc[z] /\ todo'[z] = todo[z]
  BY <1>0, Frame
<1>2. /\ DOMAIN pc = Sessions /\ updated \in [Vaults -> BOOLEAN] /\ home[s] \in Vaults
      /\ DOMAIN cache = Vaults /\ name \in [Sessions -> Names] /\ defined \subseteq Names
      /\ todo \in [Sessions -> SUBSET Vaults] /\ vaults \subseteq Vaults
      /\ types \in Seq(Names) /\ Len(types) \in Nat
  BY <1>0, Typing
<1>3. pc[s] # "idle" /\ home[s] \in vaults
  <2>1. pc[s] # "idle"
    BY DEF VaultStep, FindCached, FindDirty, Refresh, CreateBegin,
       CreateDuplicate, CreateGivesUp,
     AllocateSchema, HandlerFails, EnqueueSchema, InvalidateCache, CreateReturns
  <2>. QED  BY <1>0, <2>1 DEF VaultIsCreated
<1>4. /\ \A n \in defined : \E i \in 1 .. Len(types) : types[i] = n
      /\ \A n \in defined, v \in Vaults : Reaches(v, n)
      /\ \A z \in Sessions : pc[z] = "invalidate" =>
            /\ \E i \in 1 .. Len(types) : types[i] = name[z]
            /\ \A v \in Vaults \ todo[z] : Reaches(v, name[z])
      /\ \A v \in Vaults \ vaults : ~updated[v]
  BY <1>0 DEF DefinedReaches
(* The steps that neither add to the list nor to what is defined.          *)
<1>5. CASE FindCached(s) \/ FindDirty(s) \/ Refresh(s) \/ CreateBegin(s)
           \/ CreateDuplicate(s) \/ AllocateSchema(s) \/ HandlerFails(s)
  <2>1. /\ UNCHANGED <<types, defined, todo>>
        /\ pc[s] # "invalidate" /\ pc'[s] # "invalidate"
    BY <1>2, <1>5, AfterFindIs DEF FindCached, FindDirty, Refresh,
       CreateBegin, CreateDuplicate,
       CreateGivesUp, AllocateSchema, HandlerFails, Goto, vaultVars
  <2>2. ASSUME NEW v \in Vaults, NEW n \in Names, Reaches(v, n),
               \E i \in 1 .. Len(types) : types[i] = n
        PROVE  Reaches(v, n)'
    <3>1. CASE Refresh(s)
      <4>1. /\ pc[s] = "refresh" /\ UNCHANGED updated
            /\ cache' = [cache EXCEPT ![home[s]] = Refreshed(home[s])]
        BY <3>1 DEF Refresh
      <4>2. CASE v = home[s]
        <5>1. Refreshed(v)[n] # 0
          BY <1>0, <2>2, RefreshReaches
        <5>. QED  BY <1>2, <4>1, <4>2, <5>1 DEF Reaches
      <4>3. CASE v # home[s]
        <5>1. cache'[v] = cache[v]
          BY <1>2, <4>1, <4>3
        <5>2. \A z \in Sessions : home[z] = v => z # s
          BY <4>3
        <5>. QED  BY <1>1, <2>1, <2>2, <4>1, <5>1, <5>2 DEF Reaches
      <4>. QED  BY <4>2, <4>3
    <3>2. CASE FindCached(s)
      BY <1>1, <2>1, <2>2, <3>2 DEF FindCached, Reaches, vaultVars
    <3>3. CASE FindDirty(s) \/ CreateBegin(s) \/ AllocateSchema(s)
      <4>1. /\ pc'[s] \in {"refresh", "dup", "handler"} /\ cache' = cache
            /\ \A u \in Vaults : u # home[s] => updated'[u] = updated[u]
        BY <1>2, <3>3 DEF FindDirty, CreateBegin, AllocateSchema, Goto,
           vaultVars
      <4>2. CASE v = home[s]
        BY <1>1, <4>1, <4>2 DEF Reaches
      <4>3. CASE v # home[s]
        <5>1. \A z \in Sessions : home[z] = v => z # s
          BY <4>3
        <5>. QED  BY <1>1, <2>1, <2>2, <4>1, <4>3, <5>1 DEF Reaches
      <4>. QED  BY <4>2, <4>3
    <3>4. CASE CreateDuplicate(s) \/ HandlerFails(s)
      <4>1. updated' = [updated EXCEPT ![home[s]] = FALSE] /\ cache' = cache
        BY <3>4 DEF CreateDuplicate, HandlerFails, CreateGivesUp
      <4>2. CASE v = home[s]
        BY <1>2, <4>1, <4>2 DEF Reaches
      <4>3. CASE v # home[s]
        <5>1. \A z \in Sessions : home[z] = v => z # s
          BY <4>3
        <5>2. updated'[v] = updated[v]
          BY <1>2, <4>1, <4>3
        <5>. QED  BY <1>1, <2>1, <2>2, <4>1, <5>1, <5>2 DEF Reaches
      <4>. QED  BY <4>2, <4>3
    <3>. QED  BY <1>5, <3>1, <3>2, <3>3, <3>4
  <2>3. \A v \in Vaults \ vaults : updated'[v] = updated[v]
    BY <1>2, <1>3, <1>5 DEF FindCached, FindDirty, Refresh, CreateBegin,
       CreateDuplicate,
       CreateGivesUp, AllocateSchema, HandlerFails, vaultVars
  <2>4. \A n \in defined, v \in Vaults : Reaches(v, n)'
    BY <1>2, <1>4, <2>2
  <2>5. \A z \in Sessions : pc'[z] = "invalidate" =>
           /\ \E i \in 1 .. Len(types) : types[i] = name[z]
           /\ \A v \in Vaults \ todo[z] : Reaches(v, name[z])
    BY <1>1, <1>4, <2>1
  <2>6. \A z \in Sessions :
          pc'[z] = "invalidate" => \A v \in Vaults \ todo[z] : Reaches(v, name[z])'
    BY <1>1, <1>2, <2>2, <2>5
  <2>. QED  BY <1>1, <1>4, <2>1, <2>3, <2>4, <2>5, <2>6 DEF DefinedReaches
<1>6. CASE EnqueueSchema(s)
  <2>1. /\ pc[s] = "handler" /\ pc'[s] = "invalidate" /\ todo'[s] = vaults
        /\ types' = Append(types, name[s]) /\ UNCHANGED <<updated, cache, defined>>
    BY <1>2, <1>6 DEF EnqueueSchema, Goto
  <2>2. PICK k \in Nat : k = Len(types)
    BY <1>2
  <2>3. /\ Len(types') = k + 1 /\ types'[k + 1] = name[s]
        /\ \A i \in 1 .. k : types'[i] = types[i]
    BY <1>2, <2>1, <2>2, AppendProperties
  <2>4. k + 1 \in 1 .. k + 1 /\ 1 .. k \subseteq 1 .. k + 1
    OBVIOUS
  <2>5. \A z \in Sessions : pc'[z] = "invalidate" => z = s
    BY <1>0, <1>1, <2>1 DEF Exclusive
  <2>6. \A n \in defined : \E i \in 1 .. Len(types') : types'[i] = n
    BY <1>4, <2>2, <2>3, <2>4
  <2>7. \A v \in Vaults, n \in Names : Reaches(v, n) => Reaches(v, n)'
    BY <1>1, <1>3, <2>1 DEF Reaches
  <2>8. \A n \in defined, v \in Vaults : Reaches(v, n)'
    BY <1>2, <1>4, <2>7
  <2>9. \A v \in Vaults \ todo'[s] : Reaches(v, name[s])'
    BY <1>4, <2>1 DEF Reaches
  <2>10. \E i \in 1 .. Len(types') : types'[i] = name[s]
    BY <2>3, <2>4
  <2>. QED  BY <1>1, <1>4, <2>1, <2>5, <2>6, <2>8, <2>9, <2>10
           DEF DefinedReaches
<1>7. ASSUME NEW u \in Vaults, InvalidateCache(s, u)  PROVE DefinedReaches'
  <2>1. /\ pc[s] = "invalidate" /\ pc' = pc /\ updated' = [updated EXCEPT ![u] = FALSE]
        /\ todo' = [todo EXCEPT ![s] = @ \ {u}] /\ UNCHANGED <<types, cache, defined>>
    BY <1>7 DEF InvalidateCache
  <2>2. \A z \in Sessions : pc[z] = "invalidate" => z = s
    BY <1>0, <2>1 DEF Exclusive
  <2>3. ASSUME NEW v \in Vaults, NEW n \in Names, v = u \/ Reaches(v, n)
        PROVE  Reaches(v, n)'
    <3>1. CASE v = u
      BY <1>2, <2>1, <3>1 DEF Reaches
    <3>2. CASE v # u
      <4>1. updated'[v] = updated[v] /\ \A z \in Sessions : v \in todo[z] => v \in todo'[z]
        BY <1>2, <2>1, <3>2
      <4>. QED  BY <1>1, <2>1, <2>3, <3>2, <4>1 DEF Reaches
    <3>. QED  BY <3>1, <3>2
  <2>4. \A n \in defined, v \in Vaults : Reaches(v, n)'
    BY <1>2, <1>4, <2>3
  <2>5. todo'[s] = todo[s] \ {u}
    BY <1>2, <2>1
  <2>6. \A v \in Vaults \ todo'[s] : v = u \/ Reaches(v, name[s])
    BY <1>4, <2>1, <2>5
  <2>7. \A v \in Vaults \ todo'[s] : Reaches(v, name[s])'
    <3>1. PICK n \in Names : n = name[s]
      BY <1>2
    <3>2. \A v \in Vaults \ todo'[s] : Reaches(v, n)'
      BY <2>3, <2>6, <3>1
    <3>. QED  BY <1>1, <3>1, <3>2 DEF Reaches
  <2>8. \A v \in Vaults \ vaults : ~updated'[v]
    BY <1>2, <1>4, <2>1
  <2>. QED  BY <1>1, <1>4, <2>1, <2>2, <2>4, <2>7, <2>8 DEF DefinedReaches
<1>8. CASE CreateReturns(s)
  <2>1. /\ pc[s] = "invalidate" /\ todo[s] = {} /\ pc'[s] = "idle"
        /\ defined' = defined \cup {name[s]} /\ UNCHANGED <<types, cache, updated, todo>>
    BY <1>2, <1>8 DEF CreateReturns, Goto
  <2>2. \A z \in Sessions : pc'[z] # "invalidate"
    BY <1>0, <1>1, <2>1 DEF Exclusive
  <2>3. \A v \in Vaults, n \in Names : Reaches(v, n) => Reaches(v, n)'
    BY <1>1, <2>1 DEF Reaches
  <2>4. \A n \in defined', v \in Vaults : Reaches(v, n)
    BY <1>4, <2>1
  <2>5. \A n \in defined', v \in Vaults : Reaches(v, n)'
    BY <1>2, <2>1, <2>3, <2>4
  <2>6. \A n \in defined' : \E i \in 1 .. Len(types) : types[i] = n
    BY <1>4, <2>1
  <2>. QED  BY <1>1, <1>4, <2>1, <2>2, <2>5, <2>6 DEF DefinedReaches
<1>. QED  BY <1>5, <1>6, <1>7, <1>8 DEF VaultStep

(* A command that goes on to define a name, or has no schema for it, began *)
(* before the name was defined.                                            *)
LEMMA VaultStepNotBefore ==
    ASSUME FreshInv, VaultConfined, NEW s \in Sessions, VaultStep(s)
    PROVE  NotBefore'
<1>0. TypeOK /\ NotBefore
  BY DEF FreshInv, EnvInv, TypesInv
<1>1. /\ UNCHANGED <<home, command, name, before, vaults>>
      /\ \A z \in Sessions : z # s => pc'[z] = pc[z] /\ answer'[z] = answer[z]
  BY <1>0, Frame
<1>2. DOMAIN pc = Sessions /\ DOMAIN answer = Sessions
  BY <1>0, Typing
<1>3. defined \subseteq defined'
  BY DEF VaultStep, FindCached, FindDirty, Refresh, CreateBegin,
     CreateDuplicate, CreateGivesUp,
     AllocateSchema, HandlerFails, EnqueueSchema, InvalidateCache, CreateReturns, vaultVars
<1>4. CASE FindCached(s) \/ Refresh(s)
  <2>1. pc'[s] = AfterFind(s, answer'[s])
    BY <1>2, <1>4 DEF FindCached, Refresh, Goto
  <2>2. pc'[s] \in {"ensured", "lock", "idle"} /\ (pc'[s] = "lock" => answer'[s] = 0)
    BY <2>1, AfterFindIs
  <2>3. answer'[s] = 0 => name[s] \notin before[s]
    BY <1>4, LookupFinds
  <2>. QED  BY <1>0, <1>1, <1>3, <2>2, <2>3 DEF NotBefore, Fresh
<1>5. CASE ~FindCached(s) /\ ~Refresh(s)
  <2>1. /\ pc'[s] \in {"dup", "handler", "invalidate"} =>
              pc[s] \in {"lock", "dup", "handler", "invalidate"}
        /\ pc'[s] \notin {"lock", "ensured", "object"}
    BY <1>2, <1>5 DEF VaultStep, FindCached, FindDirty, Refresh, CreateBegin,
       CreateDuplicate, CreateGivesUp,
     AllocateSchema, HandlerFails, EnqueueSchema, InvalidateCache, CreateReturns, Goto
  <2>2. pc[s] \in {"lock", "dup", "handler", "invalidate"} => name[s] \notin before[s]
    BY <1>0 DEF NotBefore, Fresh
  <2>. QED  BY <1>0, <1>1, <1>3, <2>1, <2>2 DEF NotBefore, Fresh
<1>. QED  BY <1>4, <1>5

(* As long as no two sessions are inside of one vault, which is what the   *)
(* comment of FindSchema asks for, the caches are up to date where a       *)
(* command relies on them: a type is known to every command that begins    *)
(* after its defstruct has returned, on whichever threads sessions are     *)
(* resumed. And CreateSchema never waits for the lock it holds.            *)
THEOREM CachesAreFresh == Spec /\ []VaultConfined => []CacheInv
<1>1. Init => FreshInv
  BY InitFresh
<1>2. FreshInv /\ VaultConfined /\ [Next]_vars => FreshInv'
  <2>. SUFFICES ASSUME FreshInv, VaultConfined, [Next]_vars  PROVE FreshInv'
    OBVIOUS
  <2>0. EnvInv /\ TypeOK /\ VaultIsCreated /\ DefinedReaches /\ NotBefore
    BY DEF FreshInv, EnvInv, TypesInv
  <2>1. CASE CreateVault /\ UNCHANGED <<storageVars, thread, sent>>
    <3>1. EnvInv'
      BY <2>0, <2>1, CreateVaultKeeps
    <3>2. /\ vaults' = vaults \cup {LateVault}
          /\ UNCHANGED <<types, updated, cache, defined, home, pc, command, name, answer, todo,
                         before, thread>>
      BY <2>1 DEF CreateVault, sessionVars
    <3>3. VaultIsCreated' /\ NotBefore'
      BY <2>0, <3>2 DEF VaultIsCreated, NotBefore, Fresh
    <3>4. DefinedReaches'
      BY <2>0, <3>2 DEF DefinedReaches, Reaches
    <3>. QED  BY <3>1, <3>3, <3>4 DEF FreshInv
  <2>2. ASSUME NEW s \in Sessions, Arrives(s)  PROVE FreshInv'
    BY <2>0, <2>2, SessionKeeps, ArrivesFresh DEF FreshInv
  <2>3. ASSUME NEW s \in Sessions, SessionStep(s)  PROVE FreshInv'
    <3>1. EnvInv'
      BY <2>0, <2>3, SessionKeeps
    <3>2. CASE VaultStep(s) /\ UNCHANGED <<storageVars, thread, sent>>
      BY <3>1, <3>2, CreatedStays, VaultStepReaches, VaultStepNotBefore
         DEF FreshInv
    <3>3. CASE StorageStep(s) /\ UNCHANGED <<thread, sent>>
      BY <3>1, <3>3, CreatedStays, StorageStepFresh DEF FreshInv
    <3>. QED  BY <2>3, <3>2, <3>3 DEF SessionStep
  <2>4. CASE UNCHANGED vars
    <3>1. EnvInv'
      BY <2>0, <2>4, StutterKeeps
    <3>2. UNCHANGED <<vaults, types, updated, cache, defined, home, pc, command, name, answer,
                      todo, before, thread>>
      BY <2>4 DEF vars, vaultVars, sessionVars
    <3>3. VaultIsCreated' /\ NotBefore'
      BY <2>0, <3>2 DEF VaultIsCreated, NotBefore, Fresh
    <3>4. DefinedReaches'
      BY <2>0, <3>2 DEF DefinedReaches, Reaches
    <3>. QED  BY <3>1, <3>3, <3>4 DEF FreshInv
  <2>. QED  BY <2>1, <2>2, <2>3, <2>4 DEF Next, Finished
<1>3. FreshInv => CacheInv
  BY DEF FreshInv, EnvInv, TypesInv, NotBefore, CacheInv
<1>. QED  BY <1>1, <1>2, <1>3, PTL DEF Spec
=============================================================================
