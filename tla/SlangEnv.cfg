CONSTANTS
    Sessions = {s1, s2}
    Vaults = {v0, v1}
    LateVault = v0
    UserNames = {A}
    Basic = int
    NoSession = NoSession
    MaxTypes = 3
    MaxFields = 1
    Commands = {"defstruct", "create", "select"}
    Targets = {A, int}
    FieldTypes = {A, int}
    MaxCommands = 2
    Pinned = TRUE
SPECIFICATION FairSpec
INVARIANTS
    Agreement
    CacheInv
    OneVaultPerType
    SelectComplete
PROPERTY CommandsFinish
