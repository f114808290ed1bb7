CONSTANTS
    Sessions = {s1, s2}
    Vaults = {v0, v1}
    LateVault = v0
    UserNames = {A}
    Basic = int
    NoSession = NoSession
    MaxTypes = 3
    MaxFields = 0
    Commands = {"defstruct"}
    Targets = {A, int}
    FieldTypes = {A, int}
    MaxCommands = 2
    Pinned = FALSE
SPECIFICATION Spec
INVARIANT VaultConfined
