CONSTANTS
    Names <- MCNames
    Directives <- MCDirectives
    Typed <- MCTyped
    Words <- MCWords
    ReplaceFilename <- MCReplaceFilename
    Files <- MCFiles
    MaxFiles = 2
    MaxEvents = 6
SPECIFICATION Spec
INVARIANTS
    ParserInv
    MapIsOfDocument
    LastOverrides
