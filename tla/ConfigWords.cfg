CONSTANTS
    Names <- MCNames
    Directives <- MCDirectives
    Typed <- MCTyped
    Words <- MCWords
    ReplaceFilename <- MCReplaceFilename
    Files <- MCFiles
    MaxFiles = 1
    MaxEvents = 3
SPECIFICATION Spec
INVARIANTS
    WordsAreValues
