CONSTANTS
    Chars <- MCChars
    BufSize = 2
    OutSize = 3
    Functions <- MCFunctions
    Digits = {"1"}
    Number = "1"
    Texts <- MCTexts
    MaxChars = 3
    MaxTokens = 4
    MaxNested = 8
SPECIFICATION Spec
INVARIANTS
    ReadingInv
    CallFindsFrame
    RepliesDelivered
    CodeIsOfText
    ReplyIsEvaluation
