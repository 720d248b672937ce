SPECIFICATION DetectSpec
CONSTANTS
    AllRules <- MCTwoLists
    SpecialRules <- MCSpecialRules
    Unnamed = "unnamed"
    Configs <- MCDefaults
    Texts <- MCTexts
    Paths <- MCPaths
    GlobalLists <- MCGlobalLists
    AllowSignature <- MCSignature
    GenericIDs = {"generic", "generic-mine"}
    MaxTarget = 5
    MaxMatches = 2
    MaxSecretSize = 2
    LineOffset = 1
    MaxParse = 4
    ContextLeft = 1
    ContextRight = 1
    MaxLength = 4
    MaxReturns = 0
INVARIANT NothingIsLost
CHECK_DEADLOCK FALSE
