SPECIFICATION DetectSpec
CONSTANTS
    AllRules <- MCAllRules
    SpecialRules <- MCSpecialRules
    Unnamed = "unnamed"
    Configs <- MCConfigs
    Texts <- MCTexts
    Paths <- MCPaths
    GlobalLists <- MCGlobalLists
    AllowSignature <- MCSignature
    GenericIDs = {"generic", "generic-mine"}
    MaxTarget = 5
    MaxMatches = 2
    MaxSecretSize = 2
    LineOffset = 1
    MaxParse = 4
    ContextLeft = 1
    ContextRight = 1
    MaxLength = 6
    MaxReturns = 5
INVARIANTS RulesAreAsAsked SecretsAreRight NothingIsLost
CHECK_DEADLOCK FALSE
