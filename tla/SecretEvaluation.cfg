SPECIFICATION Spec
CONSTANTS
    jwt = jwt
    hub = hub
    lab1 = lab1
    lab2 = lab2
    gcp = gcp
    custom = custom
    access = access
    key1 = key1
    key2 = key2
    Secrets <- AllSecrets
    Rule <- RuleOf
    Source <- SourceOf
    Disabled = {"github-pat"}
    Orders <- SomeOrders
    ScoredRules <- Scored
    Category <- Categories
    RuleType <- RuleTypes
    RuleSeverity <- Severities
INVARIANTS ExtrasSurvive ScoreMatchesFinalStatus LiveSecretsRankHigher
