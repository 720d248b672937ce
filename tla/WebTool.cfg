SPECIFICATION Spec
CONSTANTS
    s1 = s1
    j1 = j1
    j2 = j2
    a = a
    b = b
    v = v
    aws1 = aws1
    key1 = key1
    key2 = key2
    None = None
    Servers = {s1}
    Jobs = {j1, j2}
    Files = {a, b, v}
    InExcludedDir = {b}
    ExcludedName = {}
    Unfit = {v}
    Minified = {}
    Findings = {aws1, key1, key2}
    FileOf <- MCFileOf
    LineOf <- MCLineOf
    RuleOf <- MCRuleOf
    ValueOf <- MCValueOf
    Fails <- MCFails
    LowRules = {"keyword"}
    AggressiveRules = {"keyword"}
    Options <- MCOptions
    MaxReaders = 1
INVARIANTS BestRowIsShown MarkedSecretsAreHidden MarksAreAsTold
PROPERTIES JobsEnd
CHECK_DEADLOCK FALSE
