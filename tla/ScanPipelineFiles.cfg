SPECIFICATION Spec
CONSTANTS
    i1 = i1
    i2 = i2
    i3 = i3
    i4 = i4
    f1 = f1
    f2 = f2
    f3 = f3
    f4 = f4
    f5 = f5
    f6 = f6
    id1 = id1
    id2 = id2
    NoItem = NoItem
    NoFinding = NoFinding
    Findings <- AllFindings
    IDs = {id1, id2}
    SecretID <- SharedIDs
    Unbuildable = {f5}
    Workers = {w1, w2}
    Items <- FileItems
    Fragments <- FileFragments
    Ignored = {}
    Unreadable = {i4}
    FromFiles = TRUE
    Weight <- FileWeights
    MemoryBudget = 3
    QueueSize = 1
    ChanCap = 1
    MaxFindings = 0
    WithValidation = TRUE
INVARIANTS MemoryReturned ReportedSecretsAreComplete
PROPERTIES ScanCompletes
