SPECIFICATION Spec
CONSTANTS
    p1 = p1
    p2 = p2
    p3 = p3
    hidden = hidden
    s1 = s1
    s2 = s2
    empty = empty
    secret = secret
    bad = bad
    Pages = {p1, p2, p3, hidden}
    Spaces = {s1, s2, empty, secret}
    SpaceOf <- PageSpaces
    Visible = {p1, p2, p3}
    Listed = {s1, s2, empty}
    Invalid = {bad}
    Selections <- SomeSelections
    FirstVersion <- Before
    MaxVersion <- After
    TooLarge <- LargeBodies
    PerRequest = 2
    APILimit = 1
    TotalLimit = 2
INVARIANTS EachVersionOnce NothingIsMissed WarningIsRight
PROPERTIES ScanEnds
CHECK_DEADLOCK FALSE
