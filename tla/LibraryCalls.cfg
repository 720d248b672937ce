SPECIFICATION Spec
CONSTANTS
    N = 2
    MaxItems = 1
    MaxErrors = 3
    ItemsCap = 1
    ErrorsCap = 1
    DynamicBuffer = 1
INVARIANTS ReportsAreWhole ErrorsReachTheirCall
PROPERTIES CallsReturn
CHECK_DEADLOCK FALSE
