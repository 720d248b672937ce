SPECIFICATION Spec
CONSTANTS
    r1 = r1
    r2 = r2
    Readers = {r1, r2}
    ItemsOf <- TwoAndOne
    ItemsCap = 1
    ErrorsCap = 1
    Paths = 2
INVARIANTS ErrorsAreNotHidden
CHECK_DEADLOCK FALSE
