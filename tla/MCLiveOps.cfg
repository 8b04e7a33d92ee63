SPECIFICATION FairSpec
CONSTANTS
    Callers = {c1, c2}
    ActivationIds = {x1, x2}
    Capacity = 5
    None = None
PROPERTIES
    WindowCloses
