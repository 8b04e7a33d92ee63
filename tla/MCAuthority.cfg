SPECIFICATION ServiceSpec
CONSTANTS
    a = a
    b = b
    x = x
    y = y
    k1 = k1
    k2 = k2
    k3 = k3
    k4 = k4
    k5 = k5
    t1 = t1
    t2 = t2
    s1 = s1
    s2 = s2
    Threads = {t1, t2}
    Commands <- AllCommands
    Forbidden <- Refused
    MaxPending = 1
    None = None
    Subscribers = {s1, s2}
    MaxEvents = 2
    Size <- Sizes
    MaxBytes = 2
SYMMETRY Symmetry
INVARIANTS
    CallsAreCounted
    AnswersAreTrue
    EventsFormChains
    NothingMissed
PROPERTIES
    ImplementsLedger
