SPECIFICATION Spec
CONSTANTS
    Callers = {c1, c2}
    ActivationIds = {x1}
    Capacity = 5
    None = None
PROPERTIES
    KillIsTerminal
