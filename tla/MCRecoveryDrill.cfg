SPECIFICATION FairSpec
CONSTANTS
    Tasks = {t1, t2}
    Files = {f1, f2}
    Payloads = {before, after}
    Absent = Absent
    Garbage = Garbage
    MaxFailures = 3
    None = None
INVARIANTS
    ChangeIsCovered
    NoDamageAccepted
PROPERTIES
    ImplementsAtomicChange
    RecoveryEnds
