SPECIFICATION FairSpec
CONSTANTS
    Runners = {run1}
    Managers = {man1}
    Stoppers = {stop1}
    Resetters = {reset1}
    Procs = {p1, p2}
    Unsignalable = {p2}
    None = None
INVARIANTS
    NoProcessSlipsThrough
    NoForgottenProcess
    SweptRunIsNotAFailure
PROPERTIES
    ImplementsEmergencyStop
    NothingSurvivesTheStop
    RunComesBack
