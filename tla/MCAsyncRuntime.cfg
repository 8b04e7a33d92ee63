SPECIFICATION FairSpec
CONSTANTS
    Ops = {build, scan, load}
    Owners = {view}
    Governed = {build}
    MaxConcurrency = 1
    QueueCapacity = 1
    MaxGeneration = 3
    None = None
INVARIANTS
    SlotsAreConserved
    ClosedOwnerHasNoTask
PROPERTIES
    CancelledNeverSucceeds
    StaleLeasesStayStale
    CloseCompletes
    EnteredOperationsEnd
