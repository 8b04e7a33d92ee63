SPECIFICATION FairSpec
CONSTANTS
    fetch = fetch
    build = build
    audit = audit
    here = here
    there = there
    Threads = {t1, t2}
    Plans = {p1}
    TaskIds <- TwoTasks
    Workspaces = {here, there}
    workspace <- WorkspaceOf
    dependencies <- DependenciesOf
    Mutations = {}
    MaxConcurrency = 1
    CanReset = TRUE
    None = None
INVARIANTS
    ResetRevivesNothing
PROPERTIES
    CancellationIsFinal
    CallsReturn
