SPECIFICATION Spec
CONSTANTS
    fetch = fetch
    build = build
    audit = audit
    here = here
    there = there
    Threads = {t1, t2}
    Plans = {p1}
    TaskIds <- ThreeTasks
    Workspaces = {here, there}
    workspace <- WorkspaceOf
    dependencies <- DependenciesOf
    Mutations = {build}
    MaxConcurrency = 2
    CanReset = FALSE
    None = None
INVARIANTS
    WorkspaceExclusion
    ResourcesAreConserved
    DependenciesCompletedFirst
    CompletionIsEarned
