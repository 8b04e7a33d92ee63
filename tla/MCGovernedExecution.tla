------------------------ MODULE MCGovernedExecution ------------------------
(***************************************************************************)
(* Small instances of GovernedExecution: task "build" depends on "fetch"   *)
(* and works in the same workspace; "audit" works elsewhere.               *)
(***************************************************************************)
EXTENDS GovernedExecution

CONSTANTS fetch, build, audit, here, there

TwoTasks == {fetch, build}
ThreeTasks == {fetch, build, audit}

WorkspaceOf == [i \in TaskIds |-> IF i = audit THEN there ELSE here]
DependenciesOf == [i \in TaskIds |-> IF i = build THEN {fetch} ELSE {}]
=============================================================================
