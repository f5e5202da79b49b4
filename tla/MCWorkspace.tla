---------------------------- MODULE MCWorkspace -----------------------------
(* Workspace for TLC: sets of tasks, each chosen for one question.           *)
EXTENDS Workspace

T(key, op, branch, data, other) ==
    [key |-> key, op |-> op, branch |-> branch, data |-> data, other |-> other]

\* Two writers race for one branch, die and retry.
RacingTasks ==
    {T("k1", "commit", "main", "a", None),
     T("k2", "commit", "main", "b", None)}

\* Branches, merges, selections and candidates, with parents that are not stored.
HistoryTasks ==
    {T("k1", "commit", "main", "a", None),
     T("k2", "branch", "side", "", "main"),
     T("k3", "commit", "main", "b", "side"),
     T("k3", "commit", "main", "c", "foreign"),
     T("k4", "select", "main", "", None),
     T("k5", "freeze", "main", "", None)}

\* Checkpoints and rebuilds beside commits and beside appends of other parts.
CheckpointTasks ==
    {T("c1", "commit", "main", "a", None),
     T("c2", "checkpoint", None, "", None),
     T("c3", "rebuild", None, "", None)}

\* One writer, one opener.
OpeningTasks ==
    {T("k1", "commit", "main", "a", None),
     T("k2", "freeze", "main", "", None),
     T("k3", "open", None, "", None)}

\* Each Workspace is asked for one of these.
MCTasks ==
    [racing |-> RacingTasks, histories |-> HistoryTasks,
     checkpoints |-> CheckpointTasks, opening |-> OpeningTasks]
MCMaxLineage == [racing |-> 9, histories |-> 5, checkpoints |-> 3, opening |-> 9]
MCMaxElsewhere == [racing |-> 0, histories |-> 0, checkpoints |-> 1, opening |-> 0]

MCWorkers == [racing |-> {"p1", "p2"}, histories |-> {"p1"},
              checkpoints |-> {"p1"}, opening |-> {"p1", "p2"}]

TasksOf == [id \in Workspaces |-> MCTasks[id]]
WorkersOf == [id \in Workspaces |-> MCWorkers[id]]
MaxLineageOf == [id \in Workspaces |-> MCMaxLineage[id]]
MaxElsewhereOf == [id \in Workspaces |-> MCMaxElsewhere[id]]
=============================================================================
