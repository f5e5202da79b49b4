CONSTANTS
    Workspaces = {"racing", "histories", "checkpoints"}
    Processes = {"p1", "p2"}
    Openers = {}
    Crashable = {"p1"}
    Workers <- WorkersOf
    Branches = {"main", "side"}
    Tasks <- TasksOf
    MaxLineage <- MaxLineageOf
    MaxElsewhere <- MaxElsewhereOf
    Unset = Unset
    None = None
SPECIFICATION Spec
CHECK_DEADLOCK FALSE
INVARIANTS EveryMoveSawItsHead OperationOnce RejectionAudited EvidenceResolves OpeningRecovers CheckpointConsistent
PROPERTIES DoneIsNotRejected LockComesFree
