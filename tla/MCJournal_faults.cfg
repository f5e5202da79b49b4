CONSTANTS
    Processes = {p1, p2}
    Operations <- MCOperations
    Faults = {"process", "power"}
    Unset = Unset
    None = None
SPECIFICATION Spec
INVARIANTS KeyRecordedOnce AppendedSurvives
PROPERTIES ImplementsDurableLog
