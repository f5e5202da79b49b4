CONSTANTS
    Workspaces = {"opening"}
    Processes = {"p1", "p2"}
    Openers = {"p1"}
    Crashable = {}
    Workers <- WorkersOf
    Branches = {"main", "side"}
    Tasks <- TasksOf
    MaxLineage <- MaxLineageOf
    MaxElsewhere <- MaxElsewhereOf
    Unset = Unset
    None = None
SPECIFICATION Spec
INVARIANTS ManifestCurrentWhenQuiet
