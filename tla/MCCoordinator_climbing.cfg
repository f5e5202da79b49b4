CONSTANTS
    Panel <- MCPanel
    Dimensions = {"clarity", "puzzle"}
    Weight <- Equal
    Marks <- MCMarks
    Floor <- OnlyClarity
    OverallFloor = 2
    EvidenceAdmissible = TRUE
    ArtifactsRequired = TRUE
    MaxRounds = 2
    MaxCalls = 12
    MaxTokens = 11
    MaxInvalid = 1
    MaxBadBuilds = 1
    Usages = {0, 12}
    Faults = {"crash", "driver", "build"}
    None = None
SPECIFICATION Spec
INVARIANTS MovesAreAuthorized RungsChain CompletedPassed
PROPERTIES CallsAreBudgeted RunsEnd
