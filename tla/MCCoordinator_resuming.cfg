CONSTANTS
    Panel <- MCPanel
    Dimensions = {"clarity", "puzzle"}
    Weight <- Equal
    Marks <- MCMarks
    Floor <- OnlyClarity
    OverallFloor = 2
    EvidenceAdmissible = TRUE
    ArtifactsRequired = TRUE
    MaxRounds = 2
    MaxCalls = 12
    MaxTokens = 11
    MaxInvalid = 1
    MaxBadBuilds = 1
    Usages = {0}
    Faults = {"driver"}
    None = None
SPECIFICATION Spec
INVARIANTS InterruptedRunsResume
