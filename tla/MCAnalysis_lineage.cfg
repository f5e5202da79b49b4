SPECIFICATION Spec
CONSTANTS
    None = None
    Refused = Refused
    Unset = Unset
    p1 = p1
    p2 = p2
    Processes = {p1, p2}
    Scenarios <- SetOfScenarios
    Script <- ScriptDef
    Actors <- ActorsDef
    Available <- AvailableDef
    Stored <- StoredDef
    Answers <- AnswersDef
    Crashable = {p1}
    MaxCrashes <- CrashesDef
INVARIANTS
    AnalystsAreIsolated
    OneAnswerStands
    AttemptsAreBounded
    ClaimsStand
    DerivationLaws
CHECK_DEADLOCK FALSE
